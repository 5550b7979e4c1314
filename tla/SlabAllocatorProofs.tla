------------------------ MODULE SlabAllocatorProofs ------------------------
(***************************************************************************)
(* No object of a slab is handed out twice, lost or freed under its        *)
(* caller, for any number of cpus, nodes, slabs and objects, whatever the  *)
(* batch and the watermark; and the destructor of a root drains the lists. *)
(*                                                                         *)
(* ObjectsPartitioned counts the places of an object.  The inductive       *)
(* invariant says the same without counting: the places exclude each other *)
(* (Apart), an object of a slab in use has one (Somewhere), and what is on *)
(* its way home is on the way to the cache that owns its slab.             *)
(***************************************************************************)
EXTENDS SlabAllocator, TLAPS, FiniteSetTheorems, SequenceTheorems

Busy == {"alloc", "trim", "flushTrim", "flushFree", "claim", "drain"}
InDestructor(c) == pc[c] \in {"claim", "drain", "destroyed"}

\* A cpu in an operation works on a cache.  The destructor runs alone.
ControlInv ==
  \A c \in Cpus :
    /\ pc[c] \in Busy => target[c] \in Caches
    /\ InDestructor(c) => stage > 0 /\ \A d \in Cpus \ {c} : pc[d] = "idle"
    /\ pc[c] \in {"claim", "drain"} => target[c] = DrainOrder[stage]

HeldApart ==
  \A o \in held : /\ \A s \in Slabs : o \notin list[s]
                  /\ \A k \in Caches : o \notin object_list_[k] /\ o \notin remote_[k]
                  /\ \A c \in Cpus : o \notin remote_list_[c]

SlabApart ==
  \A s \in Slabs : \A o \in list[s] :
    /\ SlabOf(o) = s
    /\ \A k \in Caches : o \notin object_list_[k] /\ o \notin remote_[k]
    /\ \A c \in Cpus : o \notin remote_list_[c]

ListApart ==
  \A k \in Caches : \A o \in object_list_[k] :
    /\ \A j \in Caches : /\ o \in object_list_[j] => j = k
                         /\ o \notin remote_[j]
    /\ \A c \in Cpus : o \notin remote_list_[c]

BatchApart ==
  \A c \in Cpus : \A o \in remote_list_[c] :
    /\ \A k \in Caches : o \notin remote_[k]
    /\ \A d \in Cpus : o \in remote_list_[d] => d = c

\* The places exclude each other.  That an object is on one remote list only
\* follows from RemoteObjectsGoHome.
Apart == HeldApart /\ SlabApart /\ ListApart /\ BatchApart

HasPlace(o) ==
  \/ o \in held
  \/ o \in list[SlabOf(o)]
  \/ \E k \in Caches : o \in object_list_[k]
  \/ \E k \in Caches : o \in remote_[k]
  \/ \E c \in Cpus : o \in remote_list_[c]

Somewhere == \A o \in Objects : cache[SlabOf(o)] # None <=> HasPlace(o)

\* A node's cache only ever gets objects by claiming its remote list.
NodeListsHome ==
  \A n \in Nodes : \A o \in object_list_[n] : cache[SlabOf(o)] = n

\* The inductive invariant, without the destructor.
DataInv ==
  /\ Apart
  /\ Somewhere
  /\ SlabAccounting
  /\ RemoteObjectsGoHome
  /\ NodeListsHome

SlabInv == TypeOK /\ ControlInv /\ DataInv

dataVars == <<object_list_, partial_page_list_, remote_, remote_list_,
              remote_cache_, cache, used, list, held>>

-----------------------------------------------------------------------------
(* Objects and slabs *)

\* A slab has num_objects objects.
LEMMA ObjectFacts ==
  /\ \A o \in Objects : SlabOf(o) \in Slabs
  /\ \A s \in Slabs : /\ IsFiniteSet(ObjectsOf(s))
                      /\ Cardinality(ObjectsOf(s)) = num_objects
  /\ FlushAll \in Nat
<1> USE SlabAssumption
<1>1. \A o \in Objects : SlabOf(o) \in Slabs
  BY DEF Objects, SlabOf
<1>2. IsFiniteSet(1 .. num_objects) /\ Cardinality(1 .. num_objects) = num_objects
  BY FS_Interval
<1>3. ASSUME NEW s \in Slabs
      PROVE  IsFiniteSet(ObjectsOf(s)) /\ Cardinality(ObjectsOf(s)) = num_objects
  <2>1. ObjectsOf(s) = {s} \X (1 .. num_objects)
    BY DEF ObjectsOf, Objects, SlabOf
  <2>2. IsFiniteSet({s}) /\ Cardinality({s}) = 1
    BY FS_Singleton
  <2>3. /\ IsFiniteSet({s} \X (1 .. num_objects))
        /\ Cardinality({s} \X (1 .. num_objects))
             = Cardinality({s}) * Cardinality(1 .. num_objects)
    BY ONLY <1>2, <2>2, FS_Product
  <2> QED BY <1>2, <2>1, <2>2, <2>3
<1>4. FlushAll \in Nat
  <2>1. IsFiniteSet(Objects)
    BY <1>2, FS_Product DEF Objects
  <2> QED BY <2>1, FS_CardinalityType DEF FlushAll
<1> QED BY <1>1, <1>3, <1>4

\* What the count of a slab says about its list.
LEMMA SlabListFacts ==
  ASSUME TypeOK, SlabAccounting, SlabApart, NEW s \in Slabs, cache[s] # None
  PROVE  /\ list[s] \subseteq ObjectsOf(s)
         /\ IsFiniteSet(list[s])
         /\ Cardinality(list[s]) \in Nat
         /\ used[s] + Cardinality(list[s]) = num_objects
         /\ list[s] = {} <=> used[s] = num_objects
         /\ \A o \in list[s] : Cardinality(list[s] \ {o}) = Cardinality(list[s]) - 1
         /\ \A o \in list[s] : list[s] \ {o} = {} <=> used[s] + 1 = num_objects
         /\ \A o \in ObjectsOf(s) \ list[s] :
              /\ used[s] > 0
              /\ used[s] = 1 => list[s] = ObjectsOf(s) \ {o}
              /\ Cardinality(list[s] \cup {o}) = Cardinality(list[s]) + 1
<1>1. list[s] \subseteq ObjectsOf(s)
  BY DEF TypeOK, SlabApart, ObjectsOf
<1>2. IsFiniteSet(list[s]) /\ Cardinality(list[s]) \in Nat
  BY <1>1, ObjectFacts, FS_Subset, FS_CardinalityType
<1>3. used[s] + Cardinality(list[s]) = num_objects /\ used[s] \in 0 .. num_objects
  BY DEF SlabAccounting, TypeOK
<1>4. num_objects \in Nat
  BY SlabAssumption
<1>5. list[s] = {} <=> used[s] = num_objects
  BY <1>2, <1>3, <1>4, FS_EmptySet
<1>6. ASSUME NEW o \in list[s]
      PROVE  /\ Cardinality(list[s] \ {o}) = Cardinality(list[s]) - 1
             /\ list[s] \ {o} = {} <=> used[s] + 1 = num_objects
  <2>1. /\ IsFiniteSet(list[s] \ {o})
        /\ Cardinality(list[s] \ {o}) = Cardinality(list[s]) - 1
    BY <1>2, FS_RemoveElement
  <2> QED BY <1>2, <1>3, <1>4, <2>1, FS_EmptySet
<1>7. ASSUME NEW o \in ObjectsOf(s) \ list[s]
      PROVE  /\ used[s] > 0
             /\ used[s] = 1 => list[s] = ObjectsOf(s) \ {o}
             /\ Cardinality(list[s] \cup {o}) = Cardinality(list[s]) + 1
  <2> DEFINE rest == ObjectsOf(s) \ {o}
  <2>1. IsFiniteSet(rest) /\ Cardinality(rest) = num_objects - 1
    BY ObjectFacts, FS_RemoveElement
  <2>2. list[s] \in SUBSET rest
    BY <1>1
  <2> HIDE DEF rest
  <2>3. /\ Cardinality(list[s]) <= Cardinality(rest)
        /\ Cardinality(rest) = Cardinality(list[s]) => rest = list[s]
    BY <2>1, <2>2, FS_Subset
  <2>4. Cardinality(list[s] \cup {o}) = Cardinality(list[s]) + 1
    BY <1>2, FS_AddElement
  <2> QED BY <1>2, <1>3, <1>4, <2>1, <2>3, <2>4 DEF rest
<1> QED BY <1>1, <1>2, <1>3, <1>5, <1>6, <1>7

\* The invariant holds when a root is new: every cache is empty, every slab
\* unused, and nobody is in a call.
LEMMA InitSlabInv == Init => SlabInv
<1> SUFFICES ASSUME Init PROVE SlabInv
  OBVIOUS
<1> USE SlabAssumption
<1>1. TypeOK
  <2>1. Len(DrainOrder) \in Nat
    BY DEF DrainOrder
  <2> QED BY <2>1, ObjectFacts DEF Init, TypeOK, Locations, Caches
<1>2. ControlInv
  BY DEF Init, ControlInv, Busy, InDestructor
<1>3. Apart /\ RemoteObjectsGoHome /\ NodeListsHome
  BY DEF Init, Apart, HeldApart, SlabApart, ListApart, BatchApart,
         RemoteObjectsGoHome, NodeListsHome, Caches
<1>4. Somewhere
  BY ObjectFacts DEF Init, Somewhere, HasPlace, Caches
<1>5. SlabAccounting
  BY DEF Init, SlabAccounting, Caches
<1> QED BY <1>1, <1>2, <1>3, <1>4, <1>5 DEF SlabInv, DataInv

\* Steps that move no object.
LEMMA DataUnchanged ==
  ASSUME DataInv, UNCHANGED dataVars
  PROVE  DataInv'
<1> USE DEF dataVars
<1>1. Apart'
  BY DEF DataInv, Apart, HeldApart, SlabApart, ListApart, BatchApart
<1>2. Somewhere'
  BY DEF DataInv, Somewhere, HasPlace
<1>3. SlabAccounting'
  BY DEF DataInv, SlabAccounting
<1>4. RemoteObjectsGoHome' /\ NodeListsHome'
  BY DEF DataInv, RemoteObjectsGoHome, NodeListsHome
<1> QED BY <1>1, <1>2, <1>3, <1>4 DEF DataInv

\* A cpu takes an object off an object_list_ and hands it to a caller.
LEMMA AllocFromListData ==
  ASSUME SlabInv, NEW c \in Cpus, AllocFromList(c)
  PROVE  DataInv'
<1>1. target[c] \in Caches
  BY DEF SlabInv, ControlInv, Busy, AllocFromList
<1>2. PICK o \in object_list_[target[c]] :
        /\ object_list_' = [object_list_ EXCEPT ![target[c]] = @ \ {o}]
        /\ held' = held \cup {o}
  BY DEF AllocFromList, AllocReturns
<1>3. UNCHANGED <<partial_page_list_, remote_, remote_list_, remote_cache_, cache,
                  used, list>>
  BY DEF AllocFromList
<1>4. o \in Objects /\ object_list_ \in [Caches -> SUBSET Objects]
  BY <1>1 DEF SlabInv, TypeOK
<1> USE <1>1, <1>2, <1>3, <1>4 DEF SlabInv, DataInv
<1>5. Apart'
  BY DEF Apart, HeldApart, SlabApart, ListApart, BatchApart
<1>6. Somewhere'
  BY ObjectFacts DEF Somewhere, HasPlace
<1>7. SlabAccounting'
  BY DEF SlabAccounting
<1>8. RemoteObjectsGoHome' /\ NodeListsHome'
  BY DEF RemoteObjectsGoHome, NodeListsHome, Caches
<1> QED BY <1>5, <1>6, <1>7, <1>8

\* ClaimRemoteFreeList moves a remote list to the object_list_ of its cache.
LEMMA ClaimData ==
  ASSUME SlabInv, NEW k \in Caches, ClaimRemoteFreeList(k),
         UNCHANGED <<partial_page_list_, remote_list_, remote_cache_, cache, used,
                     list, held>>
  PROVE  DataInv'
<1> USE DEF SlabInv, DataInv, ClaimRemoteFreeList
<1>1. object_list_ \in [Caches -> SUBSET Objects] /\ remote_ \in [Caches -> SUBSET Objects]
  BY DEF TypeOK
<1> USE <1>1
<1>2. HeldApart' /\ SlabApart'
  BY DEF Apart, HeldApart, SlabApart
<1>3. ListApart'
  <2> SUFFICES ASSUME NEW i \in Caches, NEW o \in object_list_'[i]
               PROVE  /\ \A j \in Caches : /\ o \in object_list_'[j] => j = i
                                           /\ o \notin remote_'[j]
                      /\ \A c \in Cpus : o \notin remote_list_'[c]
    BY DEF ListApart
  <2>1. CASE o \in object_list_[i]
    BY <2>1 DEF Apart, ListApart
  <2>2. CASE o \notin object_list_[i]
    <3>1. i = k /\ o \in remote_[k]
      BY <2>2
    <3>2. \A j \in Caches : o \in remote_[j] => j = k
      BY <3>1 DEF RemoteObjectsGoHome
    <3>3. \A j \in Caches : o \notin object_list_[j]
      BY <3>1 DEF Apart, ListApart
    <3> QED BY <3>1, <3>2, <3>3 DEF Apart, BatchApart
  <2> QED BY <2>1, <2>2
<1>4. BatchApart'
  BY DEF Apart, BatchApart
<1>5. Somewhere'
  <2> SUFFICES ASSUME NEW o \in Objects
               PROVE  HasPlace(o) <=> HasPlace(o)'
    BY DEF Somewhere
  <2>1. (\E j \in Caches : o \in object_list_[j] \cup remote_[j])
          <=> (\E j \in Caches : o \in object_list_'[j] \cup remote_'[j])
    BY DEF HasPlace
  <2> QED BY <2>1 DEF HasPlace
<1>6. SlabAccounting'
  BY DEF SlabAccounting
<1>7. RemoteObjectsGoHome' /\ NodeListsHome'
  BY DEF RemoteObjectsGoHome, NodeListsHome, Caches
<1> QED BY <1>2, <1>3, <1>4, <1>5, <1>6, <1>7 DEF Apart

\* An object leaves its slab for a caller.
LEMMA AllocFromPartialData ==
  ASSUME SlabInv, NEW c \in Cpus, AllocFromPartial(c)
  PROVE  DataInv' /\ used' \in [Slabs -> 0 .. num_objects]
<1> DEFINE k == target[c]
<1>1. k \in Caches
  BY DEF SlabInv, ControlInv, Busy, AllocFromPartial, ListsDry
<1> HIDE DEF k
<1>2. PICK s \in Slabs, o \in Objects :
        /\ s \in partial_page_list_[k] /\ o \in list[s]
        /\ partial_page_list_' =
             [partial_page_list_ EXCEPT ![k] = IF LastObject(s) THEN @ \ {s} ELSE @]
        /\ used' = [used EXCEPT ![s] = @ + 1]
        /\ list' = [list EXCEPT ![s] = @ \ {o}]
        /\ held' = held \cup {o}
  BY <1>1 DEF AllocFromPartial, AllocReturns, k, SlabInv, TypeOK
<1>3. UNCHANGED <<object_list_, remote_, remote_list_, remote_cache_, cache>>
  BY DEF AllocFromPartial
<1>4. /\ s \in Slabs /\ cache[s] = k /\ cache[s] # None
      /\ o \in Objects /\ SlabOf(o) = s
  BY <1>1, <1>2, SlabAssumption, SMTT(30)
     DEF SlabInv, DataInv, TypeOK, SlabAccounting, Apart, SlabApart, Caches
<1>5. /\ Cardinality(list[s] \ {o}) = Cardinality(list[s]) - 1
      /\ list[s] \ {o} = {} <=> used[s] + 1 = num_objects
      /\ used[s] + Cardinality(list[s]) = num_objects
      /\ Cardinality(list[s]) \in Nat /\ list[s] # {} /\ used[s] # num_objects
  BY <1>2, <1>4, SlabListFacts DEF SlabInv, DataInv, Apart
<1>6. /\ list \in [Slabs -> SUBSET Objects] /\ used \in [Slabs -> 0 .. num_objects]
      /\ partial_page_list_ \in [Caches -> SUBSET Slabs]
      /\ num_objects \in Nat
  BY SlabAssumption DEF SlabInv, TypeOK
<1> USE <1>1, <1>2, <1>3, <1>4, <1>6 DEF SlabInv, DataInv
<1>7. Apart'
  BY DEF Apart, HeldApart, SlabApart, ListApart, BatchApart
<1>8. Somewhere'
  BY ObjectFacts DEF Somewhere, HasPlace
<1>9. SlabAccounting'
  <2>1. \A t \in Slabs : cache'[t] # None => used'[t] + Cardinality(list'[t]) = num_objects
    BY <1>5 DEF SlabAccounting
  <2>2. \A j \in Caches :
          partial_page_list_'[j] = {t \in Slabs : cache'[t] = j /\ list'[t] # {}}
    <3> SUFFICES ASSUME NEW j \in Caches, NEW t \in Slabs
                 PROVE  t \in partial_page_list_'[j] <=> cache'[t] = j /\ list'[t] # {}
      BY DEF TypeOK
    <3>1. t \in partial_page_list_[j] <=> cache[t] = j /\ list[t] # {}
      BY DEF SlabAccounting
    <3>2. CASE t = s
      BY <1>5, <3>1, <3>2 DEF LastObject
    <3>3. CASE t # s
      BY <3>1, <3>3
    <3> QED BY <3>2, <3>3
  <2> QED BY <2>1, <2>2 DEF SlabAccounting
<1>10. RemoteObjectsGoHome' /\ NodeListsHome'
  BY DEF RemoteObjectsGoHome, NodeListsHome
<1>11. used' \in [Slabs -> 0 .. num_objects]
  BY <1>5
<1> QED BY <1>7, <1>8, <1>9, <1>10, <1>11

\* A new slab: all of its objects are in it.
LEMMA AddSlabData ==
  ASSUME SlabInv, NEW c \in Cpus, AddSlab(c)
  PROVE  DataInv'
<1> DEFINE k == target[c]
<1>1. k \in Caches /\ k # None
  BY SlabAssumption DEF SlabInv, ControlInv, Busy, AddSlab, ListsDry, Caches
<1> HIDE DEF k
<1>2. PICK s \in Slabs :
        /\ cache[s] = None
        /\ cache' = [cache EXCEPT ![s] = k]
        /\ used' = [used EXCEPT ![s] = 0]
        /\ list' = [list EXCEPT ![s] = ObjectsOf(s)]
        /\ partial_page_list_' = [partial_page_list_ EXCEPT ![k] = @ \cup {s}]
  BY DEF AddSlab, k
<1>3. UNCHANGED <<object_list_, remote_, remote_list_, remote_cache_, held>>
  BY DEF AddSlab
<1>4. /\ list \in [Slabs -> SUBSET Objects] /\ used \in [Slabs -> 0 .. num_objects]
      /\ cache \in [Slabs -> Caches \cup {None}]
      /\ partial_page_list_ \in [Caches -> SUBSET Slabs]
      /\ num_objects \in Nat \ {0}
  BY SlabAssumption DEF SlabInv, TypeOK
<1>5. \A o \in ObjectsOf(s) : o \in Objects /\ SlabOf(o) = s /\ ~HasPlace(o)
  BY <1>2 DEF ObjectsOf, SlabInv, DataInv, Somewhere
<1>6. \A o \in Objects : SlabOf(o) = s <=> o \in ObjectsOf(s)
  BY DEF ObjectsOf
<1> USE <1>1, <1>2, <1>3, <1>4 DEF SlabInv, DataInv
<1>7. Apart'
  <2>1. HeldApart'
    BY <1>5 DEF Apart, HeldApart, HasPlace
  <2>2. SlabApart'
    <3> SUFFICES ASSUME NEW t \in Slabs, NEW o \in list'[t]
                 PROVE  /\ SlabOf(o) = t
                        /\ \A j \in Caches : o \notin object_list_[j] /\ o \notin remote_[j]
                        /\ \A d \in Cpus : o \notin remote_list_[d]
      BY DEF SlabApart
    <3>1. CASE t = s
      BY <3>1, <1>5 DEF HasPlace
    <3>2. CASE t # s
      BY <3>2 DEF Apart, SlabApart
    <3> QED BY <3>1, <3>2
  <2> QED BY <2>1, <2>2 DEF Apart, ListApart, BatchApart
<1>8. Somewhere'
  <2> SUFFICES ASSUME NEW o \in Objects
               PROVE  (cache'[SlabOf(o)] # None) <=> HasPlace(o)'
    BY DEF Somewhere
  <2>1. CASE SlabOf(o) = s
    BY <1>6, <2>1 DEF HasPlace
  <2>2. CASE SlabOf(o) # s
    BY <2>2, ObjectFacts DEF Somewhere, HasPlace
  <2> QED BY <2>1, <2>2
<1>9. SlabAccounting'
  <2>1. Cardinality(ObjectsOf(s)) = num_objects /\ ObjectsOf(s) # {}
    BY ObjectFacts, FS_EmptySet
  <2>2. \A t \in Slabs : cache'[t] # None => used'[t] + Cardinality(list'[t]) = num_objects
    BY <2>1 DEF SlabAccounting
  <2>3. \A j \in Caches :
          partial_page_list_'[j] = {t \in Slabs : cache'[t] = j /\ list'[t] # {}}
    <3> SUFFICES ASSUME NEW j \in Caches, NEW t \in Slabs
                 PROVE  t \in partial_page_list_'[j] <=> cache'[t] = j /\ list'[t] # {}
      OBVIOUS
    <3>1. t \in partial_page_list_[j] <=> cache[t] = j /\ list[t] # {}
      BY DEF SlabAccounting
    <3>2. j # None
      BY SlabAssumption DEF Caches
    <3> QED BY <2>1, <3>1, <3>2
  <2> QED BY <2>2, <2>3 DEF SlabAccounting
<1>10. RemoteObjectsGoHome' /\ NodeListsHome'
  BY <1>5 DEF RemoteObjectsGoHome, NodeListsHome, TypeOK, HasPlace, Caches, ObjectsOf
<1> QED BY <1>7, <1>8, <1>9, <1>10

\* A caller's object goes to the object_list_ of the cpu that frees it.
LEMMA FreeLocalData ==
  ASSUME SlabInv, NEW c \in Cpus, FreeLocal(c)
  PROVE  DataInv'
<1>1. PICK o \in held : /\ held' = held \ {o}
                        /\ object_list_' = [object_list_ EXCEPT ![c] = @ \cup {o}]
  BY DEF FreeLocal
<1>2. UNCHANGED <<partial_page_list_, remote_, remote_list_, remote_cache_, cache,
                  used, list>>
  BY DEF FreeLocal
<1>3. /\ o \in Objects /\ held \subseteq Objects
      /\ object_list_ \in [Caches -> SUBSET Objects] /\ c \in Caches /\ c \notin Nodes
  BY SlabAssumption DEF SlabInv, TypeOK, Caches
<1> USE <1>1, <1>2, <1>3 DEF SlabInv, DataInv
<1>4. Apart'
  BY DEF Apart, HeldApart, SlabApart, ListApart, BatchApart
<1>5. Somewhere'
  <2> SUFFICES ASSUME NEW x \in Objects PROVE HasPlace(x) <=> HasPlace(x)'
    BY DEF Somewhere
  <2>1. CASE x = o
    BY <2>1 DEF HasPlace
  <2>2. CASE x # o
    <3>1. \A k \in Caches : x \in object_list_[k] <=> x \in object_list_'[k]
      BY <2>2
    <3> QED BY <2>2, <3>1 DEF HasPlace
  <2> QED BY <2>1, <2>2
<1>6. SlabAccounting'
  BY DEF SlabAccounting
<1>7. RemoteObjectsGoHome' /\ NodeListsHome'
  BY DEF RemoteObjectsGoHome, NodeListsHome, Caches
<1> QED BY <1>4, <1>5, <1>6, <1>7

\* What FreeRemote does with o and with the batch of the cpu: each of them is
\* in the new batch or on the remote list of the cache it belongs to.
LEMMA FreeRemoteFacts ==
  ASSUME SlabInv, NEW c \in Cpus, NEW o \in Objects, cache[SlabOf(o)] # None,
         o \notin remote_list_[c], FreeRemote(c, o)
  PROVE  /\ remote_' \in [Caches -> SUBSET Objects]
         /\ remote_list_' \in [Cpus -> SUBSET Objects]
         /\ remote_cache_' \in [Cpus -> Caches \cup {None}]
         /\ remote_check' \in [Caches -> BOOLEAN]
         /\ \A d \in Cpus \ {c} : /\ remote_list_'[d] = remote_list_[d]
                                  /\ remote_cache_'[d] = remote_cache_[d]
         /\ \A x \in remote_list_'[c] : /\ x \in remote_list_[c] \cup {o}
                                        /\ cache[SlabOf(x)] = remote_cache_'[c]
         /\ \A k \in Caches : remote_[k] \subseteq remote_'[k]
         /\ \A k \in Caches : \A x \in remote_'[k] \ remote_[k] :
              /\ x \in remote_list_[c] \cup {o} /\ cache[SlabOf(x)] = k
              /\ x \notin remote_list_'[c]
         /\ \A x \in remote_list_[c] \cup {o} :
              x \in remote_list_'[c] \/ x \in remote_'[cache[SlabOf(x)]]
<1> DEFINE h == cache[SlabOf(o)]
           B == Batch(c, o)
           r == remote_list_[c]
<1>1. h \in Caches /\ remote_list_[c] \in SUBSET Objects
      /\ remote_ \in [Caches -> SUBSET Objects]
      /\ remote_list_ \in [Cpus -> SUBSET Objects]
      /\ remote_cache_ \in [Cpus -> Caches \cup {None}]
      /\ remote_check \in [Caches -> BOOLEAN]
      /\ cache \in [Slabs -> Caches \cup {None}]
  BY ObjectFacts DEF SlabInv, TypeOK
<1>2. \A x \in r : cache[SlabOf(x)] = remote_cache_[c] /\ cache[SlabOf(x)] \in Caches
  BY ObjectFacts, <1>1 DEF SlabInv, DataInv, RemoteObjectsGoHome, Somewhere, HasPlace
<1> DEFINE full == Cardinality(B) > free_batch
           Moves == /\ o \in B
                    /\ \A x \in B : x \in r \cup {o} /\ cache[SlabOf(x)] = h
                    /\ \A k \in Caches : \A x \in Sent(c, o, k) :
                         /\ x \in r \cup {o} /\ cache[SlabOf(x)] = k
                         /\ full \/ x \notin B
                    /\ \A x \in r \cup {o} :
                         x \in Sent(c, o, cache[SlabOf(x)]) \/ (x \in B /\ ~full)
<1>3. ASSUME OwnerChanges(c, o) PROVE Moves
  <2>1. B = {o} /\ h # remote_cache_[c] /\ remote_cache_[c] \in Caches
    BY <1>1, <1>3 DEF Batch, OwnerChanges
  <2>2. Sent(c, o, remote_cache_[c]) = r
    BY <1>3, <2>1 DEF Sent
  <2>3. Sent(c, o, h) = IF full THEN {o} ELSE {}
    BY <2>1 DEF Sent
  <2>4. \A k \in Caches \ {remote_cache_[c], h} : Sent(c, o, k) = {}
    BY DEF Sent
  <2> HIDE DEF B, full, h
  <2>5. \A k \in Caches : \A x \in Sent(c, o, k) :
          \/ k = remote_cache_[c] /\ x \in r
          \/ k = h /\ x = o /\ full
    BY <2>2, <2>3, <2>4
  <2> QED BY <1>1, <1>2, <2>1, <2>2, <2>3, <2>5 DEF h
<1>4. ASSUME ~OwnerChanges(c, o) PROVE Moves
  <2>1. B = r \cup {o} /\ \A x \in B : cache[SlabOf(x)] = h
    BY <1>2, <1>4, SlabAssumption DEF Batch, OwnerChanges, Caches
  <2>2. Sent(c, o, h) = IF full THEN B ELSE {}
    BY <1>4 DEF Sent
  <2>3. \A k \in Caches \ {h} : Sent(c, o, k) = {}
    BY <1>4 DEF Sent
  <2> HIDE DEF B, full, h
  <2>4. \A k \in Caches : \A x \in Sent(c, o, k) : k = h /\ x \in B /\ full
    BY <2>2, <2>3
  <2> QED BY <1>1, <1>2, <2>1, <2>2, <2>4 DEF h
<1>5. Moves
  BY <1>3, <1>4
<1>6. /\ remote_' = [k \in Caches |-> remote_[k] \cup Sent(c, o, k)]
      /\ remote_list_' = [remote_list_ EXCEPT ![c] = IF full THEN {} ELSE B]
      /\ remote_cache_' = [remote_cache_ EXCEPT ![c] = h]
      /\ remote_check' \in [Caches -> BOOLEAN]
  BY <1>1 DEF FreeRemote
<1> HIDE DEF B, full, h
<1>7. /\ remote_' \in [Caches -> SUBSET Objects]
      /\ remote_list_' \in [Cpus -> SUBSET Objects]
      /\ remote_cache_' \in [Cpus -> Caches \cup {None}]
  BY <1>1, <1>5, <1>6
<1>8. /\ \A d \in Cpus \ {c} : /\ remote_list_'[d] = remote_list_[d]
                               /\ remote_cache_'[d] = remote_cache_[d]
      /\ \A x \in remote_list_'[c] : /\ x \in remote_list_[c] \cup {o}
                                     /\ cache[SlabOf(x)] = remote_cache_'[c]
      /\ \A k \in Caches : remote_[k] \subseteq remote_'[k]
  BY <1>1, <1>5, <1>6
<1>9. ASSUME NEW k \in Caches, NEW x \in remote_'[k] \ remote_[k]
      PROVE  /\ x \in remote_list_[c] \cup {o} /\ cache[SlabOf(x)] = k
             /\ x \notin remote_list_'[c]
  BY <1>1, <1>5, <1>6
<1>10. ASSUME NEW x \in remote_list_[c] \cup {o}
       PROVE  x \in remote_list_'[c] \/ x \in remote_'[cache[SlabOf(x)]]
  <2>1. cache[SlabOf(x)] \in Caches
    BY <1>1, <1>2 DEF h
  <2> QED BY <1>1, <1>5, <1>6, <2>1
<1> QED BY <1>6, <1>7, <1>8, <1>9, <1>10

\* FreeRemote of an object that is on no remote list, and that this step takes
\* from its caller (FreeOther) or from an object_list_ (FlushForeign).
LEMMA FreeRemoteData ==
  ASSUME SlabInv, NEW c \in Cpus, NEW o \in Objects, cache[SlabOf(o)] # None,
         FreeRemote(c, o),
         UNCHANGED <<partial_page_list_, cache, used, list>>,
         \/ /\ o \in held /\ held' = held \ {o} /\ UNCHANGED object_list_
         \/ \E k \in Caches :
              /\ o \in object_list_[k] /\ UNCHANGED held
              /\ object_list_' = [object_list_ EXCEPT ![k] = @ \ {o}]
  PROVE  DataInv'
<1> USE DEF SlabInv, DataInv
<1>1. /\ held \subseteq Objects /\ object_list_ \in [Caches -> SUBSET Objects]
      /\ remote_ \in [Caches -> SUBSET Objects]
      /\ remote_list_ \in [Cpus -> SUBSET Objects]
      /\ list \in [Slabs -> SUBSET Objects]
      /\ cache \in [Slabs -> Caches \cup {None}]
  BY DEF TypeOK
<1>2. /\ \A d \in Cpus : o \notin remote_list_[d]
      /\ \A k \in Caches : o \notin remote_[k]
      /\ \A s \in Slabs : o \notin list[s]
  BY DEF Apart, HeldApart, ListApart, SlabApart
<1>3. /\ o \notin held' /\ \A k \in Caches : o \notin object_list_'[k]
      /\ \A x \in Objects \ {o} :
           /\ x \in held <=> x \in held'
           /\ \A k \in Caches : x \in object_list_[k] <=> x \in object_list_'[k]
      /\ held' \subseteq Objects /\ object_list_' \in [Caches -> SUBSET Objects]
  BY <1>1 DEF Apart, HeldApart, ListApart
<1> DEFINE Facts ==
         /\ \A d \in Cpus \ {c} : /\ remote_list_'[d] = remote_list_[d]
                                  /\ remote_cache_'[d] = remote_cache_[d]
         /\ \A x \in remote_list_'[c] : /\ x \in remote_list_[c] \cup {o}
                                        /\ cache[SlabOf(x)] = remote_cache_'[c]
         /\ \A k \in Caches : remote_[k] \subseteq remote_'[k]
         /\ \A k \in Caches : \A x \in remote_'[k] \ remote_[k] :
              /\ x \in remote_list_[c] \cup {o} /\ cache[SlabOf(x)] = k
              /\ x \notin remote_list_'[c]
         /\ \A x \in remote_list_[c] \cup {o} :
              x \in remote_list_'[c] \/ x \in remote_'[cache[SlabOf(x)]]
<1>4. Facts
  BY <1>2, FreeRemoteFacts
<1>5. HeldApart'
  BY <1>1, <1>2, <1>3, <1>4 DEF Apart, HeldApart
<1>6. SlabApart'
  BY <1>1, <1>2, <1>3, <1>4 DEF Apart, SlabApart
<1>7. ListApart'
  BY <1>1, <1>2, <1>3, <1>4 DEF Apart, ListApart
<1>8. BatchApart'
  BY <1>1, <1>2, <1>3, <1>4 DEF Apart, BatchApart
<1>9. RemoteObjectsGoHome'
  BY <1>1, <1>4 DEF RemoteObjectsGoHome
<1>10. NodeListsHome'
  <2> SUFFICES ASSUME NEW n \in Nodes, NEW x \in object_list_'[n]
               PROVE  cache[SlabOf(x)] = n
    BY DEF NodeListsHome
  <2>1. n \in Caches /\ x \in Objects /\ x # o
    BY <1>3 DEF Caches
  <2> QED BY <1>3, <2>1 DEF NodeListsHome
<1>11. Somewhere'
  <2> SUFFICES ASSUME NEW x \in Objects
               PROVE  HasPlace(x) <=> HasPlace(x)'
    BY DEF Somewhere
  <2>1. CASE x \in remote_list_[c] \cup {o}
    <3>1. HasPlace(x)
      BY <2>1 DEF Somewhere, HasPlace
    <3>2. cache[SlabOf(x)] \in Caches
      BY <1>1, <3>1, ObjectFacts DEF Somewhere
    <3> QED BY <1>4, <2>1, <3>1, <3>2 DEF HasPlace
  <2>2. CASE x \notin remote_list_[c] \cup {o}
    <3>1. \A k \in Caches : x \in remote_[k] <=> x \in remote_'[k]
      BY <1>4, <2>2
    <3>2. \A d \in Cpus : x \in remote_list_[d] <=> x \in remote_list_'[d]
      BY <1>4, <2>2
    <3> QED BY <1>3, <2>2, <3>1, <3>2 DEF HasPlace
  <2> QED BY <2>1, <2>2
<1>12. SlabAccounting'
  BY DEF SlabAccounting
<1> QED BY <1>5, <1>6, <1>7, <1>8, <1>9, <1>10, <1>11, <1>12 DEF Apart

\* FlushRemoteList moves the batch of a cpu to the remote list of its owner.
LEMMA FlushRemoteListData ==
  ASSUME SlabInv, NEW t \in Cpus, FlushRemoteList(t),
         UNCHANGED <<object_list_, partial_page_list_, remote_cache_, cache, used,
                     list, held>>
  PROVE  /\ DataInv'
         /\ remote_' \in [Caches -> SUBSET Objects]
         /\ remote_list_' \in [Cpus -> SUBSET Objects]
         /\ remote_check' \in [Caches -> BOOLEAN]
         /\ remote_list_'[t] = {}
         /\ \A d \in Cpus \ {t} : remote_list_'[d] = remote_list_[d]
<1> DEFINE k == remote_cache_[t]
<1> USE DEF SlabInv
<1>1. /\ remote_ \in [Caches -> SUBSET Objects]
      /\ remote_list_ \in [Cpus -> SUBSET Objects]
      /\ remote_check \in [Caches -> BOOLEAN]
      /\ k \in Caches \cup {None}
      /\ \A o \in remote_list_[t] : cache[SlabOf(o)] = k /\ k # None
  BY DEF TypeOK, DataInv, RemoteObjectsGoHome, Somewhere, HasPlace
<1>2. CASE k = None
  <2>1. remote_list_[t] = {} /\ UNCHANGED <<remote_, remote_list_, remote_check>>
    BY <1>1, <1>2 DEF FlushRemoteList
  <2>2. DataInv'
    BY <2>1, DataUnchanged DEF dataVars
  <2> QED BY <1>1, <2>1, <2>2
<1>3. CASE k # None
  <2>1. /\ k \in Caches
        /\ remote_' = [remote_ EXCEPT ![k] = @ \cup remote_list_[t]]
        /\ remote_list_' = [remote_list_ EXCEPT ![t] = {}]
        /\ remote_check' = [remote_check EXCEPT ![k] = @ \/ Crosses(k, remote_list_[t])]
    BY <1>1, <1>3 DEF FlushRemoteList
  <2> HIDE DEF k
  <2> USE <1>1, <2>1 DEF DataInv
  <2>2. Apart'
    BY DEF Apart, HeldApart, SlabApart, ListApart, BatchApart
  <2>3. Somewhere'
    <3> SUFFICES ASSUME NEW x \in Objects PROVE HasPlace(x) <=> HasPlace(x)'
      BY DEF Somewhere
    <3>1. (\E j \in Caches : x \in remote_[j]) \/ (\E d \in Cpus : x \in remote_list_[d])
            <=> (\E j \in Caches : x \in remote_'[j])
                  \/ (\E d \in Cpus : x \in remote_list_'[d])
      OBVIOUS
    <3> QED BY <3>1 DEF HasPlace
  <2>4. RemoteObjectsGoHome'
    BY DEF RemoteObjectsGoHome
  <2>5. NodeListsHome' /\ SlabAccounting'
    BY DEF NodeListsHome, SlabAccounting
  <2>6. remote_check' \in [Caches -> BOOLEAN]
    OBVIOUS
  <2> QED BY <2>2, <2>3, <2>4, <2>5, <2>6
<1> QED BY <1>2, <1>3

\* An object goes back to its slab; with its last object the slab itself is
\* given back.
LEMMA FlushHomeData ==
  ASSUME SlabInv, NEW c \in Cpus, FlushHome(c)
  PROVE  /\ DataInv'
         /\ used' \in [Slabs -> 0 .. num_objects]
         /\ cache' \in [Slabs -> Caches \cup {None}]
         /\ list' \in [Slabs -> SUBSET Objects]
<1> DEFINE k == target[c]
<1>1. k \in Caches /\ k # None
  BY SlabAssumption DEF SlabInv, ControlInv, Busy, FlushHome, InFlush, Caches
<1> HIDE DEF k
<1>2. PICK o \in object_list_[k] :
        LET s == SlabOf(o) IN
        /\ cache[s] = k
        /\ object_list_' = [object_list_ EXCEPT ![k] = @ \ {o}]
        /\ used' = [used EXCEPT ![s] = @ - 1]
        /\ IF SlabEmpty(s)
           THEN /\ partial_page_list_' = [partial_page_list_ EXCEPT ![k] = @ \ {s}]
                /\ cache' = [cache EXCEPT ![s] = None]
                /\ list' = [list EXCEPT ![s] = {}]
           ELSE /\ list' = [list EXCEPT ![s] = @ \cup {o}]
                /\ partial_page_list_' = [partial_page_list_ EXCEPT ![k] =
                     IF used[s] = num_objects THEN @ \cup {s} ELSE @]
                /\ UNCHANGED cache
  BY DEF FlushHome, k
<1> DEFINE s == SlabOf(o)
<1>3. UNCHANGED <<remote_, remote_list_, remote_cache_, held>>
  BY DEF FlushHome
<1>4. /\ list \in [Slabs -> SUBSET Objects] /\ used \in [Slabs -> 0 .. num_objects]
      /\ cache \in [Slabs -> Caches \cup {None}]
      /\ partial_page_list_ \in [Caches -> SUBSET Slabs]
      /\ object_list_ \in [Caches -> SUBSET Objects] /\ held \subseteq Objects
      /\ num_objects \in Nat \ {0}
  BY SlabAssumption DEF SlabInv, TypeOK
<1>5. o \in Objects /\ s \in Slabs /\ cache[s] = k /\ \A t \in Slabs : o \notin list[t]
  BY <1>1, <1>2, <1>4, ObjectFacts DEF SlabInv, DataInv, Apart, SlabApart
<1>6. /\ used[s] > 0
      /\ used[s] = 1 => list[s] = ObjectsOf(s) \ {o}
      /\ used[s] + Cardinality(list[s]) = num_objects
      /\ Cardinality(list[s] \cup {o}) = Cardinality(list[s]) + 1
      /\ Cardinality(list[s]) \in Nat
      /\ list[s] = {} <=> used[s] = num_objects
  BY <1>1, <1>5, SlabListFacts DEF SlabInv, DataInv, Apart, ObjectsOf
<1> USE DEF SlabInv, DataInv
<1>7. CASE used[s] = 1
  <2>1. /\ object_list_' = [object_list_ EXCEPT ![k] = @ \ {o}]
        /\ used' = [used EXCEPT ![s] = @ - 1]
        /\ partial_page_list_' = [partial_page_list_ EXCEPT ![k] = @ \ {s}]
        /\ cache' = [cache EXCEPT ![s] = None]
        /\ list' = [list EXCEPT ![s] = {}]
    BY <1>2, <1>7 DEF SlabEmpty
  <2>2. \A x \in Objects : SlabOf(x) = s => x = o \/ x \in list[s]
    BY <1>6, <1>7 DEF ObjectsOf
  <2> HIDE DEF s
  <2> USE <1>1, <1>3, <1>4, <1>5, <2>1
  <2>3. \A x \in Objects : SlabOf(x) = s =>
          /\ x \notin held'
          /\ \A j \in Caches : x \notin object_list_'[j] /\ x \notin remote_[j]
          /\ \A d \in Cpus : x \notin remote_list_[d]
    BY <2>2, <1>2 DEF Apart, HeldApart, SlabApart, ListApart
  <2>4. Apart'
    BY DEF Apart, HeldApart, SlabApart, ListApart, BatchApart
  <2>5. Somewhere'
    <3> SUFFICES ASSUME NEW x \in Objects
                 PROVE  (cache'[SlabOf(x)] # None) <=> HasPlace(x)'
      BY DEF Somewhere
    <3>1. CASE SlabOf(x) = s
      BY <2>3, <3>1 DEF HasPlace
    <3>2. CASE SlabOf(x) # s
      <4>1. x # o
        BY <3>2 DEF s
      <4>2. \A j \in Caches : x \in object_list_[j] <=> x \in object_list_'[j]
        BY <4>1
      <4>3. SlabOf(x) \in Slabs
        BY ObjectFacts
      <4> QED BY <3>2, <4>2, <4>3 DEF Somewhere, HasPlace
    <3> QED BY <3>1, <3>2
  <2>6. SlabAccounting'
    <3>1. \A t \in Slabs :
            cache'[t] # None => used'[t] + Cardinality(list'[t]) = num_objects
      BY DEF SlabAccounting
    <3>2. ASSUME NEW j \in Caches, NEW t \in Slabs
          PROVE  t \in partial_page_list_'[j] <=> cache'[t] = j /\ list'[t] # {}
      <4>1. t \in partial_page_list_[j] <=> cache[t] = j /\ list[t] # {}
        BY DEF SlabAccounting
      <4> QED BY <4>1
    <3>3. partial_page_list_' \in [Caches -> SUBSET Slabs]
      OBVIOUS
    <3>4. ASSUME NEW j \in Caches
          PROVE  partial_page_list_'[j] = {t \in Slabs : cache'[t] = j /\ list'[t] # {}}
      BY <3>2, <3>3
    <3> QED BY <3>1, <3>4 DEF SlabAccounting
  <2>7. RemoteObjectsGoHome' /\ NodeListsHome'
    <3>1. RemoteObjectsGoHome'
      BY <2>3, ObjectFacts DEF RemoteObjectsGoHome, TypeOK
    <3>2. NodeListsHome'
      BY <2>3, ObjectFacts DEF NodeListsHome, TypeOK, Caches
    <3> QED BY <3>1, <3>2
  <2>8. /\ used' \in [Slabs -> 0 .. num_objects]
        /\ cache' \in [Slabs -> Caches \cup {None}]
        /\ list' \in [Slabs -> SUBSET Objects]
    BY <1>6
  <2> QED BY <2>4, <2>5, <2>6, <2>7, <2>8
<1>8. CASE used[s] # 1
  <2>1. /\ object_list_' = [object_list_ EXCEPT ![k] = @ \ {o}]
        /\ used' = [used EXCEPT ![s] = @ - 1]
        /\ list' = [list EXCEPT ![s] = @ \cup {o}]
        /\ partial_page_list_' = [partial_page_list_ EXCEPT ![k] =
             IF used[s] = num_objects THEN @ \cup {s} ELSE @]
        /\ cache' = cache
    BY <1>2, <1>8 DEF SlabEmpty
  <2>2. SlabOf(o) = s
    OBVIOUS
  <2> HIDE DEF s
  <2> USE <1>1, <1>3, <1>4, <1>5, <2>1, <2>2
  <2>3. Apart'
    BY <1>2 DEF Apart, HeldApart, SlabApart, ListApart, BatchApart
  <2>4. Somewhere'
    <3> SUFFICES ASSUME NEW x \in Objects PROVE HasPlace(x) <=> HasPlace(x)'
      BY DEF Somewhere
    <3>1. CASE x = o
      BY <3>1, <1>2 DEF HasPlace
    <3>2. CASE x # o
      <4>1. /\ \A j \in Caches : x \in object_list_[j] <=> x \in object_list_'[j]
            /\ SlabOf(x) \in Slabs
            /\ x \in list[SlabOf(x)] <=> x \in list'[SlabOf(x)]
        BY <3>2, ObjectFacts
      <4> QED BY <4>1 DEF HasPlace
    <3> QED BY <3>1, <3>2
  <2>5. SlabAccounting'
    <3>1. \A t \in Slabs :
            cache'[t] # None => used'[t] + Cardinality(list'[t]) = num_objects
      BY <1>6 DEF SlabAccounting
    <3>2. ASSUME NEW j \in Caches, NEW t \in Slabs
          PROVE  t \in partial_page_list_'[j] <=> cache'[t] = j /\ list'[t] # {}
      <4>1. t \in partial_page_list_[j] <=> cache[t] = j /\ list[t] # {}
        BY DEF SlabAccounting
      <4> QED BY <1>6, <4>1
    <3>3. partial_page_list_' \in [Caches -> SUBSET Slabs]
      OBVIOUS
    <3>4. ASSUME NEW j \in Caches
          PROVE  partial_page_list_'[j] = {t \in Slabs : cache'[t] = j /\ list'[t] # {}}
      BY <3>2, <3>3
    <3> QED BY <3>1, <3>4 DEF SlabAccounting
  <2>6. RemoteObjectsGoHome' /\ NodeListsHome'
    BY DEF RemoteObjectsGoHome, NodeListsHome, Caches
  <2>7. /\ used' \in [Slabs -> 0 .. num_objects]
        /\ cache' \in [Slabs -> Caches \cup {None}]
        /\ list' \in [Slabs -> SUBSET Objects]
    BY <1>6
  <2> QED BY <2>3, <2>4, <2>5, <2>6, <2>7
<1> QED BY <1>7, <1>8

-----------------------------------------------------------------------------
(* The steps, and the theorem *)

\* The order in which the destructor visits the caches: the cpus' twice, then
\* the nodes', so that every cache is visited after the first loop.
LEMMA DrainOrderFacts ==
  /\ Len(CpuSeq) \in Nat /\ Len(DrainOrder) \in Nat
  /\ Len(CpuSeq) <= Len(DrainOrder)
  /\ \A i \in 1 .. Len(DrainOrder) : DrainOrder[i] \in Caches
  /\ \A i \in 1 .. Len(CpuSeq) : DrainOrder[i] = CpuSeq[i] /\ CpuSeq[i] \in Cpus
  /\ \A k \in Caches : \E i \in 1 .. Len(DrainOrder) :
       i > Len(CpuSeq) /\ DrainOrder[i] = k
  /\ \A c \in Cpus : \E i \in 1 .. Len(CpuSeq) : CpuSeq[i] = c
<1> DEFINE N == Len(CpuSeq)
           M == Len(NodeSeq)
           two == CpuSeq \o CpuSeq
<1>1. /\ CpuSeq \in Seq(Caches) /\ NodeSeq \in Seq(Caches) /\ N \in Nat /\ M \in Nat
      /\ \A i \in 1 .. N : CpuSeq[i] \in Cpus
      /\ \A c \in Cpus : \E i \in 1 .. N : CpuSeq[i] = c
      /\ \A n \in Nodes : \E i \in 1 .. M : NodeSeq[i] = n
  <2>1. CpuSeq \in Seq(Cpus) /\ NodeSeq \in Seq(Nodes)
    BY SlabAssumption
  <2>2. CpuSeq \in Seq(Caches) /\ NodeSeq \in Seq(Caches)
    BY <2>1 DEF Caches
  <2>3. N \in Nat /\ M \in Nat /\ DOMAIN CpuSeq = 1 .. N /\ DOMAIN NodeSeq = 1 .. M
    BY <2>1
  <2>4. \A i \in 1 .. N : CpuSeq[i] \in Cpus
    BY <2>1, ElementOfSeq
  <2>5. \A c \in Cpus : \E i \in 1 .. N : CpuSeq[i] = c
    BY <2>3, SlabAssumption, Zenon
  <2>6. \A n \in Nodes : \E i \in 1 .. M : NodeSeq[i] = n
    BY <2>3, SlabAssumption, Zenon
  <2> QED BY <2>2, <2>3, <2>4, <2>5, <2>6
<1>2. /\ two \in Seq(Caches)
      /\ Len(two) = N + N
      /\ \A i \in 1 .. N + N : two[i] = IF i <= N THEN CpuSeq[i] ELSE CpuSeq[i - N]
  BY <1>1, ConcatProperties
<1> HIDE DEF two
<1>3. /\ DrainOrder \in Seq(Caches)
      /\ Len(DrainOrder) = N + N + M
      /\ \A i \in 1 .. N + N + M :
           DrainOrder[i] = IF i <= N + N THEN two[i] ELSE NodeSeq[i - (N + N)]
  BY <1>1, <1>2, ConcatProperties DEF DrainOrder, two
<1> HIDE DEF N, M
<1>4. \A i \in 1 .. Len(DrainOrder) : DrainOrder[i] \in Caches
  BY <1>3, ElementOfSeq
<1>5. \A i \in 1 .. N : DrainOrder[i] = CpuSeq[i] /\ CpuSeq[i] \in Cpus
  BY <1>1, <1>2, <1>3
<1>6. ASSUME NEW k \in Caches
      PROVE  \E i \in 1 .. Len(DrainOrder) : i > N /\ DrainOrder[i] = k
  <2>1. CASE k \in Cpus
    <3>1. PICK i \in 1 .. N : CpuSeq[i] = k
      BY <1>1, <2>1
    <3>2. N + i \in 1 .. (N + N) /\ N + i \in 1 .. (N + N + M) /\ N + i > N
      BY <1>1
    <3>3. two[N + i] = k
      BY <1>1, <1>2, <3>1, <3>2
    <3> QED BY <1>1, <1>3, <3>2, <3>3
  <2>2. CASE k \in Nodes
    <3>1. PICK i \in 1 .. M : NodeSeq[i] = k
      BY <1>1, <2>2
    <3>2. N + N + i \in 1 .. (N + N + M) /\ N + N + i > N /\ ~(N + N + i <= N + N)
      BY <1>1
    <3>3. (N + N + i) - (N + N) = i
      BY <1>1
    <3>4. DrainOrder[N + N + i] = k
      BY <1>3, <3>1, <3>2, <3>3
    <3> QED BY <1>3, <3>2, <3>4
  <2> QED BY <2>1, <2>2 DEF Caches
<1>7. Len(DrainOrder) \in Nat /\ N <= Len(DrainOrder)
  BY <1>1, <1>3
<1>8. \A c \in Cpus : \E i \in 1 .. N : CpuSeq[i] = c
  BY <1>1
<1>9. N \in Nat
  BY <1>1
<1> QED BY <1>4, <1>5, <1>6, <1>7, <1>8, <1>9, Zenon DEF N

\* The cache the destructor is at.
LEMMA DrainTarget ==
  ASSUME TypeOK, ControlInv, NEW c \in Cpus, pc[c] \in {"claim", "drain"}
  PROVE  /\ stage \in 1 .. Len(DrainOrder)
         /\ target[c] = DrainOrder[stage] /\ target[c] \in Caches
         /\ stage <= Len(CpuSeq) => target[c] = CpuSeq[stage] /\ target[c] \in Cpus
<1>1. stage > 0 /\ target[c] = DrainOrder[stage] /\ target[c] \in Caches
  BY DEF ControlInv, InDestructor, Busy
<1>2. stage \in 1 .. Len(DrainOrder)
  BY <1>1, DrainOrderFacts DEF TypeOK
<1>3. stage <= Len(CpuSeq) => stage \in 1 .. Len(CpuSeq)
  BY <1>2, DrainOrderFacts
<1> QED BY <1>1, <1>2, <1>3, DrainOrderFacts

\* Every step keeps the objects in place.
LEMMA DataStep == SlabInv /\ [Next]_slabVars => DataInv'
<1> SUFFICES ASSUME SlabInv, [Next]_slabVars PROVE DataInv'
  OBVIOUS
<1>1. ASSUME NEW c \in Cpus, NEW nid \in Nodes, Alloc(c, nid) PROVE DataInv'
  BY <1>1, DataUnchanged DEF Alloc, dataVars, SlabInv
<1>2. ASSUME NEW c \in Cpus, FreeOther(c) PROVE DataInv'
  <2>1. PICK o \in held : held' = held \ {o} /\ FreeRemote(c, o)
    BY <1>2 DEF FreeOther
  <2>2. o \in Objects /\ cache[SlabOf(o)] # None
    BY DEF SlabInv, TypeOK, DataInv, Somewhere, HasPlace
  <2> QED BY <1>2, <2>1, <2>2, FreeRemoteData DEF FreeOther
<1>3. ASSUME NEW c \in Cpus, Trim(c) \/ AllocFails(c) \/ FlushReturns(c) \/ Destroy(c)
      PROVE  DataInv'
  BY <1>3, DataUnchanged DEF Trim, AllocFails, FlushReturns, Destroy, dataVars, SlabInv
<1>4. ASSUME NEW c \in Cpus, AllocClaim(c) PROVE DataInv'
  <2>1. target[c] \in Caches
    BY <1>4 DEF AllocClaim, SlabInv, ControlInv, Busy
  <2> QED BY <1>4, <2>1, ClaimData DEF AllocClaim
<1>5. ASSUME NEW c \in Cpus, DrainClaim(c) PROVE DataInv'
  <2>1. target[c] \in Caches
    BY <1>5 DEF DrainClaim, SlabInv, ControlInv, Busy
  <2> QED BY <1>5, <2>1, ClaimData DEF DrainClaim
<1>6. ASSUME NEW c \in Cpus, FlushForeign(c) PROVE DataInv'
  <2>1. target[c] \in Caches
    BY <1>6 DEF FlushForeign, InFlush, SlabInv, ControlInv, Busy
  <2>2. PICK o \in object_list_[target[c]] :
          /\ object_list_' = [object_list_ EXCEPT ![target[c]] = @ \ {o}]
          /\ FreeRemote(c, o)
    BY <1>6 DEF FlushForeign
  <2>3. o \in Objects /\ cache[SlabOf(o)] # None
    BY <2>1 DEF SlabInv, TypeOK, DataInv, Somewhere, HasPlace
  <2>4. UNCHANGED <<partial_page_list_, cache, used, list, held>>
    BY <1>6 DEF FlushForeign
  <2> QED BY <2>1, <2>2, <2>3, <2>4, FreeRemoteData
<1>7. ASSUME NEW c \in Cpus, DrainStageEnds(c) PROVE DataInv'
  <2>1. CASE stage <= Len(CpuSeq)
    <3>1. target[c] \in Cpus
      BY <1>7, <2>1, DrainTarget DEF DrainStageEnds, SlabInv
    <3> QED BY <1>7, <2>1, <3>1, FlushRemoteListData DEF DrainStageEnds
  <2>2. CASE ~(stage <= Len(CpuSeq))
    BY <1>7, <2>2, DataUnchanged DEF DrainStageEnds, dataVars, SlabInv
  <2> QED BY <2>1, <2>2
<1>8. CASE UNCHANGED slabVars
  BY <1>8, DataUnchanged DEF slabVars, dataVars, SlabInv
<1> QED
  BY <1>1, <1>2, <1>3, <1>4, <1>5, <1>6, <1>7, <1>8, AllocFromListData,
     AllocFromPartialData, AddSlabData, FreeLocalData, FlushHomeData
  DEF Next, OperationStep

\* No step takes a cpu out of the order of Alloc, Free and the destructor: the
\* step it is at, the locks it holds and the lists it walks fit together.
LEMMA ControlStep == SlabInv /\ [Next]_slabVars => ControlInv'
<1> SUFFICES ASSUME SlabInv, [Next]_slabVars PROVE ControlInv'
  OBVIOUS
<1> USE DEF SlabInv, ControlInv, Busy, InDestructor
<1>0. /\ pc \in [Cpus -> Locations] /\ target \in [Cpus -> Caches \cup {None}]
      /\ stage \in 0 .. Len(DrainOrder) /\ Len(DrainOrder) \in Nat
      /\ Cpus \subseteq Caches /\ Nodes \subseteq Caches
  BY DrainOrderFacts DEF TypeOK, Caches
<1> USE <1>0
<1>1. ASSUME NEW c \in Cpus, NEW nid \in Nodes, Alloc(c, nid) PROVE ControlInv'
  BY <1>1 DEF Alloc
<1>2. ASSUME NEW c \in Cpus, FreeLocal(c) PROVE ControlInv'
  BY <1>2 DEF FreeLocal
<1>3. ASSUME NEW c \in Cpus, FreeOther(c) \/ FlushHome(c) \/ FlushForeign(c)
      PROVE  ControlInv'
  <2>1. UNCHANGED <<pc, target, stage>>
    BY <1>3 DEF FreeOther, FlushHome, FlushForeign
  <2> QED BY <2>1
<1>4. ASSUME NEW c \in Cpus, Destroy(c) PROVE ControlInv'
  <2>1. 1 \in 1 .. Len(DrainOrder)
    BY DrainOrderFacts
  <2>2. DrainOrder[1] \in Caches
    BY <2>1, DrainOrderFacts
  <2> QED BY <1>4, <2>2 DEF Destroy
<1>5. ASSUME NEW c \in Cpus, AllocFromList(c) \/ AllocFromPartial(c) \/ AllocFails(c)
      PROVE  ControlInv'
  <2>1. /\ pc[c] = "alloc" /\ pc' = [pc EXCEPT ![c] = "idle"]
        /\ target' = [target EXCEPT ![c] = None] /\ UNCHANGED stage
    BY <1>5 DEF AllocFromList, AllocFromPartial, AllocFails, ListsDry, AllocReturns
  <2> QED BY <2>1
<1>6. ASSUME NEW c \in Cpus, AllocClaim(c) \/ Trim(c) \/ AddSlab(c) PROVE ControlInv'
  BY <1>6 DEF AllocClaim, Trim, AddSlab
<1>7. ASSUME NEW c \in Cpus, FlushReturns(c) PROVE ControlInv'
  BY <1>7 DEF FlushReturns
<1>8. ASSUME NEW c \in Cpus, DrainClaim(c) PROVE ControlInv'
  BY <1>8 DEF DrainClaim
<1>9. ASSUME NEW c \in Cpus, DrainStageEnds(c) PROVE ControlInv'
  <2>1. CASE stage = Len(DrainOrder)
    BY <1>9, <2>1 DEF DrainStageEnds
  <2>2. CASE stage # Len(DrainOrder)
    <3>1. stage + 1 \in 1 .. Len(DrainOrder)
      BY <2>2
    <3>2. DrainOrder[stage + 1] \in Caches
      BY <3>1, DrainOrderFacts
    <3> QED BY <1>9, <2>2, <3>2 DEF DrainStageEnds
  <2> QED BY <2>1, <2>2
<1>10. CASE UNCHANGED slabVars
  BY <1>10 DEF slabVars
<1> QED
  BY <1>1, <1>2, <1>3, <1>4, <1>5, <1>6, <1>7, <1>8, <1>9, <1>10
  DEF Next, OperationStep

\* Every step keeps the types of the variables.
LEMMA TypeStep == SlabInv /\ [Next]_slabVars => TypeOK'
<1> SUFFICES ASSUME SlabInv, [Next]_slabVars PROVE TypeOK'
  OBVIOUS
<1>0. /\ Len(DrainOrder) \in Nat /\ FlushAll \in Nat /\ free_batch \in Nat
      /\ Cpus \subseteq Caches /\ Nodes \subseteq Caches /\ num_objects \in Nat
      /\ \A s \in Slabs : ObjectsOf(s) \subseteq Objects
  BY DrainOrderFacts, ObjectFacts, SlabAssumption DEF Caches, ObjectsOf
<1> USE <1>0 DEF TypeOK, Locations
<1>t. TypeOK /\ ControlInv /\ DataInv
  BY DEF SlabInv
<1>1. ASSUME NEW c \in Cpus, NEW nid \in Nodes, Alloc(c, nid) PROVE TypeOK'
  BY <1>t, <1>1 DEF Alloc
<1>2. ASSUME NEW c \in Cpus, FreeLocal(c) PROVE TypeOK'
  <2>1. /\ held' \subseteq Objects /\ object_list_' \in [Caches -> SUBSET Objects]
    BY <1>t, <1>2 DEF FreeLocal
  <2>2. /\ pc' \in [Cpus -> Locations] /\ target' \in [Cpus -> Caches \cup {None}]
        /\ left' \in [Cpus -> 0 .. (free_batch + FlushAll)]
    <3>1. \/ UNCHANGED <<pc, target, left>>
          \/ /\ pc' = [pc EXCEPT ![c] = "flushFree"]
             /\ target' = [target EXCEPT ![c] = c]
             /\ left' = [left EXCEPT ![c] = free_batch]
      BY <1>2 DEF FreeLocal
    <3>2. free_batch \in 0 .. (free_batch + FlushAll)
      OBVIOUS
    <3> QED BY <1>t, <3>1, <3>2, ZenonT(30)
  <2> QED BY <1>t, <1>2, <2>1, <2>2 DEF FreeLocal
<1>3. ASSUME NEW c \in Cpus, NEW o \in Objects, cache[SlabOf(o)] # None,
             o \notin remote_list_[c], FreeRemote(c, o)
      PROVE  /\ remote_' \in [Caches -> SUBSET Objects]
             /\ remote_list_' \in [Cpus -> SUBSET Objects]
             /\ remote_cache_' \in [Cpus -> Caches \cup {None}]
             /\ remote_check' \in [Caches -> BOOLEAN]
  BY <1>3, FreeRemoteFacts
<1>4. ASSUME NEW c \in Cpus, FreeOther(c) PROVE TypeOK'
  <2>1. PICK o \in held : held' = held \ {o} /\ FreeRemote(c, o)
    BY <1>4 DEF FreeOther
  <2>2. o \in Objects /\ cache[SlabOf(o)] # None /\ o \notin remote_list_[c]
    BY <1>t DEF DataInv, Somewhere, HasPlace, Apart, HeldApart
  <2> QED BY <1>t, <1>3, <1>4, <2>1, <2>2 DEF FreeOther
<1>5. ASSUME NEW c \in Cpus, Destroy(c) PROVE TypeOK'
  <2>1. 1 \in 1 .. Len(DrainOrder)
    BY DrainOrderFacts
  <2>2. DrainOrder[1] \in Caches
    BY <2>1, DrainOrderFacts
  <2> QED BY <1>t, <1>5, <2>1, <2>2 DEF Destroy
<1>6. ASSUME NEW c \in Cpus, AllocFromList(c) PROVE TypeOK'
  <2>1. target[c] \in Caches
    BY <1>6, <1>t DEF AllocFromList, ControlInv, Busy
  <2> QED BY <1>t, <1>6, <2>1 DEF AllocFromList, AllocReturns
<1>7. ASSUME NEW c \in Cpus, AllocFromPartial(c) PROVE TypeOK'
  <2>1. target[c] \in Caches
    BY <1>7, <1>t DEF AllocFromPartial, ListsDry, ControlInv, Busy
  <2>2. used' \in [Slabs -> 0 .. num_objects]
    BY <1>7, AllocFromPartialData
  <2>3. /\ partial_page_list_' \in [Caches -> SUBSET Slabs]
        /\ list' \in [Slabs -> SUBSET Objects] /\ held' \subseteq Objects
        /\ pc' \in [Cpus -> Locations] /\ target' \in [Cpus -> Caches \cup {None}]
    BY <1>t, <1>7, <2>1 DEF AllocFromPartial, AllocReturns
  <2> QED BY <1>t, <1>7, <2>2, <2>3 DEF AllocFromPartial
<1>8. ASSUME NEW c \in Cpus, AllocFails(c) \/ Trim(c) \/ FlushReturns(c) PROVE TypeOK'
  <2>1. CASE AllocFails(c)
    BY <1>t, <2>1 DEF AllocFails
  <2>2. CASE Trim(c)
    <3>1. left' = [left EXCEPT ![c] = free_batch] \/ UNCHANGED left
      BY <2>2 DEF Trim
    <3>2. free_batch \in 0 .. (free_batch + FlushAll)
      OBVIOUS
    <3>3. left' \in [Cpus -> 0 .. (free_batch + FlushAll)]
      BY <1>t, <3>1, <3>2
    <3>4. pc' \in [Cpus -> Locations]
      BY <1>t, <2>2 DEF Trim
    <3> QED BY <1>t, <2>2, <3>3, <3>4 DEF Trim
  <2>3. CASE FlushReturns(c)
    BY <1>t, <2>3 DEF FlushReturns
  <2> QED BY <1>8, <2>1, <2>2, <2>3
<1>9. ASSUME NEW c \in Cpus, AllocClaim(c) \/ DrainClaim(c) PROVE TypeOK'
  <2>1. target[c] \in Caches
    BY <1>9, <1>t DEF AllocClaim, DrainClaim, ControlInv, Busy
  <2>2. /\ object_list_' \in [Caches -> SUBSET Objects]
        /\ remote_' \in [Caches -> SUBSET Objects]
    <3>1. /\ object_list_' = [object_list_ EXCEPT ![target[c]] = @ \cup remote_[target[c]]]
          /\ remote_' = [remote_ EXCEPT ![target[c]] = {}]
      BY <1>9 DEF AllocClaim, DrainClaim, ClaimRemoteFreeList
    <3>2. object_list_[target[c]] \cup remote_[target[c]] \in SUBSET Objects
      BY <1>t, <2>1
    <3> QED BY <1>t, <2>1, <3>1, <3>2
  <2>3. pc' \in [Cpus -> Locations]
    BY <1>t, <1>9 DEF AllocClaim, DrainClaim
  <2> QED BY <1>t, <1>9, <2>2, <2>3 DEF AllocClaim, DrainClaim
<1>10. ASSUME NEW c \in Cpus, AddSlab(c) PROVE TypeOK'
  <2>1. target[c] \in Caches
    BY <1>10, <1>t DEF AddSlab, ListsDry, ControlInv, Busy
  <2>2. PICK s \in Slabs :
          /\ cache' = [cache EXCEPT ![s] = target[c]]
          /\ used' = [used EXCEPT ![s] = 0]
          /\ list' = [list EXCEPT ![s] = ObjectsOf(s)]
          /\ partial_page_list_' = [partial_page_list_ EXCEPT ![target[c]] = @ \cup {s}]
    BY <1>10 DEF AddSlab
  <2>3. cache' \in [Slabs -> Caches \cup {None}] /\ used' \in [Slabs -> 0 .. num_objects]
    BY <1>t, <2>1, <2>2
  <2>4. list' \in [Slabs -> SUBSET Objects]
    BY <1>t, <2>2
  <2>5. partial_page_list_' \in [Caches -> SUBSET Slabs]
    BY <1>t, <2>1, <2>2
  <2> QED BY <1>t, <1>10, <2>3, <2>4, <2>5 DEF AddSlab
<1>11. ASSUME NEW c \in Cpus, FlushHome(c) PROVE TypeOK'
  <2>1. target[c] \in Caches
    BY <1>11, <1>t DEF FlushHome, InFlush, ControlInv, Busy
  <2>2. /\ used' \in [Slabs -> 0 .. num_objects]
        /\ cache' \in [Slabs -> Caches \cup {None}]
        /\ list' \in [Slabs -> SUBSET Objects]
    BY <1>11, FlushHomeData
  <2>3. PICK o \in object_list_[target[c]] :
          /\ object_list_' = [object_list_ EXCEPT ![target[c]] = @ \ {o}]
          /\ \/ partial_page_list_' =
                  [partial_page_list_ EXCEPT ![target[c]] = @ \ {SlabOf(o)}]
             \/ partial_page_list_' =
                  [partial_page_list_ EXCEPT ![target[c]] = @ \cup {SlabOf(o)}]
             \/ partial_page_list_' = [partial_page_list_ EXCEPT ![target[c]] = @]
    BY <1>11 DEF FlushHome
  <2>4. SlabOf(o) \in Slabs
    BY <1>t, <2>1, ObjectFacts
  <2>5. /\ object_list_' \in [Caches -> SUBSET Objects]
        /\ partial_page_list_' \in [Caches -> SUBSET Slabs]
    <3>1. object_list_' \in [Caches -> SUBSET Objects]
      BY <1>t, <2>1, <2>3
    <3>2. /\ partial_page_list_[target[c]] \ {SlabOf(o)} \in SUBSET Slabs
          /\ partial_page_list_[target[c]] \cup {SlabOf(o)} \in SUBSET Slabs
      BY <1>t, <2>1, <2>4
    <3>3. partial_page_list_' \in [Caches -> SUBSET Slabs]
      BY <1>t, <2>1, <2>3, <3>2
    <3> QED BY <3>1, <3>3
  <2>6. left' \in [Cpus -> 0 .. (free_batch + FlushAll)]
    BY <1>t, <1>11 DEF FlushHome
  <2> QED BY <1>t, <1>11, <2>2, <2>5, <2>6 DEF FlushHome
<1>12. ASSUME NEW c \in Cpus, FlushForeign(c) PROVE TypeOK'
  <2>1. target[c] \in Caches
    BY <1>12, <1>t DEF FlushForeign, InFlush, ControlInv, Busy
  <2>2. PICK o \in object_list_[target[c]] :
          /\ object_list_' = [object_list_ EXCEPT ![target[c]] = @ \ {o}]
          /\ FreeRemote(c, o)
    BY <1>12 DEF FlushForeign
  <2>3. o \in Objects /\ cache[SlabOf(o)] # None /\ o \notin remote_list_[c]
    BY <1>t, <2>1 DEF DataInv, Somewhere, HasPlace, Apart, ListApart
  <2>4. left' \in [Cpus -> 0 .. (free_batch + FlushAll)]
    BY <1>t, <1>12 DEF FlushForeign
  <2>5. object_list_' \in [Caches -> SUBSET Objects]
    BY <1>t, <2>1, <2>2
  <2> QED BY <1>t, <1>3, <1>12, <2>2, <2>3, <2>4, <2>5 DEF FlushForeign
<1>13. ASSUME NEW c \in Cpus, DrainStageEnds(c) PROVE TypeOK'
  <2>1. /\ remote_' \in [Caches -> SUBSET Objects]
        /\ remote_list_' \in [Cpus -> SUBSET Objects]
        /\ remote_check' \in [Caches -> BOOLEAN]
    <3>1. CASE stage <= Len(CpuSeq)
      <4>1. target[c] \in Cpus
        BY <1>t, <1>13, <3>1, DrainTarget DEF DrainStageEnds
      <4> QED BY <1>13, <3>1, <4>1, FlushRemoteListData DEF DrainStageEnds
    <3>2. CASE ~(stage <= Len(CpuSeq))
      BY <1>t, <1>13, <3>2 DEF DrainStageEnds
    <3> QED BY <3>1, <3>2
  <2>2. /\ pc' \in [Cpus -> Locations] /\ target' \in [Cpus -> Caches \cup {None}]
        /\ left' \in [Cpus -> 0 .. (free_batch + FlushAll)]
        /\ stage' \in 0 .. Len(DrainOrder)
    <3>1. CASE stage = Len(DrainOrder)
      BY <1>t, <1>13, <3>1 DEF DrainStageEnds
    <3>2. CASE stage # Len(DrainOrder)
      <4>1. stage + 1 \in 1 .. Len(DrainOrder)
        BY <1>t, <3>2
      <4>2. DrainOrder[stage + 1] \in Caches
        BY <4>1, DrainOrderFacts
      <4>3. /\ pc' = [pc EXCEPT ![c] = IF stage < Len(CpuSeq) THEN "drain" ELSE "claim"]
            /\ target' = [target EXCEPT ![c] = DrainOrder[stage + 1]]
            /\ left' = [left EXCEPT ![c] = FlushAll]
            /\ stage' = stage + 1
        BY <1>13, <3>2 DEF DrainStageEnds
      <4>4. pc' \in [Cpus -> Locations] /\ target' \in [Cpus -> Caches \cup {None}]
        BY <1>t, <4>2, <4>3
      <4>5. FlushAll \in 0 .. (free_batch + FlushAll)
        OBVIOUS
      <4>6. left' \in [Cpus -> 0 .. (free_batch + FlushAll)] /\ stage' \in 0 .. Len(DrainOrder)
        BY <1>t, <4>1, <4>3, <4>5
      <4> QED BY <4>4, <4>6
    <3> QED BY <3>1, <3>2
  <2> QED BY <1>t, <1>13, <2>1, <2>2 DEF DrainStageEnds
<1>14. CASE UNCHANGED slabVars
  BY <1>t, <1>14 DEF slabVars
<1> QED
  BY <1>1, <1>2, <1>4, <1>5, <1>6, <1>7, <1>8, <1>9, <1>10, <1>11, <1>12, <1>13, <1>14
  DEF Next, OperationStep

\* SlabInv is an invariant of the allocator.
THEOREM SlabInvariant == Spec => []SlabInv
<1>1. SlabInv /\ [Next]_slabVars => SlabInv'
  BY DataStep, ControlStep, TypeStep DEF SlabInv
<1> QED BY InitSlabInv, <1>1, PTL DEF Spec

\* No object of a slab in use is in two places or in none, and no slab is
\* given back while an object of it is out: FlushFreeList, FreeRemote,
\* FlushRemoteList and ClaimRemoteFreeList neither double nor lose one.
THEOREM SlabPartitioned == Spec => []ObjectsPartitioned
<1>1. ASSUME SlabInv, NEW o \in Objects
      PROVE  Cardinality(Places(o)) = IF cache[SlabOf(o)] = None THEN 0 ELSE 1
  <2> USE <1>1 DEF SlabInv, DataInv
  <2>1. SlabOf(o) \in Slabs
    BY ObjectFacts
  <2>2. \A x \in Places(o) :
          \/ x = <<"held", o>> /\ o \in held
          \/ x = <<"slab", SlabOf(o)>> /\ o \in list[SlabOf(o)]
          \/ \E k \in Caches : x = <<"object_list_", k>> /\ o \in object_list_[k]
          \/ \E k \in Caches : x = <<"remote_", k>> /\ o \in remote_[k]
          \/ \E c \in Cpus : x = <<"remote_list_", c>> /\ o \in remote_list_[c]
    BY DEF Places, Apart, SlabApart
  <2>3. \A x, y \in Places(o) : x = y
    BY <2>1, <2>2 DEF Apart, HeldApart, SlabApart, ListApart, BatchApart, RemoteObjectsGoHome
  <2>4. CASE cache[SlabOf(o)] = None
    <3>1. ~HasPlace(o)
      BY <2>4 DEF Somewhere
    <3>2. Places(o) = {}
      BY <2>2, <3>1 DEF HasPlace
    <3> QED BY <2>4, <3>2, FS_EmptySet
  <2>5. CASE cache[SlabOf(o)] # None
    <3>1. HasPlace(o)
      BY <2>5 DEF Somewhere
    <3>2. PICK x : x \in Places(o)
      BY <2>1, <3>1 DEF HasPlace, Places
    <3>3. Places(o) = {x}
      BY <2>3, <3>2
    <3> QED BY <2>5, <3>3, FS_Singleton
  <2> QED BY <2>4, <2>5
<1>2. SlabInv => ObjectsPartitioned
  BY <1>1 DEF SlabInv, ObjectsPartitioned
<1> QED BY SlabInvariant, <1>2, PTL

\* The count of every slab and the partial list of every cache are exact, so
\* the kasserts of SlabCache::Alloc hold.
THEOREM SlabsAccounted == Spec => []SlabAccounting
<1>1. SlabInv => SlabAccounting
  BY DEF SlabInv, DataInv
<1> QED BY SlabInvariant, <1>1, PTL

\* An object freed away from home is only ever on the way to the cache that
\* owns its slab.
THEOREM ObjectsGoHome == Spec => []RemoteObjectsGoHome
<1>1. SlabInv => RemoteObjectsGoHome
  BY DEF SlabInv, DataInv
<1> QED BY SlabInvariant, <1>1, PTL

Looks(k) == Cardinality(remote_[k]) >= free_batch => remote_check[k]

\* What a flush or a claim does to a remote list ...
Grows(k) ==
  /\ remote_check[k] => remote_check'[k]
  /\ \/ remote_'[k] = remote_[k]
     \/ remote_'[k] = {}
     \/ \E O : /\ remote_'[k] = remote_[k] \cup O
               /\ Crosses(k, O) => remote_check'[k]

\* ... keeps the check in step.
LEMMA ListKeepsCheck ==
  ASSUME TypeOK, TypeOK', NEW k \in Caches, free_batch > 0, Looks(k), Grows(k)
  PROVE  Looks(k)'
<1>1. IsFiniteSet(Objects)
  <2>1. IsFiniteSet(1 .. num_objects)
    BY SlabAssumption, FS_Interval
  <2> QED BY <2>1, SlabAssumption, FS_Product DEF Objects
<1>2. remote_[k] \in SUBSET Objects /\ remote_'[k] \in SUBSET Objects
  BY DEF TypeOK
<1>3. /\ Cardinality(remote_[k]) \in Nat /\ Cardinality(remote_'[k]) \in Nat
      /\ free_batch \in Nat
  BY <1>1, <1>2, SlabAssumption, FS_Subset, FS_CardinalityType
<1>4. CASE remote_'[k] = remote_[k]
  BY <1>4 DEF Looks, Grows
<1>5. CASE remote_'[k] = {}
  <2>1. Cardinality(remote_'[k]) = 0
    BY <1>5, FS_EmptySet
  <2>2. ~(Cardinality(remote_'[k]) >= free_batch)
    BY <1>3, <2>1
  <2> QED BY <2>2 DEF Looks
<1>6. ASSUME NEW O, remote_'[k] = remote_[k] \cup O, Crosses(k, O) => remote_check'[k]
      PROVE  Looks(k)'
  <2>1. \/ Crosses(k, O)
        \/ Cardinality(remote_[k]) >= free_batch
        \/ ~(Cardinality(remote_'[k]) >= free_batch)
    BY <1>3, <1>6 DEF Crosses
  <2> QED BY <1>6, <2>1 DEF Looks, Grows
<1> QED BY <1>4, <1>5, <1>6 DEF Grows

LEMMA CheckStep ==
  ASSUME SlabInv, TypeOK', WatermarkSetsCheck, [Next]_slabVars
  PROVE  WatermarkSetsCheck'
<1>1. SUFFICES ASSUME free_batch > 0, NEW k \in Caches
               PROVE  Looks(k)'
  BY DEF WatermarkSetsCheck, Looks
<1>2. /\ TypeOK /\ Looks(k)
      /\ remote_ \in [Caches -> SUBSET Objects] /\ remote_check \in [Caches -> BOOLEAN]
  BY <1>1 DEF SlabInv, TypeOK, WatermarkSetsCheck, Looks
<1>3. ASSUME NEW c, NEW o, FreeRemote(c, o)
      PROVE  Grows(k)
  <2>1. /\ remote_'[k] = remote_[k] \cup Sent(c, o, k)
        /\ remote_check'[k] = (remote_check[k] \/ (Sent(c, o, k) # {} /\ Crosses(k, Sent(c, o, k))))
    BY <1>3 DEF FreeRemote
  <2>2. CASE Sent(c, o, k) = {}
    BY <2>1, <2>2 DEF Grows
  <2>3. CASE Sent(c, o, k) # {}
    BY <2>1, <2>3 DEF Grows
  <2> QED BY <2>2, <2>3
<1>4. ASSUME NEW t, FlushRemoteList(t)
      PROVE  Grows(k)
  <2> DEFINE m == remote_cache_[t]
  <2>1. CASE m = None
    BY <1>4, <2>1 DEF FlushRemoteList, Grows
  <2>2. CASE m # None /\ k # m
    <3>1. remote_'[k] = remote_[k] /\ remote_check'[k] = remote_check[k]
      BY <1>2, <1>4, <2>2 DEF FlushRemoteList
    <3> QED BY <3>1 DEF Grows
  <2>3. CASE m # None /\ k = m
    <3>1. /\ remote_'[k] = remote_[k] \cup remote_list_[t]
          /\ remote_check'[k] = (remote_check[k] \/ Crosses(k, remote_list_[t]))
      BY <1>2, <1>4, <2>3 DEF FlushRemoteList
    <3> QED BY <3>1 DEF Grows
  <2> QED BY <2>1, <2>2, <2>3
<1>5. ASSUME NEW t, ClaimRemoteFreeList(t), UNCHANGED remote_check
      PROVE  Grows(k)
  BY <1>2, <1>5 DEF ClaimRemoteFreeList, Grows
<1>6. CASE UNCHANGED <<remote_, remote_check>>
  BY <1>2, <1>6 DEF Looks
<1>7. ASSUME NEW c \in Cpus, FreeOther(c) \/ FlushForeign(c) PROVE \E o : FreeRemote(c, o)
  BY <1>7 DEF FreeOther, FlushForeign
<1>8. ASSUME NEW c \in Cpus, AllocClaim(c) \/ DrainClaim(c)
      PROVE  ClaimRemoteFreeList(target[c]) /\ UNCHANGED remote_check
  BY <1>8 DEF AllocClaim, DrainClaim
<1>9. ASSUME NEW c \in Cpus, DrainStageEnds(c)
      PROVE  FlushRemoteList(target[c]) \/ UNCHANGED <<remote_, remote_check>>
  BY <1>9 DEF DrainStageEnds
<1>10. CASE UNCHANGED slabVars
  BY <1>6, <1>10 DEF slabVars
<1>11. ASSUME NEW c \in Cpus, OperationStep(c)
       PROVE  Looks(k)'
  <2>1. CASE AllocClaim(c) \/ DrainClaim(c)
    BY <1>1, <1>2, <1>5, <1>8, <2>1, ListKeepsCheck
  <2>2. CASE DrainStageEnds(c)
    BY <1>1, <1>2, <1>4, <1>6, <1>9, <2>2, ListKeepsCheck
  <2>3. CASE FlushForeign(c)
    BY <1>1, <1>2, <1>3, <1>7, <2>3, ListKeepsCheck
  <2>4. CASE \/ AllocFromList(c) \/ Trim(c) \/ AllocFromPartial(c) \/ AddSlab(c)
             \/ AllocFails(c) \/ FlushHome(c) \/ FlushReturns(c)
    BY <1>6, <2>4 DEF AllocFromList, Trim, AllocFromPartial, AddSlab, AllocFails, FlushHome,
                      FlushReturns
  <2> QED BY <1>11, <2>1, <2>2, <2>3, <2>4 DEF OperationStep
<1>12. ASSUME NEW c \in Cpus, \/ \E nid \in Nodes : Alloc(c, nid)
                              \/ FreeLocal(c) \/ Destroy(c)
       PROVE  Looks(k)'
  BY <1>6, <1>12 DEF Alloc, FreeLocal, Destroy
<1>13. ASSUME NEW c \in Cpus, FreeOther(c)
       PROVE  Looks(k)'
  BY <1>1, <1>2, <1>3, <1>7, <1>13, ListKeepsCheck
<1> QED BY <1>10, <1>11, <1>12, <1>13 DEF Next

\* Whatever flushes and claims come in between, an owner looks at its remote
\* list once a batch of its objects is there, if a batch is at least one.
THEOREM WatermarkAlwaysSetsCheck == Spec => []WatermarkSetsCheck
<1>1. Init => WatermarkSetsCheck
  BY SlabAssumption, FS_EmptySet DEF Init, WatermarkSetsCheck
<1>2. SlabInv /\ SlabInv' /\ WatermarkSetsCheck /\ [Next]_slabVars => WatermarkSetsCheck'
  BY CheckStep DEF SlabInv
<1> QED BY SlabInvariant, <1>1, <1>2, PTL DEF Spec

-----------------------------------------------------------------------------
(* The destructor *)

HomeList(k) == \A o \in object_list_[k] : cache[SlabOf(o)] = k

\* The first loop has been over these cpus: what is left on their object
\* lists is their own, and only the cpu that runs the destructor can have
\* objects to send, unless the loop ended with it.
FirstLoopInv(c) ==
  /\ \A i \in 1 .. Len(CpuSeq) : i < stage =>
       /\ HomeList(CpuSeq[i])
       /\ CpuSeq[i] # c => remote_list_[CpuSeq[i]] = {}
  /\ stage > Len(CpuSeq) /\ c = CpuSeq[Len(CpuSeq)] => remote_list_[c] = {}

\* The other loops have drained these caches.
OtherLoopsInv(c) ==
  /\ pc[c] = "claim" => stage > Len(CpuSeq)
  /\ pc[c] = "drain" /\ stage > Len(CpuSeq) => remote_[target[c]] = {}
  /\ pc[c] = "destroyed" => stage = Len(DrainOrder)
  /\ \A j \in 1 .. Len(DrainOrder) :
       j > Len(CpuSeq) /\ (j < stage \/ pc[c] = "destroyed") =>
         object_list_[DrainOrder[j]] = {} /\ remote_[DrainOrder[j]] = {}

DrainInv == \A c \in Cpus : InDestructor(c) => FirstLoopInv(c) /\ OtherLoopsInv(c)

\* After the first loop every object is on a list of its own cache, so that
\* FlushFreeListAll sends nothing away any more.
LEMMA AllHome ==
  ASSUME SlabInv, DrainInv, NEW c \in Cpus, InDestructor(c),
         stage > Len(CpuSeq), NEW k \in Caches
  PROVE  HomeList(k)
<1>1. CASE k \in Cpus
  <2>1. PICK i \in 1 .. Len(CpuSeq) : CpuSeq[i] = k
    BY <1>1, DrainOrderFacts
  <2>2. i < stage
    BY DrainOrderFacts DEF SlabInv, TypeOK
  <2> QED BY <2>1, <2>2 DEF DrainInv, FirstLoopInv
<1>2. CASE k \in Nodes
  BY <1>2 DEF SlabInv, DataInv, NodeListsHome, HomeList
<1> QED BY <1>1, <1>2 DEF Caches

\* The destructor runs alone.
LEMMA DestructorAlone ==
  ASSUME SlabInv, [Next]_slabVars, NEW c \in Cpus, InDestructor(c)
  PROVE  \/ UNCHANGED slabVars
         \/ FlushHome(c) \/ FlushForeign(c) \/ DrainStageEnds(c) \/ DrainClaim(c)
<1>1. /\ stage # 0 /\ pc[c] \in {"claim", "drain", "destroyed"}
      /\ \A d \in Cpus \ {c} : pc[d] = "idle"
  BY DrainOrderFacts DEF SlabInv, TypeOK, ControlInv, InDestructor
<1>2. CASE Next
  <2>1. PICK d \in Cpus : OperationStep(d)
    BY <1>1, <1>2 DEF Next, Alloc, FreeLocal, FreeOther, Destroy
  <2>2. pc[d] # "idle"
    BY <2>1 DEF OperationStep, AllocFromList, AllocClaim, Trim, AllocFromPartial, AddSlab,
                AllocFails, ListsDry, FlushHome, FlushForeign, InFlush, FlushReturns,
                DrainStageEnds, DrainClaim
  <2>3. d = c
    BY <1>1, <2>2
  <2> QED BY <1>1, <2>1, <2>3 DEF OperationStep, AllocFromList, AllocClaim, Trim,
             AllocFromPartial, AddSlab, AllocFails, ListsDry, FlushReturns
<1> QED BY <1>2

\* FlushFreeList gives an object back to its slab.  When that was the last
\* one out, the slab is freed, and no list holds another object of it.
LEMMA FlushHomeDrains ==
  ASSUME SlabInv, DrainInv, NEW c \in Cpus, InDestructor(c), FlushHome(c)
  PROVE  DrainInv'
<1> USE DEF SlabInv, InDestructor
<1>1. target[c] \in Caches /\ \A d \in Cpus \ {c} : pc[d] = "idle"
  BY DEF FlushHome, InFlush, ControlInv, Busy
<1>2. /\ UNCHANGED <<remote_, remote_list_, pc, target, stage>>
      /\ cache' \in [Slabs -> Caches \cup {None}]
  BY FlushHomeData DEF FlushHome
<1>3. PICK o \in object_list_[target[c]] :
        /\ object_list_' = [object_list_ EXCEPT ![target[c]] = @ \ {o}]
        /\ \/ UNCHANGED cache
           \/ cache' = [cache EXCEPT ![SlabOf(o)] = None]
  BY DEF FlushHome
<1>4. ASSUME NEW k \in Caches PROVE object_list_'[k] \subseteq object_list_[k]
  BY <1>1, <1>3 DEF TypeOK
<1>5. ASSUME NEW k \in Caches, HomeList(k) PROVE HomeList(k)'
  <2> SUFFICES ASSUME NEW x \in object_list_'[k] PROVE cache'[SlabOf(x)] = k
    BY DEF HomeList
  <2>1. x \in object_list_[k] /\ x \in Objects /\ cache[SlabOf(x)] = k
    BY <1>4, <1>5 DEF HomeList, TypeOK
  <2>2. HasPlace(x)' /\ x \in Objects
    BY <2>1 DEF HasPlace
  <2>3. cache'[SlabOf(x)] # None
    BY <2>2, FlushHomeData DEF DataInv, Somewhere
  <2> QED BY <1>3, <2>1, <2>3, ObjectFacts DEF TypeOK
<1>6. FirstLoopInv(c)'
  <2>1. \A i \in 1 .. Len(CpuSeq) : CpuSeq[i] \in Caches
    BY DrainOrderFacts DEF Caches
  <2> QED BY <1>2, <1>5, <2>1 DEF DrainInv, FirstLoopInv
<1>7. OtherLoopsInv(c)'
  <2>1. \A j \in 1 .. Len(DrainOrder) :
          object_list_[DrainOrder[j]] = {} => object_list_'[DrainOrder[j]] = {}
    BY <1>4, DrainOrderFacts
  <2> QED BY <1>2, <2>1 DEF DrainInv, OtherLoopsInv
<1> QED BY <1>1, <1>2, <1>6, <1>7 DEF DrainInv

\* FlushFreeList meets an object of another cache only in the first loop.
LEMMA FlushForeignDrains ==
  ASSUME SlabInv, DrainInv, NEW c \in Cpus, InDestructor(c), FlushForeign(c)
  PROVE  DrainInv'
<1> USE DEF SlabInv, InDestructor
<1>1. /\ target[c] \in Caches /\ \A d \in Cpus \ {c} : pc[d] = "idle"
      /\ pc[c] = "drain"
  BY DEF FlushForeign, InFlush, ControlInv, Busy
<1>2. UNCHANGED <<cache, pc, target, stage>>
  BY DEF FlushForeign
<1>3. PICK o \in object_list_[target[c]] :
        /\ cache[SlabOf(o)] # target[c]
        /\ object_list_' = [object_list_ EXCEPT ![target[c]] = @ \ {o}]
        /\ remote_list_' = [remote_list_ EXCEPT ![c] =
             IF Cardinality(Batch(c, o)) > free_batch THEN {} ELSE Batch(c, o)]
  BY DEF FlushForeign, FreeRemote
<1>4. ~(stage > Len(CpuSeq))
  BY <1>1, <1>3, AllHome DEF HomeList
<1>5. ASSUME NEW k \in Caches, HomeList(k) PROVE HomeList(k)'
  BY <1>1, <1>2, <1>3, <1>5 DEF HomeList, TypeOK
<1>6. FirstLoopInv(c)'
  <2>1. \A i \in 1 .. Len(CpuSeq) : CpuSeq[i] \in Caches /\ CpuSeq[i] \in Cpus
    BY DrainOrderFacts DEF Caches
  <2>2. \A d \in Cpus \ {c} : remote_list_'[d] = remote_list_[d]
    BY <1>3 DEF TypeOK
  <2> QED BY <1>2, <1>4, <1>5, <2>1, <2>2 DEF DrainInv, FirstLoopInv
<1>7. OtherLoopsInv(c)'
  <2>1. \A j \in 1 .. Len(DrainOrder) : j > Len(CpuSeq) => ~(j < stage)
    BY <1>4, DrainOrderFacts DEF TypeOK
  <2> QED BY <1>1, <1>2, <1>4, <2>1 DEF DrainInv, OtherLoopsInv
<1> QED BY <1>1, <1>2, <1>6, <1>7 DEF DrainInv

\* ClaimRemoteFreeList brings a cache its own objects, and only to the cache
\* the destructor is about to drain.
LEMMA ClaimDrains ==
  ASSUME SlabInv, DrainInv, NEW c \in Cpus, InDestructor(c), DrainClaim(c)
  PROVE  DrainInv'
<1> USE DEF SlabInv, InDestructor
<1> DEFINE k == target[c]
<1>1. /\ k \in Caches /\ \A d \in Cpus \ {c} : pc[d] = "idle"
      /\ k = DrainOrder[stage] /\ stage > Len(CpuSeq)
  BY DEF DrainClaim, ControlInv, Busy, DrainInv, OtherLoopsInv
<1>2. /\ UNCHANGED <<remote_list_, cache, target, stage>>
      /\ pc' = [pc EXCEPT ![c] = "drain"]
      /\ object_list_' = [object_list_ EXCEPT ![k] = @ \cup remote_[k]]
      /\ remote_' = [remote_ EXCEPT ![k] = {}]
  BY DEF DrainClaim, ClaimRemoteFreeList
<1> HIDE DEF k
<1>3. ASSUME NEW j \in Caches, HomeList(j) PROVE HomeList(j)'
  BY <1>1, <1>2, <1>3 DEF HomeList, TypeOK, DataInv, RemoteObjectsGoHome
<1>4. FirstLoopInv(c)'
  <2>1. \A i \in 1 .. Len(CpuSeq) : CpuSeq[i] \in Caches
    BY DrainOrderFacts DEF Caches
  <2> QED BY <1>2, <1>3, <2>1 DEF DrainInv, FirstLoopInv
<1>5. OtherLoopsInv(c)'
  <2>1. pc'[c] = "drain" /\ remote_'[k] = {}
    BY <1>1, <1>2 DEF TypeOK
  <2>2. ASSUME NEW j \in Caches, object_list_[j] = {}, remote_[j] = {}
        PROVE  object_list_'[j] = {} /\ remote_'[j] = {}
    BY <1>1, <1>2, <2>2 DEF TypeOK
  <2>3. remote_'[target'[c]] = {}
    BY <1>2, <2>1 DEF k
  <2> QED BY <1>2, <2>1, <2>2, <2>3, DrainOrderFacts DEF DrainInv, OtherLoopsInv
<1>6. \A d \in Cpus \ {c} : pc'[d] = "idle"
  BY <1>1, <1>2 DEF TypeOK
<1> QED BY <1>4, <1>5, <1>6 DEF DrainInv

\* FlushRemoteList leaves nothing on the cpu's remote_list_: without a
\* remote_cache_ there was nothing on it.
LEMMA FlushRemoteListEmpties ==
  ASSUME SlabInv, NEW t \in Cpus, FlushRemoteList(t)
  PROVE  /\ remote_list_'[t] = {}
         /\ \A d \in Cpus \ {t} : remote_list_'[d] = remote_list_[d]
<1> USE DEF SlabInv
<1>1. CASE remote_cache_[t] = None
  <2>1. \A o \in remote_list_[t] : o \in Objects /\ cache[SlabOf(o)] = None /\ HasPlace(o)
    BY <1>1 DEF DataInv, RemoteObjectsGoHome, HasPlace, TypeOK
  <2>2. remote_list_[t] = {}
    BY <2>1 DEF DataInv, Somewhere
  <2> QED BY <1>1, <2>2 DEF FlushRemoteList
<1>2. CASE remote_cache_[t] # None
  BY <1>2 DEF FlushRemoteList, TypeOK
<1> QED BY <1>1, <1>2

\* The destructor goes on to the next cache.
LEMMA StageEndsDrains ==
  ASSUME SlabInv, DrainInv, NEW c \in Cpus, InDestructor(c), DrainStageEnds(c)
  PROVE  DrainInv'
<1> USE DEF SlabInv, InDestructor
<1> DEFINE N == Len(CpuSeq)
           L == Len(DrainOrder)
<1>1. /\ pc[c] = "drain" /\ \A d \in Cpus \ {c} : pc[d] = "idle"
      /\ object_list_[target[c]] = {}
      /\ UNCHANGED <<object_list_, cache>>
  BY DEF DrainStageEnds, ControlInv
<1>2. /\ stage \in 1 .. L /\ target[c] = DrainOrder[stage] /\ target[c] \in Caches
      /\ stage <= N => target[c] = CpuSeq[stage] /\ target[c] \in Cpus
  BY <1>1, DrainTarget
<1>3. N \in Nat /\ L \in Nat /\ L > N
  <2>1. c \in Caches
    BY DEF Caches
  <2> QED BY <2>1, DrainOrderFacts
<1>4. \A k \in Caches : HomeList(k) => HomeList(k)'
  BY <1>1 DEF HomeList
<1>5. FirstLoopInv(c) /\ OtherLoopsInv(c)
  BY DEF DrainInv
<1>6. \A i \in 1 .. N : CpuSeq[i] \in Caches /\ CpuSeq[i] \in Cpus
  BY DrainOrderFacts DEF Caches
<1>7. \A d \in Cpus \ {c} : pc'[d] = "idle"
  BY <1>1 DEF DrainStageEnds, TypeOK
<1>8. CASE stage <= N
  <2>1. FlushRemoteList(target[c])
    BY <1>8 DEF DrainStageEnds
  <2>2. /\ remote_list_'[CpuSeq[stage]] = {}
        /\ \A d \in Cpus : remote_list_[d] = {} => remote_list_'[d] = {}
    BY <1>2, <1>8, <2>1, FlushRemoteListEmpties
  <2>3. /\ pc'[c] = IF stage < N THEN "drain" ELSE "claim"
        /\ stage' = stage + 1
    BY <1>2, <1>3, <1>8 DEF DrainStageEnds, TypeOK
  <2>4. \A k \in Caches : k = CpuSeq[stage] => HomeList(k)'
    BY <1>1, <1>2, <1>8 DEF HomeList
  <2>5. FirstLoopInv(c)'
    <3>1. ASSUME NEW i \in 1 .. N, i < stage'
          PROVE  HomeList(CpuSeq[i])' /\ (CpuSeq[i] # c => remote_list_'[CpuSeq[i]] = {})
      <4>1. CASE i = stage
        BY <1>6, <2>2, <2>4, <4>1
      <4>2. CASE i # stage
        <5>1. i < stage
          BY <1>2, <1>3, <2>3, <3>1, <4>2
        <5> QED BY <1>4, <1>5, <1>6, <2>2, <5>1 DEF FirstLoopInv
      <4> QED BY <4>1, <4>2
    <3>2. stage' > N => stage = N
      BY <1>2, <1>3, <1>8, <2>3
    <3> QED BY <2>2, <3>1, <3>2 DEF FirstLoopInv
  <2>6. OtherLoopsInv(c)'
    <3>1. \A j \in 1 .. L : j > N => ~(j < stage')
      BY <1>2, <1>3, <1>8, <2>3
    <3>2. /\ pc'[c] = "claim" => stage' > N
          /\ pc'[c] = "drain" => ~(stage' > N)
          /\ pc'[c] # "destroyed"
      BY <1>2, <1>3, <1>8, <2>3
    <3> QED BY <3>1, <3>2 DEF OtherLoopsInv
  <2> QED BY <1>7, <2>5, <2>6 DEF DrainInv
<1>9. CASE ~(stage <= N)
  <2>1. UNCHANGED <<remote_, remote_list_>>
    BY <1>9 DEF DrainStageEnds
  <2>2. \/ stage = L /\ pc'[c] = "destroyed" /\ stage' = stage
        \/ stage # L /\ pc'[c] = "claim" /\ stage' = stage + 1
    BY <1>2, <1>3, <1>9 DEF DrainStageEnds, TypeOK
  <2>3. remote_[DrainOrder[stage]] = {} /\ object_list_[DrainOrder[stage]] = {}
    BY <1>1, <1>2, <1>3, <1>5, <1>9 DEF OtherLoopsInv
  <2>4. FirstLoopInv(c)'
    <3>1. \A i \in 1 .. N : i < stage
      BY <1>2, <1>3, <1>9
    <3>2. stage > N
      BY <1>2, <1>3, <1>9
    <3> QED BY <1>4, <1>5, <1>6, <2>1, <3>1, <3>2 DEF FirstLoopInv
  <2>5. OtherLoopsInv(c)'
    <3>1. ASSUME NEW j \in 1 .. L, j > N, j < stage' \/ pc'[c] = "destroyed"
          PROVE  object_list_'[DrainOrder[j]] = {} /\ remote_'[DrainOrder[j]] = {}
      <4>1. j = stage \/ j < stage
        BY <1>2, <1>3, <2>2, <3>1
      <4> QED BY <1>1, <1>5, <2>1, <2>3, <3>1, <4>1 DEF OtherLoopsInv
    <3>2. pc'[c] = "claim" => stage' > N
      BY <1>2, <1>3, <1>9, <2>2
    <3> QED BY <2>2, <3>1, <3>2 DEF OtherLoopsInv
  <2> QED BY <1>7, <2>4, <2>5 DEF DrainInv
<1> QED BY <1>8, <1>9

\* The destructor starts with the first cpu's lists.
LEMMA DestroyDrains ==
  ASSUME SlabInv, NEW c \in Cpus, Destroy(c)
  PROVE  DrainInv'
<1>1. \A d \in Cpus \ {c} : pc'[d] = "idle"
  BY DEF Destroy, SlabInv, TypeOK
<1>2. stage' = 1 /\ pc'[c] = "drain"
  BY DEF Destroy, SlabInv, TypeOK
<1>3. Len(CpuSeq) \in Nat /\ Len(CpuSeq) >= 1
  BY DrainOrderFacts
<1>4. FirstLoopInv(c)' /\ OtherLoopsInv(c)'
  BY <1>2, <1>3 DEF FirstLoopInv, OtherLoopsInv
<1> QED BY <1>1, <1>4 DEF DrainInv, InDestructor

\* The destructor's loops leave what they have passed empty.
LEMMA DrainStep == SlabInv /\ DrainInv /\ [Next]_slabVars => DrainInv'
<1> SUFFICES ASSUME SlabInv, DrainInv, [Next]_slabVars PROVE DrainInv'
  OBVIOUS
<1>1. CASE \E c \in Cpus : InDestructor(c)
  <2>1. PICK c \in Cpus : InDestructor(c)
    BY <1>1
  <2>2. CASE UNCHANGED slabVars
    BY <2>2 DEF slabVars, DrainInv, InDestructor, FirstLoopInv, OtherLoopsInv, HomeList
  <2> QED BY <2>1, <2>2, DestructorAlone, FlushHomeDrains, FlushForeignDrains,
             StageEndsDrains, ClaimDrains
<1>2. CASE ~\E c \in Cpus : InDestructor(c)
  <2>1. CASE \E c \in Cpus : Destroy(c)
    BY <2>1, DestroyDrains
  <2>2. CASE ~\E c \in Cpus : Destroy(c)
    <3>1. ASSUME NEW c \in Cpus PROVE ~InDestructor(c)'
      <4>0. pc \in [Cpus -> Locations] /\ ~InDestructor(c)
        BY <1>2 DEF SlabInv, TypeOK
      <4>1. CASE UNCHANGED slabVars
        BY <4>0, <4>1 DEF slabVars, InDestructor
      <4>2. CASE Next
        <5>1. PICK d \in Cpus : \/ \E nid \in Nodes : Alloc(d, nid)
                                \/ FreeLocal(d) \/ FreeOther(d) \/ OperationStep(d)
          BY <2>2, <4>2 DEF Next
        <5>2. pc[d] \notin {"claim", "drain"}
          BY <1>2 DEF InDestructor
        <5>3. UNCHANGED pc \/ \E l \in {"idle", "alloc", "trim", "flushTrim", "flushFree"} :
                                pc' = [pc EXCEPT ![d] = l]
          BY <5>1, <5>2 DEF OperationStep, Alloc, FreeLocal, FreeOther, AllocFromList,
               AllocReturns, AllocClaim, Trim, AllocFromPartial, AddSlab, AllocFails,
               FlushHome, FlushForeign, FlushReturns, DrainStageEnds, DrainClaim
        <5> QED BY <4>0, <5>3 DEF InDestructor
      <4> QED BY <4>1, <4>2
    <3> QED BY <3>1 DEF DrainInv
  <2> QED BY <2>1, <2>2
<1> QED BY <1>1, <1>2

\* When the destructor is done, ~SlabCache finds its lists empty, and every
\* slab is back with the page allocator but for the three exceptions
\* DestructorDrains names.
THEOREM DestructorDone == Spec => []DestructorDrains
<1>1. Init => DrainInv
  BY DEF Init, DrainInv, InDestructor
<1>2. ASSUME SlabInv, DrainInv, NEW c \in Cpus, pc[c] = "destroyed"
      PROVE  /\ \A k \in Caches : object_list_[k] = {} /\ remote_[k] = {}
             /\ \A s \in Slabs : cache[s] # None =>
                  \/ ObjectsOf(s) \cap held # {}
                  \/ used[s] = 0
                  \/ c # CpuSeq[Len(CpuSeq)] /\ ObjectsOf(s) \cap remote_list_[c] # {}
  <2> USE <1>2 DEF SlabInv
  <2>1. FirstLoopInv(c) /\ OtherLoopsInv(c)
    BY DEF DrainInv, InDestructor
  <2>2. ASSUME NEW k \in Caches PROVE object_list_[k] = {} /\ remote_[k] = {}
    <3>1. PICK j \in 1 .. Len(DrainOrder) : j > Len(CpuSeq) /\ DrainOrder[j] = k
      BY DrainOrderFacts
    <3> QED BY <2>1, <3>1 DEF OtherLoopsInv
  <2>3. stage > Len(CpuSeq)
    <3>1. c \in Caches
      BY DEF Caches
    <3>2. PICK j \in 1 .. Len(DrainOrder) : j > Len(CpuSeq)
      BY <3>1, DrainOrderFacts
    <3> QED BY <2>1, <3>2, DrainOrderFacts DEF OtherLoopsInv
  <2>4. \A d \in Cpus \ {c} : remote_list_[d] = {}
    <3> SUFFICES ASSUME NEW d \in Cpus \ {c} PROVE remote_list_[d] = {}
      OBVIOUS
    <3>1. PICK i \in 1 .. Len(CpuSeq) : CpuSeq[i] = d
      BY DrainOrderFacts
    <3>2. i < stage
      BY <2>3, DrainOrderFacts DEF TypeOK
    <3> QED BY <2>1, <3>1, <3>2 DEF FirstLoopInv
  <2>5. ASSUME NEW s \in Slabs, cache[s] # None, used[s] # 0
        PROVE  \/ ObjectsOf(s) \cap held # {}
               \/ c # CpuSeq[Len(CpuSeq)] /\ ObjectsOf(s) \cap remote_list_[c] # {}
    <3>1. /\ list[s] \subseteq ObjectsOf(s) /\ list[s] # ObjectsOf(s)
      <4>1. SlabAccounting /\ SlabApart
        BY DEF DataInv, Apart
      <4>2. /\ list[s] \subseteq ObjectsOf(s) /\ Cardinality(list[s]) \in Nat
            /\ used[s] + Cardinality(list[s]) = num_objects
        BY <2>5, <4>1, SlabListFacts
      <4>3. used[s] \in Nat /\ num_objects \in Nat
        BY SlabAssumption DEF TypeOK
      <4>4. Cardinality(ObjectsOf(s)) = num_objects
        BY ObjectFacts
      <4>5. Cardinality(list[s]) # num_objects
        BY <2>5, <4>2, <4>3
      <4> QED BY <4>2, <4>4, <4>5
    <3>2. PICK o \in ObjectsOf(s) : o \notin list[s]
      BY <3>1
    <3>3. o \in Objects /\ SlabOf(o) = s /\ HasPlace(o)
      BY <2>5, <3>2 DEF ObjectsOf, DataInv, Somewhere
    <3>4. o \in held \/ o \in remote_list_[c]
      BY <2>2, <2>4, <3>2, <3>3 DEF HasPlace
    <3>5. c = CpuSeq[Len(CpuSeq)] => remote_list_[c] = {}
      BY <2>1, <2>3 DEF FirstLoopInv
    <3> QED BY <3>2, <3>4, <3>5
  <2> QED BY <2>2, <2>5
<1>3. SlabInv /\ DrainInv => DestructorDrains
  BY <1>2 DEF DestructorDrains
<1> QED BY SlabInvariant, <1>1, DrainStep, <1>3, PTL DEF Spec
=============================================================================
