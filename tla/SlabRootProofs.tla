--------------------------- MODULE SlabRootProofs ---------------------------
(***************************************************************************)
(* That the cpus asking for the memory of a node agree on its allocator,   *)
(* and that whatever is allocated comes from a root with objects large     *)
(* enough, for every number of cpus, nodes, roots and blocks.              *)
(*                                                                         *)
(* The invariant follows a call of get_node_allocator from the load to the *)
(* use: the slot it reads is written once, and the block a cpu carries to  *)
(* its compare-and-swap is its own as long as none has been lost.          *)
(***************************************************************************)
EXTENDS SlabRoot, TLAPS, SequenceTheorems, FiniteSetTheorems, WellFoundedInduction

Others == Roots \ Meta

Calls ==
  [at : {"idle", "load", "new", "cas", "use", "aborted", "undefined"},
   root : Roots \cup {None}, nid : Nodes \cup {None}, need : Nat,
   allocator : Blocks \cup {Static, None}, new_allocator : Blocks \cup {None}]

TypeOK ==
  /\ boot \in {"slab_init", "gp_init", "up"}
  /\ roots \in [Roots -> RootValues \cup {None}]
  /\ cpu_allocators \in [Roots -> [Cpus -> Roots \cup {None}]]
  /\ node_allocators \in [Roots -> [Nodes -> Blocks \cup {Static, None}]]
  /\ block \in [Blocks -> [root_ : Roots, nid_ : Nodes] \cup {None}]
  /\ reps \in [Cpus -> {None, ClassRoots}]
  /\ call \in [Cpus -> Calls]
  /\ got \in [Cpus -> SUBSET [need : Nat, root_ : Roots]]
  /\ lost \in BOOLEAN

\* slab_init and Init run before anything is allocated.
BootInv ==
  /\ boot # "up" =>
       /\ \A c \in Cpus : call[c].at = "idle" /\ got[c] = {} /\ reps[c] = None
       /\ \A r \in Others : roots[r] = None /\ \A c \in Cpus : cpu_allocators[r][c] = None
       /\ \A r \in Others, n \in Nodes : node_allocators[r][n] = None
       /\ \A b \in Blocks : block[b] = None
  /\ boot # "slab_init" => \A m \in Meta : roots[m] # None
  /\ boot = "up" => \A r \in {"rep"} \cup Range(ClassRoots) : roots[r] # None

\* The numbers of a root suffice for what it was made for.
SizesInv ==
  /\ \A k \in Kinds : roots[k] # None => SizeOf[k] <= roots[k].size
  /\ \A i \in DOMAIN Classes : roots[ClassRoots[i]] # None =>
       Classes[i] <= roots[ClassRoots[i]].size

\* An allocator of a cpu works under its own root, which exists, except the
\* ones slab_init constructs.
CpuInv ==
  /\ boot # "slab_init" =>
       \A m \in Meta, c \in Cpus : cpu_allocators[m][c] = MetaRoot(m)
  /\ \A r \in Others, c \in Cpus : cpu_allocators[r][c] # None =>
       cpu_allocators[r][c] = r /\ roots[r] # None
  /\ \A c \in Cpus : reps[c] # None =>
       \A r \in Range(ClassRoots) : cpu_allocators[r][c] # None

InGet(c) == call[c].at \in {"load", "new", "cas", "use"}

\* A call of get_node_allocator is for a root that exists and can serve it.
CallInv ==
  \A c \in Cpus : InGet(c) =>
    /\ call[c].root \in Others /\ call[c].nid \in Nodes
    /\ roots[call[c].root] # None
    /\ call[c].need <= roots[call[c].root].size

\* The slots of the node allocators hold blocks.  What is used is in its slot.
SlotInv ==
  /\ \A r \in Others, n \in Nodes : node_allocators[r][n] \in Blocks \cup {None}
  /\ \A c \in Cpus : call[c].at = "use" =>
       /\ call[c].allocator # None
       /\ call[c].allocator = node_allocators[call[c].root][call[c].nid]
  /\ \A c \in Cpus : call[c].at = "cas" => call[c].new_allocator \in Blocks

\* A block on its way to a slot is what its cpu made of it, and nobody else's.
CarriedInv ==
  \A c \in Cpus : call[c].at = "cas" =>
    /\ block[call[c].new_allocator] = [root_ |-> call[c].root, nid_ |-> call[c].nid]
    /\ \A d \in Cpus : call[d].at = "cas" /\ call[d].new_allocator = call[c].new_allocator
                       => d = c

InSlots ==
  \A r \in Others, n \in Nodes : node_allocators[r][n] # None =>
    block[node_allocators[r][n]] = [root_ |-> r, nid_ |-> n]

Kept ==
  \A b \in Blocks : block[b] # None =>
    \/ node_allocators[block[b].root_][block[b].nid_] = b
    \/ \E c \in Cpus : call[c].at = "cas" /\ call[c].new_allocator = b

UntilLost == ~lost => CarriedInv /\ InSlots /\ Kept /\ ObjectsLargeEnough

RootInv ==
  TypeOK /\ BootInv /\ SizesInv /\ CpuInv /\ CallInv /\ SlotInv /\ UntilLost

-----------------------------------------------------------------------------
(* The numbers of a root *)

\* std::max of two numbers is one of them, and no less than either.
LEMMA MaxOfTwo ==
  ASSUME NEW a \in Nat, NEW b \in Nat
  PROVE  Max({a, b}) \in Nat /\ Max({a, b}) >= a /\ Max({a, b}) >= b
<1>1. \E x \in {a, b} : \A y \in {a, b} : x >= y
  <2>1. CASE a >= b
    BY <2>1
  <2>2. CASE b >= a
    BY <2>2
  <2> QED BY <2>1, <2>2
<1> QED BY <1>1 DEF Max

\* align_up only rounds up.
LEMMA AlignUp ==
  ASSUME NEW v \in Nat, NEW a \in Nat \ {0}
  PROVE  align_up(v, a) \in Nat /\ align_up(v, a) >= v
BY DEF align_up

\* A root's objects are as large as was asked for.
LEMMA RootMade ==
  ASSUME NEW s \in Nat, NEW a \in Nat
  PROVE  LET root == SlabAllocatorRoot(s, a) IN
         root.asked = s /\ root.size \in Nat /\ s <= root.size
<1> DEFINE align == align_up(Max({a, WordSize}), WordSize)
           size == align_up(Max({s, WordSize}), align)
<1>1. WordSize \in Nat \ {0} /\ WordSize = 8
  BY DEF WordSize
<1>2. Max({a, WordSize}) \in Nat /\ Max({a, WordSize}) >= 8
  BY <1>1, MaxOfTwo
<1>3. align \in Nat \ {0}
  <2>1. align \in Nat /\ align >= Max({a, WordSize})
    BY <1>1, <1>2, AlignUp
  <2> HIDE DEF align
  <2> QED BY <1>2, <2>1
<1>4. Max({s, WordSize}) \in Nat /\ Max({s, WordSize}) >= s
  BY <1>1, MaxOfTwo
<1>5. size \in Nat /\ size >= Max({s, WordSize})
  BY <1>3, <1>4, AlignUp
<1>6. size \in Nat /\ s <= size
  <2> HIDE DEF size
  <2> QED BY <1>4, <1>5
<1>7. SlabAllocatorRoot(s, a).asked = s /\ SlabAllocatorRoot(s, a).size = size
  BY DEF SlabAllocatorRoot
<1> QED BY <1>6, <1>7

\* What the constants are, as the proofs need it.
LEMMA SizesAsked ==
  /\ \A k \in Kinds : SizeOf[k] \in Nat /\ AlignOf[k] \in Nat
  /\ \A s \in Range(Classes) \cup UserSizes : s \in Nat
  /\ \A i \in DOMAIN Classes : Classes[i] \in Nat /\ Classes[i] \in Range(Classes)
  /\ DOMAIN Classes = DOMAIN ClassRoots
  /\ \A i \in DOMAIN ClassRoots : ClassRoots[i] \in Range(ClassRoots)
  /\ \A r \in Range(ClassRoots) : \E i \in DOMAIN Classes : ClassRoots[i] = r
<1>1. \A k \in Kinds : SizeOf[k] \in Nat /\ AlignOf[k] \in Nat
  <2>1. SizeOf \in [Kinds -> Nat \ {0}] /\ AlignOf \in [Kinds -> {8, 16, 32, 64}]
    BY RootAssumption, Zenon
  <2>2. \A k \in Kinds : SizeOf[k] \in Nat /\ AlignOf[k] \in {8, 16, 32, 64}
    BY <2>1
  <2> QED BY <2>2
<1>2. \A i \in DOMAIN Classes : Classes[i] \in Nat
  BY RootAssumption
<1>3. DOMAIN Classes = DOMAIN ClassRoots
  BY RootAssumption
<1>4. UserSizes \subseteq Nat
  BY RootAssumption
<1>5. \A s \in Range(Classes) : s \in Nat
  BY <1>2 DEF Range
<1>6. \A i \in DOMAIN Classes : Classes[i] \in Range(Classes)
  BY DEF Range
<1>7. /\ \A i \in DOMAIN ClassRoots : ClassRoots[i] \in Range(ClassRoots)
      /\ \A r \in Range(ClassRoots) : \E i \in DOMAIN ClassRoots : ClassRoots[i] = r
  BY DEF Range
<1> QED BY <1>1, <1>2, <1>3, <1>4, <1>5, <1>6, <1>7

\* Every root that can be constructed is one, and is large enough.
LEMMA RootValue ==
  \A v \in RootValues : /\ v # None
                        /\ v.asked \in Nat /\ v.size \in Nat
                        /\ v.asked <= v.size
<1> TAKE v \in RootValues
<1>1. v # None
  BY NoneIsNoRoot
<1>2. PICK s \in Nat, a \in Nat : v = SlabAllocatorRoot(s, a)
  BY SizesAsked DEF RootValues
<1> QED BY <1>1, <1>2, RootMade

\* The roots that slab_init, Init and Construct make.
LEMMA RootsMade ==
  /\ \A k \in Kinds : /\ SlabAllocatorRoot(SizeOf[k], AlignOf[k]) \in RootValues
                      /\ SizeOf[k] <= SlabAllocatorRoot(SizeOf[k], AlignOf[k]).size
  /\ \A s \in Range(Classes) \cup UserSizes :
       /\ SlabAllocatorRoot(s, 0) \in RootValues
       /\ s <= SlabAllocatorRoot(s, 0).size
<1>1. \A k \in Kinds : SizeOf[k] <= SlabAllocatorRoot(SizeOf[k], AlignOf[k]).size
  BY SizesAsked, RootMade
<1>2. \A s \in Range(Classes) \cup UserSizes : s <= SlabAllocatorRoot(s, 0).size
  BY SizesAsked, RootMade
<1> QED BY <1>1, <1>2 DEF RootValues

\* indexer finds a class that is large enough.
LEMMA IndexerFits ==
  ASSUME NEW size \in Nat, indexer(size) # 0
  PROVE  indexer(size) \in DOMAIN Classes /\ size <= Classes[indexer(size)]
<1> DEFINE enough == {i \in DOMAIN Classes : size <= Classes[i]}
<1>1. enough # {} /\ indexer(size) = Min(enough)
  BY DEF indexer
<1>2. enough \subseteq Nat
  BY RootAssumption
<1>3. PICK m \in enough : \A n \in enough : ~ (<<n, m>> \in OpToRel(<, Nat))
  <2> HIDE DEF enough
  <2> QED BY <1>1, <1>2, WFMin, NatLessThanWellFounded
<1>4. \A n \in enough : m <= n
  <2> SUFFICES ASSUME NEW n \in enough, ~ (m <= n) PROVE FALSE
    OBVIOUS
  <2>1. m \in Nat /\ n \in Nat
    BY <1>2
  <2>2. <<n, m>> \in OpToRel(<, Nat)
    <3>1. n < m
      BY <2>1
    <3> QED BY <2>1, <3>1 DEF OpToRel
  <2> QED BY <1>3, <2>2
<1>5. Min(enough) \in enough
  <2> HIDE DEF enough
  <2> QED BY <1>4 DEF Min
<1> QED BY <1>1, <1>5

\* Which names are roots, and which of them slab_init does not make.
LEMMA Names ==
  /\ Meta \subseteq Roots /\ Others \subseteq Roots /\ Kinds \subseteq Roots
  /\ "rep" \in Others /\ Range(ClassRoots) \subseteq Others /\ UserRoots \subseteq Others
  /\ Range(ClassRoots) \cap Kinds = {}
  /\ UserRoots \cap (Kinds \cup Range(ClassRoots)) = {}
  /\ None \notin Roots /\ None \notin Nodes /\ None \notin Blocks /\ None # Static
  /\ Static \notin Blocks
  /\ \A r \in Roots, n \in Nodes : [root_ |-> r, nid_ |-> n] # None
BY NameAssumption DEF Others, Roots, Kinds, Meta

-----------------------------------------------------------------------------
(* Powers of two: as numbers of subsets, the only thing the library says of *)
(* them.                                                                    *)

\* A set with one more element has twice as many subsets.
LEMMA SubsetsDouble ==
  ASSUME NEW S, IsFiniteSet(S), NEW x, x \notin S
  PROVE  Cardinality(SUBSET (S \cup {x})) = 2 * Cardinality(SUBSET S)
<1> DEFINE With == {T \cup {x} : T \in SUBSET S}
           f == [T \in SUBSET S |-> T \cup {x}]
<1>1. IsFiniteSet(SUBSET S) /\ Cardinality(SUBSET S) \in Nat
  BY FS_SUBSET, FS_CardinalityType
<1>2. f \in Bijection(SUBSET S, With)
  <2>1. f \in [SUBSET S -> With]
    OBVIOUS
  <2>2. ASSUME NEW T \in SUBSET S, NEW U \in SUBSET S, f[T] = f[U]
        PROVE  T = U
    BY <2>2
  <2>3. \A W \in With : \E T \in SUBSET S : f[T] = W
    OBVIOUS
  <2> HIDE DEF f, With
  <2>4. QED
    BY <2>1, <2>2, <2>3 DEF Bijection, Injection, Surjection, IsInjective
<1>3. IsFiniteSet(With) /\ Cardinality(With) = Cardinality(SUBSET S)
  <2>1. ExistsBijection(SUBSET S, With)
    BY <1>2 DEF ExistsBijection
  <2>2. QED
    BY <1>1, <2>1, FS_Bijection
<1>4. (SUBSET S) \cap With = {}
  OBVIOUS
<1>5. SUBSET (S \cup {x}) = (SUBSET S) \cup With
  <2>1. ASSUME NEW T \in SUBSET (S \cup {x}), T \notin SUBSET S
        PROVE  T \in With
    <3>1. T \ {x} \in SUBSET S /\ T = (T \ {x}) \cup {x}
      BY <2>1
    <3>2. QED
      BY <3>1
  <2>2. (SUBSET S) \cup With \subseteq SUBSET (S \cup {x})
    OBVIOUS
  <2>3. QED
    BY <2>1, <2>2
<1>6. Cardinality((SUBSET S) \cap With) = 0
  BY <1>4, FS_EmptySet
<1> HIDE DEF With
<1>7. Cardinality((SUBSET S) \cup With)
        = Cardinality(SUBSET S) + Cardinality(With) - Cardinality((SUBSET S) \cap With)
  BY <1>1, <1>3, FS_Union
<1>8. Cardinality((SUBSET S) \cup With) = 2 * Cardinality(SUBSET S)
  BY <1>1, <1>3, <1>6, <1>7
<1>9. QED
  BY <1>5, <1>8, Zenon

LEMMA PowerFacts ==
  ASSUME NEW k \in Nat
  PROVE  2^k \in Nat /\ 2^k > 0 /\ 2^(k + 1) = 2 * 2^k
<1>1. IsFiniteSet(1 .. k) /\ Cardinality(1 .. k) = k
  BY FS_Interval
<1>2. IsFiniteSet(1 .. (k + 1)) /\ Cardinality(1 .. (k + 1)) = k + 1
  BY FS_Interval
<1>3. 1 .. (k + 1) = (1 .. k) \cup {k + 1} /\ k + 1 \notin 1 .. k
  OBVIOUS
<1>4. 2^k = Cardinality(SUBSET (1 .. k)) /\ 2^(k + 1) = Cardinality(SUBSET (1 .. (k + 1)))
  BY <1>1, <1>2, FS_SUBSET
<1>5. 2^k \in Nat
  BY <1>1, <1>4, FS_SUBSET, FS_CardinalityType
<1>6. 2^k # 0
  BY <1>1, <1>4, FS_SUBSET, FS_EmptySet
<1>7. 2^(k + 1) = 2 * 2^k
  BY <1>1, <1>3, <1>4, SubsetsDouble
<1>8. QED
  BY <1>5, <1>6, <1>7

LEMMA PowerZero == 2^0 = 1
<1>1. IsFiniteSet({}) /\ Cardinality({}) = 0
  BY FS_EmptySet
<1>2. 2^0 = Cardinality(SUBSET {})
  BY <1>1, FS_SUBSET
<1>3. SUBSET {} = {{}}
  OBVIOUS
<1>4. Cardinality({{}}) = 1
  BY FS_Singleton
<1> QED BY <1>2, <1>3, <1>4

LEMMA Least ==
  ASSUME NEW T \in SUBSET Nat, T # {}
  PROVE  \E t \in T : \A u \in T : t <= u
<1>1. PICK t \in T : \A u \in T : ~ (<<u, t>> \in OpToRel(<, Nat))
  BY WFMin, NatLessThanWellFounded
<1>2. ASSUME NEW u \in T, ~ (t <= u)
      PROVE  FALSE
  <2>1. <<u, t>> \in OpToRel(<, Nat)
    BY <1>2 DEF OpToRel
  <2> QED BY <1>1, <2>1
<1> QED BY <1>2

LEMMA PowerOrder ==
  ASSUME NEW k \in Nat, NEW j \in Nat, k <= j
  PROVE  2^k <= 2^j
<1> DEFINE T == {i \in Nat : k <= i /\ 2^i < 2^k}
<1>0. \A i \in Nat : 2^i \in Nat /\ 2^i > 0 /\ 2^(i + 1) = 2 * 2^i
  BY PowerFacts
<1>1. SUFFICES ASSUME T # {} PROVE FALSE
  BY <1>0
<1>2. PICK t \in T : \A u \in T : t <= u
  BY <1>1, Least
<1>3. t \in Nat /\ k <= t /\ 2^t < 2^k /\ t # k
  BY <1>0
<1>4. t - 1 \in Nat /\ k <= t - 1 /\ t - 1 \notin T
  BY <1>2, <1>3
<1>5. 2^t = 2 * 2^(t - 1)
  <2>1. (t - 1) + 1 = t
    BY <1>3
  <2>2. 2^((t - 1) + 1) = 2 * 2^(t - 1)
    BY <1>0, <1>4
  <2> QED BY <2>1, <2>2
<1>6. ~ (2^(t - 1) < 2^k)
  BY <1>4
<1>7. 2^(t - 1) \in Nat /\ 2^k \in Nat /\ 2^t \in Nat
  BY <1>0, <1>3, <1>4
<1> QED BY <1>3, <1>5, <1>6, <1>7

\* A page has 4096 bytes, and each order twice as many as the one before.
LEMMA SlabBytes ==
  /\ PAGE_SIZE = 4096 /\ SlabSize(0) = 4096
  /\ \A o \in Nat : SlabSize(o) \in Nat /\ SlabSize(o) = 2^(o + 12)
<1>0. \A i \in Nat : 2^i \in Nat /\ 2^(i + 1) = 2 * 2^i
  BY PowerFacts
<1>1. ASSUME NEW o \in Nat PROVE 2^(o + 12) = 4096 * 2^o
  <2>1. /\ 2^(o + 1) = 2 * 2^o /\ 2^((o + 1) + 1) = 2 * 2^(o + 1)
        /\ 2^((o + 2) + 1) = 2 * 2^(o + 2) /\ 2^((o + 3) + 1) = 2 * 2^(o + 3)
        /\ 2^((o + 4) + 1) = 2 * 2^(o + 4) /\ 2^((o + 5) + 1) = 2 * 2^(o + 5)
        /\ 2^((o + 6) + 1) = 2 * 2^(o + 6) /\ 2^((o + 7) + 1) = 2 * 2^(o + 7)
        /\ 2^((o + 8) + 1) = 2 * 2^(o + 8) /\ 2^((o + 9) + 1) = 2 * 2^(o + 9)
        /\ 2^((o + 10) + 1) = 2 * 2^(o + 10) /\ 2^((o + 11) + 1) = 2 * 2^(o + 11)
    BY <1>0
  <2>2. /\ (o + 1) + 1 = o + 2 /\ (o + 2) + 1 = o + 3 /\ (o + 3) + 1 = o + 4
        /\ (o + 4) + 1 = o + 5 /\ (o + 5) + 1 = o + 6 /\ (o + 6) + 1 = o + 7
        /\ (o + 7) + 1 = o + 8 /\ (o + 8) + 1 = o + 9 /\ (o + 9) + 1 = o + 10
        /\ (o + 10) + 1 = o + 11 /\ (o + 11) + 1 = o + 12
    OBVIOUS
  <2>3. 2^o \in Nat
    BY <1>0
  <2>4. /\ 2^(o + 2) = 4 * 2^o /\ 2^(o + 3) = 8 * 2^o /\ 2^(o + 4) = 16 * 2^o
        /\ 2^(o + 5) = 32 * 2^o /\ 2^(o + 6) = 64 * 2^o
    BY <2>1, <2>2, <2>3
  <2>5. /\ 2^(o + 7) = 128 * 2^o /\ 2^(o + 8) = 256 * 2^o /\ 2^(o + 9) = 512 * 2^o
        /\ 2^(o + 10) = 1024 * 2^o /\ 2^(o + 11) = 2048 * 2^o
    BY <2>1, <2>2, <2>3, <2>4
  <2> QED BY <2>1, <2>2, <2>3, <2>5
<1>2. 2^12 = 4096
  <2>1. 2^(0 + 12) = 4096 * 2^0
    BY <1>1
  <2> QED BY <2>1, PowerZero
<1>3. PAGE_SIZE = 4096
  BY <1>2 DEF PAGE_SIZE, PAGE_SHIFT
<1>4. ASSUME NEW o \in Nat
      PROVE  SlabSize(o) \in Nat /\ SlabSize(o) = 2^(o + 12)
  <2>1. SlabSize(o) = 4096 * 2^o
    BY <1>3 DEF SlabSize
  <2> QED BY <1>0, <1>1, <2>1
<1>5. SlabSize(0) = 4096
  BY <1>3, PowerZero DEF SlabSize
<1> QED BY <1>3, <1>4, <1>5

LEMMA SlabPower ==
  ASSUME NEW o \in Nat
  PROVE  SlabSize(o) \in Nat /\ SlabSize(o) = 2^(o + 12)
BY SlabBytes

LEMMA SlabDoubles ==
  ASSUME NEW o \in Nat
  PROVE  SlabSize(o + 1) = 2 * SlabSize(o)
<1>1. SlabSize(o) = PAGE_SIZE * 2^o /\ SlabSize(o + 1) = PAGE_SIZE * 2^(o + 1)
  BY DEF SlabSize
<1>2. 2^o \in Nat /\ 2^(o + 1) = 2 * 2^o
  BY PowerFacts
<1>3. PAGE_SIZE = 4096
  BY SlabBytes
<1> QED BY <1>1, <1>2, <1>3

\* A larger order is a larger slab.
LEMMA SlabSizesGrow ==
  ASSUME NEW k \in Nat, NEW o \in Nat, k <= o
  PROVE  SlabSize(k) <= SlabSize(o) /\ 4096 <= SlabSize(k)
<1>1. 2^(k + 12) <= 2^(o + 12)
  BY PowerOrder
<1>2. 2^12 <= 2^(k + 12)
  <2>1. 12 \in Nat /\ k + 12 \in Nat /\ 12 <= k + 12
    OBVIOUS
  <2> HIDE DEF PAGE_SIZE
  <2> QED BY <2>1, PowerOrder, Zenon
<1>3. SlabSize(0) = 2^12
  <2>1. 0 + 12 = 12 /\ SlabSize(0) = 2^(0 + 12)
    BY SlabBytes, SlabPower, SlabDoubles
  <2> QED BY <2>1
<1>4. SlabSize(k) = 2^(k + 12) /\ SlabSize(o) = 2^(o + 12)
  BY SlabPower, Zenon
<1>5. SlabSize(0) = 4096
  BY SlabBytes
<1> QED BY <1>1, <1>2, <1>3, <1>4, <1>5

\* The words fls is for, and the sizes that can be asked for.
Words == 2^63
SizesEnd == 2^62

LEMMA WordsFacts ==
  Words \in Nat /\ SizesEnd \in Nat /\ Words = 2 * SizesEnd /\ 128 <= SizesEnd
  /\ SlabSize(11) <= Words
<1>1. 2^62 \in Nat /\ 2^(62 + 1) = 2 * 2^62
  BY PowerFacts
<1>2. 62 + 1 = 63
  OBVIOUS
<1>3. Words = 2 * SizesEnd /\ SizesEnd \in Nat
  BY <1>1, <1>2 DEF Words, SizesEnd
<1>4. SlabSize(11) <= Words
  <2>1. \A o \in Nat : SlabSize(o) = 2^(o + 12)
    BY SlabBytes, SlabPower, SlabDoubles
  <2>2. 11 \in Nat /\ 11 + 12 \in Nat /\ 63 \in Nat /\ 11 + 12 <= 63
    OBVIOUS
  <2>3. 2^(11 + 12) <= 2^63
    BY <2>2, PowerOrder, Zenon
  <2> QED BY <2>1, <2>2, <2>3, Zenon DEF Words
<1>5. 4096 <= SlabSize(11)
  BY SlabSizesGrow
<1> QED BY <1>3, <1>4, <1>5, SlabBytes, SlabPower, SlabDoubles

\* fls finds the highest bit of a word.
LEMMA FlsFacts ==
  ASSUME NEW w \in Nat, w > 0, w < Words
  PROVE  fls(w) \in Nat /\ 2^fls(w) <= w /\ w < 2^(fls(w) + 1)
<1> DEFINE T == {k \in Nat : w < 2^(k + 1)}
           Highest(k) == 2^k <= w /\ w < 2^(k + 1)
<1>1. 62 \in T
  <2>1. 62 + 1 = 63
    OBVIOUS
  <2>2. w < 2^(62 + 1)
    BY <2>1 DEF Words
  <2> QED BY <2>2
<1>2. PICK t \in T : \A u \in T : t <= u
  BY <1>1, Least
<1>3. t \in Nat /\ t <= 62 /\ w < 2^(t + 1)
  BY <1>1, <1>2
<1>4. 2^t <= w
  <2>1. CASE t = 0
    BY <2>1, PowerZero
  <2>2. CASE t # 0
    <3>1. t - 1 \in Nat /\ t - 1 \notin T
      BY <1>2, <1>3, <2>2
    <3>2. (t - 1) + 1 = t
      BY <1>3
    <3>3. ~ (w < 2^t)
      BY <3>1, <3>2
    <3>4. 2^t \in Nat
      BY <1>3, PowerFacts
    <3> QED BY <3>3, <3>4
  <2> QED BY <2>1, <2>2
<1>5. fls(w) = CHOOSE k \in 0 .. 63 : Highest(k)
  BY DEF fls
<1>6. Highest(t)
  BY <1>3, <1>4
<1> HIDE DEF Highest
<1>7. fls(w) \in 0 .. 63 /\ Highest(fls(w))
  <2>1. t \in 0 .. 63
    BY <1>3
  <2> QED BY <1>5, <1>6, <2>1
<1> QED BY <1>7 DEF Highest

-----------------------------------------------------------------------------
(* The order, the batch and the size of a root *)

\* The minimum of a set of numbers, and the maximum of two.
LEMMA MinIs ==
  ASSUME NEW S \in SUBSET Nat, NEW m \in S, \A n \in S : m <= n
  PROVE  Min(S) = m
<1>1. Min(S) \in S /\ \A n \in S : Min(S) <= n
  BY DEF Min
<1>2. Min(S) \in Nat /\ m \in Nat /\ Min(S) <= m /\ m <= Min(S)
  BY <1>1
<1> QED BY <1>2

LEMMA MinOfTwo ==
  ASSUME NEW a \in Nat, NEW b \in Nat
  PROVE  Min({a, b}) = IF a <= b THEN a ELSE b
<1>1. CASE a <= b
  BY <1>1, MinIs
<1>2. CASE ~ (a <= b)
  BY <1>2, MinIs
<1> QED BY <1>1, <1>2

LEMMA MaxIs ==
  ASSUME NEW a \in Nat, NEW b \in Nat
  PROVE  Max({a, b}) = IF a >= b THEN a ELSE b
<1>1. Max({a, b}) \in {a, b}
  <2>1. \E x \in {a, b} : \A y \in {a, b} : x >= y
    <3>1. CASE a >= b
      BY <3>1
    <3>2. CASE b >= a
      BY <3>2
    <3> QED BY <3>1, <3>2
  <2> QED BY <2>1 DEF Max
<1> QED BY <1>1, MaxOfTwo

First(size) ==
  IF fls(size - 1) < PAGE_SHIFT THEN 0 ELSE fls(size - 1) - PAGE_SHIFT + 1

\* The order slab_order starts from is the least that holds an object.
LEMMA FirstFacts ==
  ASSUME NEW size \in Nat, size > 1, size <= Words
  PROVE  /\ First(size) \in Nat /\ size <= SlabSize(First(size))
         /\ \A o \in Nat : o < First(size) => SlabSize(o) < size
<1> DEFINE w == size - 1
           i == fls(w)
<1>1. w \in Nat /\ w > 0 /\ w < Words
  BY WordsFacts
<1>2. i \in Nat /\ 2^i <= w /\ w < 2^(i + 1)
  BY <1>1, FlsFacts
<1>3. First(size) = IF i < 12 THEN 0 ELSE i - 12 + 1
  BY DEF First, PAGE_SHIFT
<1> HIDE DEF i
<1>4. 2^i \in Nat /\ 2^(i + 1) \in Nat
  BY <1>2, PowerFacts
<1>5. CASE i < 12
  <2>1. 2^(i + 1) <= 2^12
    <3>1. 12 \in Nat /\ i + 1 \in Nat /\ i + 1 <= 12
      BY <1>2, <1>5
    <3> QED BY <3>1, PowerOrder, Zenon
  <2>2. SlabSize(0) = 2^12 /\ SlabSize(0) = 4096
    <3>1. 0 + 12 = 12 /\ SlabSize(0) = 2^(0 + 12)
      BY SlabBytes, SlabPower, SlabDoubles
    <3> QED BY <3>1, SlabBytes, SlabPower, SlabDoubles
  <2>3. size <= SlabSize(0)
    BY <1>1, <1>2, <1>4, <2>1, <2>2
  <2>4. First(size) = 0
    BY <1>3, <1>5
  <2> QED BY <2>3, <2>4
<1>6. CASE ~ (i < 12)
  <2>1. First(size) = i - 11 /\ i - 11 \in Nat
    BY <1>2, <1>3, <1>6
  <2>2. SlabSize(i - 11) = 2^(i + 1)
    <3>1. (i - 11) + 12 = i + 1
      BY <1>2
    <3>2. SlabSize(i - 11) = 2^((i - 11) + 12)
      BY <2>1, SlabBytes, SlabPower, SlabDoubles
    <3> QED BY <3>1, <3>2
  <2>3. size <= SlabSize(i - 11)
    BY <1>1, <1>2, <1>4, <2>2
  <2>4. ASSUME NEW o \in Nat, o < i - 11 PROVE SlabSize(o) < size
    <3>1. 2^(o + 12) <= 2^i
      <4>1. o + 12 \in Nat /\ o + 12 <= i
        BY <1>2, <2>4
      <4> QED BY <1>2, <4>1, PowerOrder, Zenon
    <3>2. SlabSize(o) = 2^(o + 12) /\ SlabSize(o) \in Nat
      BY SlabPower, Zenon
    <3> QED BY <1>1, <1>2, <1>4, <3>1, <3>2
  <2> QED BY <2>1, <2>3, <2>4
<1> QED BY <1>5, <1>6

\* What slab_order looks through, and what it makes of it.
Fits(size, max_order, frac) ==
  {o \in First(size) .. max_order : (SlabSize(o) % size) * frac <= SlabSize(o)}

LEMMA SlabOrderIs ==
  ASSUME NEW size \in Nat, NEW max_order \in Nat, NEW frac \in Nat, First(size) \in Nat
  PROVE  /\ \A o \in Fits(size, max_order, frac) :
              (\A p \in Fits(size, max_order, frac) : o <= p)
                => slab_order(size, max_order, frac) = o
         /\ Fits(size, max_order, frac) = {} =>
              slab_order(size, max_order, frac)
                = IF First(size) > max_order THEN First(size) ELSE max_order + 1
<1>1. slab_order(size, max_order, frac) =
        IF Fits(size, max_order, frac) # {} THEN Min(Fits(size, max_order, frac))
        ELSE Max({First(size), max_order + 1})
  BY DEF slab_order, Fits, First
<1>2. Fits(size, max_order, frac) \in SUBSET Nat
  BY DEF Fits
<1> HIDE DEF Fits
<1>3. ASSUME NEW o \in Fits(size, max_order, frac),
             \A p \in Fits(size, max_order, frac) : o <= p
      PROVE  slab_order(size, max_order, frac) = o
  BY <1>1, <1>2, <1>3, MinIs
<1>4. ASSUME Fits(size, max_order, frac) = {}
      PROVE  slab_order(size, max_order, frac)
               = IF First(size) > max_order THEN First(size) ELSE max_order + 1
  <2>1. Max({First(size), max_order + 1})
          = IF First(size) >= max_order + 1 THEN First(size) ELSE max_order + 1
    BY MaxIs
  <2> QED BY <1>1, <1>4, <2>1
<1> QED BY <1>3, <1>4

\* With no fraction, the search ends at once.
LEMMA SecondSearch ==
  ASSUME NEW size \in Nat, size > 1, size <= Words
  PROVE  IF First(size) <= MAX_ORDER THEN slab_order(size, MAX_ORDER, 0) = First(size)
                                     ELSE slab_order(size, MAX_ORDER, 0) > MAX_ORDER
<1>1. First(size) \in Nat /\ MAX_ORDER = 11
  BY FirstFacts DEF MAX_ORDER
<1>2. Fits(size, MAX_ORDER, 0) = First(size) .. MAX_ORDER
  <2>1. ASSUME NEW o \in First(size) .. MAX_ORDER
        PROVE  (SlabSize(o) % size) * 0 <= SlabSize(o)
    <3>1. SlabSize(o) \in Nat
      BY <1>1, <2>1, SlabBytes, SlabPower, SlabDoubles
    <3>2. SlabSize(o) % size \in Int
      BY <3>1
    <3> QED BY <3>1, <3>2
  <2> QED BY <2>1 DEF Fits
<1>3. CASE First(size) <= MAX_ORDER
  <2>1. First(size) \in Fits(size, MAX_ORDER, 0)
        /\ \A p \in Fits(size, MAX_ORDER, 0) : First(size) <= p
    BY <1>1, <1>2, <1>3
  <2>2. slab_order(size, MAX_ORDER, 0) = First(size)
    BY <1>1, <2>1, SlabOrderIs
  <2> QED BY <1>3, <2>2
<1>4. CASE ~ (First(size) <= MAX_ORDER)
  <2>1. Fits(size, MAX_ORDER, 0) = {}
    BY <1>1, <1>2, <1>4
  <2>2. slab_order(size, MAX_ORDER, 0) = IF First(size) > MAX_ORDER THEN First(size)
                                         ELSE MAX_ORDER + 1
    BY <1>1, <2>1, SlabOrderIs
  <2> QED BY <1>1, <1>4, <2>2
<1> QED BY <1>3, <1>4

\* calculate_order is the reference order, if there is one.
LEMMA OrderFits ==
  ASSUME NEW size \in Nat, size > 1, size <= Words
  PROVE  IF size <= SlabSize(MAX_ORDER)
         THEN /\ calculate_order(size) = ReferenceOrder(size)
              /\ calculate_order(size) \in 0 .. MAX_ORDER
              /\ size <= SlabSize(calculate_order(size))
         ELSE calculate_order(size) > MAX_ORDER
<1> DEFINE first == First(size)
<1>1. /\ first \in Nat /\ size <= SlabSize(first) /\ MAX_ORDER = 11
      /\ \A o \in Nat : o < first => SlabSize(o) < size
  BY FirstFacts DEF MAX_ORDER
<1>2. SlabSize(0) \in Nat /\ SlabSize(1) \in Nat /\ SlabSize(11) \in Nat
  BY SlabBytes, SlabPower, SlabDoubles
<1>3. \A o \in Nat : SlabSize(o) % size \in Nat
  <2>1. \A o \in Nat : SlabSize(o) \in Nat
    BY SlabPower, Zenon
  <2> QED BY <2>1
<1>4. size <= SlabSize(MAX_ORDER) <=> first <= MAX_ORDER
  <2>1. ASSUME first <= 11 PROVE size <= SlabSize(11)
    <3>1. SlabSize(first) <= SlabSize(11) /\ SlabSize(first) \in Nat
      BY <1>1, <2>1, SlabSizesGrow, SlabBytes, SlabPower, SlabDoubles
    <3> QED BY <1>1, <1>2, <3>1
  <2>2. ASSUME ~ (first <= 11) PROVE SlabSize(11) < size
    BY <1>1, <2>2
  <2> QED BY <1>1, <1>2, <2>1, <2>2
<1>5. first <= MAX_ORDER => LeastOrder(size) = first
  <2> SUFFICES ASSUME first <= MAX_ORDER PROVE LeastOrder(size) = first
    OBVIOUS
  <2> DEFINE S == {o \in 0 .. MAX_ORDER : size <= SlabSize(o)}
  <2>1. first \in S
    BY <1>1
  <2>2. ASSUME NEW o \in S PROVE first <= o
    <3>1. o \in Nat /\ size <= SlabSize(o)
      BY <1>1
    <3>2. SlabSize(o) \in Nat
      BY <3>1, SlabBytes, SlabPower, SlabDoubles
    <3> QED BY <1>1, <3>1, <3>2
  <2>3. S \in SUBSET Nat
    BY <1>1
  <2>4. LeastOrder(size) = Min(S)
    BY DEF LeastOrder
  <2> HIDE DEF S, first
  <2> QED BY <2>1, <2>2, <2>3, <2>4, MinIs
<1>6. Fits(size, 1, 4) = {o \in first .. 1 : WastesLittle(size, o)}
  <2>1. ASSUME NEW o \in first .. 1
        PROVE  (SlabSize(o) % size) * 4 <= SlabSize(o) <=> WastesLittle(size, o)
    <3>1. SlabSize(o) % size \in Nat
      BY <1>1, <1>3, <2>1
    <3> DEFINE m == SlabSize(o) % size
    <3>2. m * 4 = 4 * m
      <4> HIDE DEF m
      <4> QED BY <3>1 DEF m
    <3> QED BY <3>2 DEF WastesLittle
  <2> QED BY <2>1 DEF Fits
<1>7. calculate_order(size) = IF slab_order(size, 1, 4) <= 1 THEN slab_order(size, 1, 4)
                              ELSE slab_order(size, MAX_ORDER, 0)
  BY DEF calculate_order
<1>8. /\ \A o \in Fits(size, 1, 4) :
           (\A p \in Fits(size, 1, 4) : o <= p) => slab_order(size, 1, 4) = o
      /\ Fits(size, 1, 4) = {} =>
           slab_order(size, 1, 4) = IF first > 1 THEN first ELSE 1 + 1
  BY <1>1, SlabOrderIs
<1>9. IF first <= MAX_ORDER THEN slab_order(size, MAX_ORDER, 0) = first
                            ELSE slab_order(size, MAX_ORDER, 0) > MAX_ORDER
  BY SecondSearch
<1>10. ReferenceOrder(size) = IF LeastOrder(size) = 0 /\ ~WastesLittle(size, 0) /\ WastesLittle(size, 1)
                              THEN 1 ELSE LeastOrder(size)
  BY DEF ReferenceOrder
<1> HIDE DEF first
<1>11. CASE first > 1
  <2>1. Fits(size, 1, 4) = {}
    BY <1>1, <1>6, <1>11
  <2>2. calculate_order(size) = slab_order(size, MAX_ORDER, 0)
    BY <1>1, <1>7, <1>8, <1>11, <2>1
  <2>3. CASE first <= MAX_ORDER
    <3>1. calculate_order(size) = first /\ ReferenceOrder(size) = first
      BY <1>1, <1>5, <1>9, <1>10, <1>11, <2>2, <2>3
    <3> QED BY <1>1, <1>4, <2>3, <3>1
  <2>4. CASE ~ (first <= MAX_ORDER)
    BY <1>4, <1>9, <2>2, <2>4
  <2> QED BY <2>3, <2>4
<1>12. CASE first = 1
  <2>1. LeastOrder(size) = 1 /\ ReferenceOrder(size) = 1 /\ size <= SlabSize(MAX_ORDER)
    BY <1>1, <1>4, <1>5, <1>10, <1>12
  <2>2. calculate_order(size) = 1
    <3>1. CASE WastesLittle(size, 1)
      <4>1. Fits(size, 1, 4) = {1}
        BY <1>6, <1>12, <3>1
      <4>2. slab_order(size, 1, 4) = 1
        BY <1>8, <4>1
      <4> QED BY <1>7, <4>2
    <3>2. CASE ~WastesLittle(size, 1)
      <4>1. Fits(size, 1, 4) = {}
        BY <1>6, <1>12, <3>2
      <4>2. slab_order(size, 1, 4) = 2
        BY <1>8, <1>12, <4>1
      <4> QED BY <1>1, <1>7, <1>9, <1>12, <4>2
    <3> QED BY <3>1, <3>2
  <2> QED BY <1>1, <1>12, <2>1, <2>2
<1>13. CASE first = 0
  <2>1. LeastOrder(size) = 0 /\ size <= SlabSize(MAX_ORDER)
    BY <1>1, <1>4, <1>5, <1>13
  <2>2. size <= SlabSize(1)
    <3>1. SlabSize(0 + 1) = 2 * SlabSize(0) /\ 0 + 1 = 1
      BY SlabBytes, SlabPower, SlabDoubles
    <3> QED BY <1>1, <1>2, <1>13, <3>1
  <2>3. CASE WastesLittle(size, 0)
    <3>1. 0 \in Fits(size, 1, 4) /\ \A p \in Fits(size, 1, 4) : 0 <= p
      BY <1>6, <1>13, <2>3
    <3>2. calculate_order(size) = 0
      BY <1>7, <1>8, <3>1
    <3> QED BY <1>1, <1>10, <1>13, <2>1, <2>3, <3>2
  <2>4. CASE ~WastesLittle(size, 0) /\ WastesLittle(size, 1)
    <3>1. Fits(size, 1, 4) = {1}
      BY <1>6, <1>13, <2>4
    <3>2. slab_order(size, 1, 4) = 1
      BY <1>8, <3>1
    <3>3. calculate_order(size) = 1
      BY <1>7, <3>2
    <3> QED BY <1>1, <1>10, <2>1, <2>2, <2>4, <3>3
  <2>5. CASE ~WastesLittle(size, 0) /\ ~WastesLittle(size, 1)
    <3>1. Fits(size, 1, 4) = {}
      BY <1>6, <1>13, <2>5
    <3>2. slab_order(size, 1, 4) = 2
      BY <1>8, <1>13, <3>1
    <3>3. calculate_order(size) = 0
      BY <1>1, <1>7, <1>9, <1>13, <3>2
    <3> QED BY <1>1, <1>10, <1>13, <2>1, <2>5, <3>3
  <2> QED BY <2>3, <2>4, <2>5
<1>14. first > 1 \/ first = 1 \/ first = 0
  BY <1>1
<1> QED BY <1>11, <1>12, <1>13, <1>14

\* A quotient.
LEMMA Quotient ==
  ASSUME NEW P \in Nat, P > 0, NEW p \in Nat
  PROVE  p \div P \in Nat /\ P * (p \div P) <= p /\ p < P * (p \div P) + P
OBVIOUS

\* The batch of calculate_freebatch: no more than 64 pages at once, and none
\* only for objects larger than that.
LEMMA BatchFits ==
  ASSUME NEW size \in Nat, size > 0
  PROVE  /\ calculate_freebatch(size) \in Nat
         /\ calculate_freebatch(size) * size <= 64 * PAGE_SIZE
         /\ calculate_freebatch(size) = 0 <=> size > 64 * PAGE_SIZE
<1> DEFINE a == (4 * PAGE_SIZE) \div size
           b == (64 * PAGE_SIZE) \div size
<1>1. PICK A, B \in Nat : A = 4 * PAGE_SIZE /\ B = 64 * PAGE_SIZE /\ A <= B
  <2>1. \A P \in Nat : 4 * P \in Nat /\ 64 * P \in Nat /\ 4 * P <= 64 * P
    OBVIOUS
  <2> QED BY <2>1, SlabBytes, SlabPower, SlabDoubles
<1>2. a \in Nat /\ size * a <= A
  BY <1>1, Quotient
<1>3. b \in Nat /\ size * b <= B /\ B < size * b + size
  BY <1>1, Quotient
<1>5. calculate_freebatch(size) = Max({a, Min({256, b})})
  BY DEF calculate_freebatch
<1> HIDE DEF a, b
<1>4. \A n \in Nat : n # 0 => size <= size * n
  <2> SUFFICES ASSUME NEW n \in Nat, n # 0 PROVE size <= size * n
    OBVIOUS
  <2>1. PICK c \in Nat : n = c + 1
    <3>1. n - 1 \in Nat /\ n = (n - 1) + 1
      OBVIOUS
    <3> QED BY <3>1
  <2>2. size * n = size * c + size /\ size * c \in Nat
    BY <2>1
  <2> QED BY <2>2
<1>6. PICK m \in Nat : m = Min({256, b}) /\ m = IF 256 <= b THEN 256 ELSE b
  BY <1>3, MinOfTwo
<1>7. calculate_freebatch(size) = IF a >= m THEN a ELSE m
  BY <1>2, <1>5, <1>6, MaxIs
<1>8. size * m <= B
  <2>1. CASE 256 <= b
    <3>1. PICK d \in Nat : b = d + 256
      <4>1. b - 256 \in Nat /\ b = (b - 256) + 256
        BY <1>3, <2>1
      <4> QED BY <4>1
    <3>2. size * b = size * d + size * 256 /\ size * d \in Nat
      BY <3>1
    <3> QED BY <1>3, <1>6, <2>1, <3>2
  <2>2. CASE ~ (256 <= b)
    BY <1>3, <1>6, <2>2
  <2> QED BY <2>1, <2>2
<1>9. m = 0 <=> size > B
  <2>1. CASE b = 0
    BY <1>3, <1>6, <2>1
  <2>2. CASE b # 0
    <3>1. size <= size * b /\ size * b \in Nat
      BY <1>3, <1>4, <2>2
    <3> QED BY <1>3, <1>6, <2>2, <3>1
  <2> QED BY <2>1, <2>2
<1>10. PICK f \in Nat : f = calculate_freebatch(size) /\ f = IF a >= m THEN a ELSE m
  BY <1>2, <1>7
<1>11. size * f <= B /\ f * size = size * f
  BY <1>1, <1>2, <1>8, <1>10
<1>12. f = 0 <=> size > B
  <2>1. CASE f = 0
    BY <1>2, <1>9, <1>10, <2>1
  <2>2. CASE f # 0
    <3>1. size <= size * f /\ size * f \in Nat
      BY <1>4, <2>2
    <3> QED BY <1>11, <2>2, <3>1
  <2> QED BY <2>1, <2>2
<1> QED BY <1>10, <1>1, <1>11, <1>12

\* align_up gives the next multiple, for the alignments there are.
Aligned(v, a, r) ==
  /\ r \in Nat /\ v <= r /\ r < v + a /\ r % a = 0
  /\ \A m \in Nat : m % 64 = 0 /\ v <= m => r <= m

LEMMA AlignTo ==
  ASSUME NEW v \in Nat, NEW a \in {8, 16, 32, 64}
  PROVE  Aligned(v, a, align_up(v, a))
<1>1. CASE a = 8
  BY <1>1 DEF align_up, Aligned
<1>2. CASE a = 16
  BY <1>2 DEF align_up, Aligned
<1>3. CASE a = 32
  BY <1>3 DEF align_up, Aligned
<1>4. CASE a = 64
  BY <1>4 DEF align_up, Aligned
<1> QED BY <1>1, <1>2, <1>3, <1>4

\* A root that the constructor can make, and calculate_order lets pass, has
\* the numbers it should.
LEMMA RootFits ==
  ASSUME NEW s \in Nat, NEW a \in {0, 8, 16, 32, 64},
         s <= SlabSize(MAX_ORDER) \/ s < SizesEnd,
         s <= SlabSize(MAX_ORDER) \/ ~TooBig(SlabAllocatorRoot(s, a))
  PROVE  ConstantsFit(SlabAllocatorRoot(s, a))
<1> DEFINE align == align_up(Max({a, WordSize}), WordSize)
           t == Max({s, WordSize})
           size == align_up(t, align)
           root == SlabAllocatorRoot(s, a)
<1>1. WordSize = 8
  BY DEF WordSize
<1>2. align \in {8, 16, 32, 64}
  <2>1. Max({a, WordSize}) = IF a = 0 THEN 8 ELSE a
    <3>1. Max({a, 8}) = IF a >= 8 THEN a ELSE 8
      BY MaxIs
    <3> QED BY <1>1, <3>1
  <2> DEFINE x == Max({a, WordSize})
  <2>2. x \in {8, 16, 32, 64} /\ align = align_up(x, 8)
    BY <1>1, <2>1
  <2> HIDE DEF x, align
  <2> QED BY <2>2 DEF align_up
<1>3. t \in Nat /\ t = IF s >= 8 THEN s ELSE 8
  BY <1>1, MaxIs
<1> HIDE DEF align, t
<1>14. Aligned(t, align, size)
  BY <1>2, <1>3, AlignTo
<1>4. /\ size \in Nat /\ t <= size /\ size < t + align /\ size % align = 0
      /\ \A m \in Nat : m % 64 = 0 /\ t <= m => size <= m
  <2> HIDE DEF size
  <2> QED BY <1>14 DEF Aligned
<1>5. /\ root.asked = s /\ root.align = align /\ root.size = size
      /\ root.order = calculate_order(size)
      /\ root.free_batch = calculate_freebatch(size)
      /\ root.hiwater = calculate_freebatch(size) * 4
  BY DEF SlabAllocatorRoot, align, t
<1> HIDE DEF size, root
<1>6. PICK M \in Nat : M = SlabSize(MAX_ORDER) /\ M % 64 = 0 /\ 8 <= M
  <2>1. PICK x \in Nat : x = 2^11
    BY PowerFacts
  <2>2. SlabSize(11) = 4096 * x /\ SlabSize(11) \in Nat /\ 4096 <= SlabSize(11)
    BY <2>1, SlabBytes, SlabPower, SlabDoubles, SlabSizesGrow DEF SlabSize
  <2>3. (4096 * x) % 64 = 0
    <3>1. 4096 * x = (64 * x) * 64 /\ 64 * x \in Nat
      OBVIOUS
    <3>2. \A y \in Nat : (y * 64) % 64 = 0
      OBVIOUS
    <3> QED BY <3>1, <3>2
  <2> QED BY <2>2, <2>3 DEF MAX_ORDER
<1>7. s <= M => size <= M
  BY <1>3, <1>4, <1>6
<1>8. size >= 8 /\ size > 1
  BY <1>3, <1>4
<1>9. size <= Words
  <2>1. CASE s < SizesEnd
    BY <1>2, <1>3, <1>4, <2>1, WordsFacts
  <2>2. CASE s <= SlabSize(MAX_ORDER)
    BY <1>4, <1>6, <1>7, <2>2, WordsFacts DEF MAX_ORDER
  <2> QED BY <2>1, <2>2
<1>10. /\ calculate_order(size) = ReferenceOrder(size)
       /\ calculate_order(size) \in 0 .. MAX_ORDER
       /\ size <= SlabSize(calculate_order(size))
  <2>1. ASSUME ~ (size <= SlabSize(MAX_ORDER)) PROVE FALSE
    <3>1. calculate_order(size) > MAX_ORDER
      BY <1>4, <1>8, <1>9, <2>1, OrderFits
    <3>2. TooBig(root)
      BY <1>5, <3>1 DEF TooBig
    <3> QED BY <1>6, <1>7, <2>1, <3>2 DEF root
  <2> QED BY <1>4, <1>8, <1>9, <2>1, OrderFits
<1>11. num_objects_per_slab(root) >= 1
  <2>1. SlabSize(calculate_order(size)) \in Nat
    BY <1>10, SlabBytes, SlabPower, SlabDoubles
  <2>2. \A P \in Nat : size <= P => P \div size >= 1
    BY <1>4, <1>8
  <2> QED BY <1>5, <1>10, <2>1, <2>2 DEF num_objects_per_slab
<1>12. /\ calculate_freebatch(size) \in Nat
       /\ calculate_freebatch(size) * size <= 64 * PAGE_SIZE
       /\ calculate_freebatch(size) = 0 <=> size > 64 * PAGE_SIZE
  BY <1>4, <1>8, BatchFits
<1>13. s <= size /\ size < s + align + 8
  BY <1>2, <1>3, <1>4
<1> QED
  BY <1>1, <1>4, <1>5, <1>10, <1>11, <1>12, <1>13 DEF ConstantsFit, root

-----------------------------------------------------------------------------
(* The invariant *)

\* Nothing exists before slab_init.
LEMMA InitRootInv == Init => RootInv
<1> SUFFICES ASSUME Init PROVE RootInv
  OBVIOUS
<1> USE DEF Init
<1>1. Idle \in Calls /\ Idle.at = "idle"
  BY DEF Idle, Calls
<1>2. TypeOK
  BY <1>1 DEF TypeOK
<1>3. BootInv
  BY <1>1, Names DEF BootInv
<1>4. SizesInv
  BY Names, SizesAsked DEF SizesInv
<1>5. CpuInv
  BY Names DEF CpuInv
<1>6. CallInv /\ SlotInv
  BY <1>1, Names DEF CallInv, SlotInv, InGet
<1>7. UntilLost
  BY <1>1, Names DEF UntilLost, CarriedInv, InSlots, Kept, ObjectsLargeEnough
<1> QED BY <1>2, <1>3, <1>4, <1>5, <1>6, <1>7 DEF RootInv

\* slab_init makes the three roots and their allocators.
LEMMA SlabInitStep == RootInv /\ slab_init => RootInv'
<1> SUFFICES ASSUME RootInv, slab_init PROVE RootInv'
  OBVIOUS
<1> USE DEF slab_init
<1>1. TypeOK /\ BootInv /\ SlotInv /\ UntilLost
  BY DEF RootInv
<1>2. \A m \in Meta : MetaRoot(m) \in Roots
  BY Names DEF MetaRoot, Meta
<1>3. \A r \in Meta : /\ r \in Kinds
                      /\ roots'[r] = SlabAllocatorRoot(SizeOf[r], AlignOf[r])
                      /\ roots'[r] \in RootValues /\ roots'[r] # None
                      /\ SizeOf[r] <= roots'[r].size
  BY Names, RootsMade, RootValue DEF Kinds
<1>4. \A r \in Others : r \in Roots /\ r \notin Meta /\ roots'[r] = None
  BY DEF Others
<1>5. \A c \in Cpus : call[c].at = "idle" /\ got[c] = {} /\ reps[c] = None
  BY <1>1 DEF BootInv
<1>6. TypeOK'
  <2>1. roots' \in [Roots -> RootValues \cup {None}]
    BY <1>3
  <2>2. cpu_allocators' \in [Roots -> [Cpus -> Roots \cup {None}]]
    BY <1>2
  <2>3. node_allocators' \in [Roots -> [Nodes -> Blocks \cup {Static, None}]]
    OBVIOUS
  <2> QED BY <1>1, <2>1, <2>2, <2>3 DEF TypeOK
<1>7. BootInv'
  BY <1>1, <1>3, <1>4, <1>5 DEF BootInv
<1>8. SizesInv'
  <2>1. \A i \in DOMAIN Classes : ClassRoots[i] \in Others
    BY SizesAsked, Names
  <2>2. \A k \in Kinds : k \in Meta \/ k \in Others
    BY Names DEF Others
  <2> QED BY <1>3, <1>4, <2>1, <2>2 DEF SizesInv
<1>9. CpuInv'
  BY <1>4, <1>5, Names DEF CpuInv
<1>10. CallInv' /\ SlotInv'
  BY <1>4, <1>5 DEF CallInv, SlotInv, InGet
<1>11. UntilLost'
  <2>1. (CarriedInv /\ InSlots /\ ObjectsLargeEnough)'
    BY <1>4, <1>5 DEF CarriedInv, InSlots, ObjectsLargeEnough
  <2>2. \A b \in Blocks : block[b] = None
    BY <1>1 DEF BootInv
  <2> QED BY <2>1, <2>2 DEF UntilLost, Kept
<1> QED BY <1>6, <1>7, <1>8, <1>9, <1>10, <1>11 DEF RootInv

\* Init makes the root of the representatives and those of the classes.
LEMMA GpInitStep == RootInv /\ GpInit => RootInv'
<1> SUFFICES ASSUME RootInv, GpInit PROVE RootInv'
  OBVIOUS
<1> USE DEF GpInit
<1>1. TypeOK /\ BootInv /\ SizesInv /\ CpuInv /\ CallInv /\ SlotInv /\ UntilLost
  BY DEF RootInv
<1>2. /\ roots'["rep"] \in RootValues /\ roots'["rep"] # None
      /\ SizeOf["rep"] <= roots'["rep"].size
  BY Names, RootsMade, RootValue DEF Kinds
<1>3. ASSUME NEW i \in DOMAIN Classes
      PROVE  LET r == ClassRoots[i] IN
             /\ r \in Others /\ roots'[r] \in RootValues /\ roots'[r] # None
             /\ Classes[i] <= roots'[r].size
  <2> DEFINE r == ClassRoots[i]
             j == CHOOSE k \in DOMAIN Classes : ClassRoots[k] = r
  <2>1. r \in Range(ClassRoots) /\ r \in Others /\ r \in Roots /\ r # "rep"
    BY SizesAsked, Names DEF Kinds
  <2>2. j = i
    <3>1. j \in DOMAIN Classes /\ ClassRoots[j] = ClassRoots[i]
      OBVIOUS
    <3> QED BY <3>1, SizesAsked, NameAssumption
  <2>3. \E k \in DOMAIN Classes : ClassRoots[k] = r
    OBVIOUS
  <2>4. roots'[r] = SlabAllocatorRoot(Classes[j], 0)
    BY <2>1, <2>3
  <2>5. roots'[r] = SlabAllocatorRoot(Classes[i], 0)
    BY <2>2, <2>4
  <2> QED BY <2>1, <2>5, SizesAsked, RootsMade, RootValue
<1>4. \A m \in Meta : roots'[m] = roots[m] /\ m \in Kinds /\ m \in Roots
  <2>1. \A m \in Meta : m # "rep" /\ ~ \E i \in DOMAIN Classes : ClassRoots[i] = m
    BY Names, SizesAsked DEF Kinds, Meta
  <2> QED BY <2>1, Names DEF Kinds
<1>5. \A r \in Roots : \/ r = "rep"
                       \/ \E i \in DOMAIN Classes : ClassRoots[i] = r
                       \/ roots'[r] = roots[r]
  OBVIOUS
<1>6. cpu_allocators["root"][Boot] = "root" /\ "root" \in Meta
  BY <1>1, RootAssumption DEF CpuInv, Meta, MetaRoot
<1>7. \A c \in Cpus : call[c].at = "idle" /\ got[c] = {} /\ reps[c] = None
  BY <1>1 DEF BootInv
<1>8. TypeOK'
  <2>1. roots' \in [Roots -> RootValues \cup {None}]
    BY <1>1, <1>2, <1>3, <1>5 DEF TypeOK
  <2>2. FromCpu(Boot, "root", SizeOf["root"]) \in [need : Nat, root_ : Roots]
    <3>1. SizeOf["root"] \in Nat /\ "root" \in Roots
      BY <1>4, <1>6, SizesAsked
    <3> QED BY <1>6, <3>1 DEF FromCpu
  <2>3. got' \in [Cpus -> SUBSET [need : Nat, root_ : Roots]]
    BY <1>1, <2>2 DEF TypeOK
  <2> QED BY <1>1, <2>1, <2>3 DEF TypeOK
<1>9. BootInv'
  <2>1. \A r \in Range(ClassRoots) : roots'[r] # None
    BY <1>3, SizesAsked
  <2>2. \A m \in Meta : roots'[m] # None
    BY <1>1, <1>4 DEF BootInv
  <2> QED BY <1>2, <2>1, <2>2 DEF BootInv
<1>10. SizesInv'
  <2>1. \A k \in Kinds : k = "rep" \/ k \in Meta
    BY DEF Kinds
  <2>2. \A k \in Kinds : SizeOf[k] <= roots'[k].size \/ roots'[k] = None
    BY <1>1, <1>2, <1>4, <2>1 DEF SizesInv
  <2> QED BY <2>2, <1>3 DEF SizesInv
<1>11. CpuInv'
  BY <1>1, <1>7 DEF CpuInv, BootInv
<1>12. CallInv' /\ SlotInv'
  BY <1>1, <1>7 DEF CallInv, SlotInv, InGet
<1>13. UntilLost'
  <2>1. ASSUME NEW c \in Cpus, NEW o \in got'[c]
        PROVE  roots'[o.root_] # None /\ o.need <= roots'[o.root_].size
    <3>1. o.need = SizeOf["root"] /\ o.root_ = "root"
      BY <1>1, <1>6, <1>7 DEF FromCpu, TypeOK
    <3> QED BY <1>1, <1>4, <1>6, <3>1, ZenonT(30) DEF BootInv, SizesInv
  <2> QED BY <1>1, <2>1 DEF UntilLost, CarriedInv, InSlots, Kept, ObjectsLargeEnough
<1> QED BY <1>8, <1>9, <1>10, <1>11, <1>12, <1>13 DEF RootInv

\* What an operation allocated is large enough.
Large(o) == roots[o.root_] # None /\ o.need <= roots[o.root_].size

Objects == [need : Nat, root_ : Roots]

\* The objects a cpu takes for itself once the system is up.
LEMMA OwnObjects ==
  ASSUME RootInv, boot = "up", NEW c \in Cpus
  PROVE  /\ \A rs : \A o \in Constructed(c, rs) : o \in Objects /\ Large(o)
         /\ \A k \in {"root", "cpu"} :
              LET o == FromCpu(c, k, SizeOf[k]) IN o \in Objects /\ Large(o)
         /\ \A k \in {"rep", "node"} :
              LET o == [need |-> SizeOf[k], root_ |-> k] IN o \in Objects /\ Large(o)
<1>1. BootInv /\ SizesInv /\ CpuInv
  BY DEF RootInv
<1>2. \A k \in Kinds : /\ k \in Roots /\ SizeOf[k] \in Nat /\ roots[k] # None
                       /\ SizeOf[k] <= roots[k].size
  BY <1>1, Names, SizesAsked DEF BootInv, SizesInv, Kinds
<1>3. \A k \in {"root", "cpu"} : cpu_allocators[k][c] = k
  BY <1>1 DEF CpuInv, Meta, MetaRoot
<1>4. {"root", "cpu", "rep", "node"} \subseteq Kinds
  BY DEF Kinds, Meta
<1>5. \A k \in {"root", "cpu", "rep", "node"} :
        LET o == [need |-> SizeOf[k], root_ |-> k] IN o \in Objects /\ Large(o)
  BY <1>2, <1>4 DEF Objects, Large
<1>6. \A k \in {"root", "cpu"} : FromCpu(c, k, SizeOf[k]) = [need |-> SizeOf[k], root_ |-> k]
  BY <1>3 DEF FromCpu
<1>7. \A rs : \A o \in Constructed(c, rs) : o = FromCpu(c, "cpu", SizeOf["cpu"])
  BY DEF Constructed
<1> QED BY <1>5, <1>6, <1>7

\* get_cpu_allocator, whoever calls it, keeps the invariant, and so does a
\* cpu that stops in it.
LEMMA MakingStep ==
  ASSUME RootInv, NEW c \in Cpus, boot = "up",
         NEW rs \in SUBSET Others, \A r \in rs : roots[r] # None,
         GetCpuAllocators(c, rs),
         UNCHANGED <<boot, roots, node_allocators, block, lost>>,
         call' \in [Cpus -> Calls],
         \A d \in Cpus : call'[d] = call[d] \/
           (call[d].at = "idle" /\ call'[d].at = "aborted"),
         reps' \in [Cpus -> {None, ClassRoots}],
         \A d \in Cpus : reps'[d] # None =>
           reps[d] # None \/ (d = c /\ Range(ClassRoots) \subseteq rs),
         got' \in [Cpus -> SUBSET Objects],
         \A d \in Cpus : \A o \in got'[d] : o \in got[d] \/ Large(o)
  PROVE  RootInv'
<1>1. TypeOK /\ BootInv /\ SizesInv /\ CpuInv /\ CallInv /\ SlotInv /\ UntilLost
  BY DEF RootInv
<1>2. \A r \in rs : r \in Roots /\ r # None /\ r \notin Meta
  BY Names DEF Others
<1>3. \A r \in Roots, d \in Cpus :
        cpu_allocators'[r][d] = IF r \in rs /\ cpu_allocators[r][c] = None /\ d = c
                                THEN r ELSE cpu_allocators[r][d]
  BY <1>1 DEF GetCpuAllocators, TypeOK
<1>4. TypeOK'
  <2>1. \A r \in Roots : cpu_allocators[r] \in [Cpus -> Roots \cup {None}]
    BY <1>1 DEF TypeOK
  <2>2. \A r \in Roots : [cpu_allocators[r] EXCEPT ![c] = r] \in [Cpus -> Roots \cup {None}]
    BY <2>1
  <2>3. cpu_allocators' \in [Roots -> [Cpus -> Roots \cup {None}]]
    BY <2>1, <2>2 DEF GetCpuAllocators
  <2> QED BY <1>1, <2>3 DEF TypeOK, Objects
<1>5. BootInv' /\ SizesInv' /\ CallInv' /\ SlotInv'
  <2>1. \A d \in Cpus : call'[d].at \in {"load", "new", "cas", "use"} => call'[d] = call[d]
    OBVIOUS
  <2> QED BY <1>1, <2>1 DEF BootInv, SizesInv, CallInv, SlotInv, InGet
<1>6. CpuInv'
  <2>1. \A m \in Meta, d \in Cpus : cpu_allocators'[m][d] = MetaRoot(m)
    BY <1>1, <1>2, <1>3, Names DEF CpuInv
  <2>2. \A r \in Others, d \in Cpus : cpu_allocators'[r][d] # None =>
          cpu_allocators'[r][d] = r /\ roots[r] # None
    BY <1>1, <1>3, Names DEF CpuInv
  <2>3. ASSUME NEW d \in Cpus, reps'[d] # None, NEW r \in Range(ClassRoots)
        PROVE  cpu_allocators'[r][d] # None
    <3>1. r \in Roots /\ r # None
      BY Names
    <3> QED BY <1>1, <1>3, <2>3, <3>1 DEF CpuInv
  <2> QED BY <2>1, <2>2, <2>3 DEF CpuInv
<1>7. UntilLost'
  <2>1. ASSUME ~lost, NEW d \in Cpus, NEW o \in got'[d] PROVE Large(o)
    BY <1>1, <2>1 DEF UntilLost, ObjectsLargeEnough, Large
  <2>2. ~lost => ObjectsLargeEnough'
    BY <2>1 DEF ObjectsLargeEnough, Large
  <2>3. ~lost => CarriedInv' /\ InSlots' /\ Kept'
    <3>1. \A d \in Cpus : call'[d].at = "cas" <=> call[d].at = "cas"
      OBVIOUS
    <3>2. \A d \in Cpus : call[d].at = "cas" => call'[d] = call[d]
      OBVIOUS
    <3> QED BY <1>1, <3>1, <3>2 DEF UntilLost, CarriedInv, InSlots, Kept
  <2> QED BY <2>2, <2>3 DEF UntilLost
<1> QED BY <1>4, <1>5, <1>6, <1>7 DEF RootInv

LEMMA MadeStep ==
  ASSUME RootInv, NEW c \in Cpus, boot = "up",
         NEW rs \in SUBSET Others, \A r \in rs : roots[r] # None,
         GetCpuAllocators(c, rs),
         UNCHANGED <<boot, roots, node_allocators, block, call, lost>>,
         reps' \in [Cpus -> {None, ClassRoots}],
         \A d \in Cpus : reps'[d] # None =>
           reps[d] # None \/ (d = c /\ Range(ClassRoots) \subseteq rs),
         got' \in [Cpus -> SUBSET Objects],
         \A d \in Cpus : \A o \in got'[d] : o \in got[d] \/ Large(o)
  PROVE  RootInv'
<1>1. call' \in [Cpus -> Calls] /\ \A d \in Cpus : call'[d] = call[d]
  BY DEF RootInv, TypeOK
<1> QED BY <1>1, MakingStep

\* HandleFault of the general purpose allocator.
LEMMA GpHandleFaultStep ==
  ASSUME RootInv, NEW c \in Cpus, GpHandleFault(c) PROVE RootInv'
<1> USE DEF GpHandleFault
<1> DEFINE rs == {"rep"} \cup Range(ClassRoots)
<1>1. boot = "up" /\ TypeOK /\ BootInv
  BY DEF Ready, RootInv
<1>2. rs \in SUBSET Others /\ \A r \in rs : roots[r] # None
  BY <1>1, Names DEF BootInv
<1>3. \A o \in got'[c] : o \in Objects /\ Large(o)
  BY <1>1, OwnObjects DEF TypeOK
<1>4. got' \in [Cpus -> SUBSET Objects] /\ \A d \in Cpus \ {c} : got'[d] = got[d]
  BY <1>1, <1>3 DEF TypeOK, Objects
<1>5. reps' \in [Cpus -> {None, ClassRoots}] /\ \A d \in Cpus \ {c} : reps'[d] = reps[d]
  BY <1>1 DEF TypeOK
<1>6. GetCpuAllocators(c, rs) /\ Range(ClassRoots) \subseteq rs
  OBVIOUS
<1> HIDE DEF rs
<1> QED BY <1>1, <1>2, <1>3, <1>4, <1>5, <1>6, MadeStep

\* A HandleFault with no memory for the representative.
LEMMA GpHandleFaultFailsStep ==
  ASSUME RootInv, NEW c \in Cpus, GpHandleFaultFails(c) PROVE RootInv'
<1> USE DEF GpHandleFaultFails
<1> DEFINE rs == {"rep"}
<1>1. boot = "up" /\ TypeOK /\ BootInv
  BY DEF Ready, RootInv
<1>2. rs \in SUBSET Others /\ \A r \in rs : roots[r] # None
  BY <1>1, Names DEF BootInv
<1> HIDE DEF rs
<1>3. \A o \in Constructed(c, rs) : o \in Objects /\ Large(o)
  BY <1>1, OwnObjects
<1>4. got' = [got EXCEPT ![c] = Constructed(c, rs)] /\ GetCpuAllocators(c, rs)
  BY DEF rs
<1>5. got' \in [Cpus -> SUBSET Objects] /\ \A d \in Cpus : \A o \in got'[d] : o \in got[d] \/ Large(o)
  BY <1>1, <1>3, <1>4 DEF TypeOK, Objects
<1> QED BY <1>1, <1>2, <1>4, <1>5, MadeStep DEF TypeOK

\* A HandleFault whose constructor throws.
LEMMA GpConstructorThrowsStep ==
  ASSUME RootInv, NEW c \in Cpus, GpConstructorThrows(c) PROVE RootInv'
<1> USE DEF GpConstructorThrows
<1> DEFINE Some(i) == {"rep"} \cup Range(SubSeq(ClassRoots, 1, i))
<1>1. boot = "up" /\ TypeOK /\ BootInv
  BY DEF Ready, RootInv
<1>2. PICK i \in 0 .. Len(ClassRoots) :
        GetCpuAllocators(c, Some(i)) /\ got' = [got EXCEPT ![c] = Constructed(c, Some(i))]
  OBVIOUS
<1>3. Range(SubSeq(ClassRoots, 1, i)) \subseteq Range(ClassRoots)
  <2> DEFINE s == SubSeq(ClassRoots, 1, i)
  <2>1. ClassRoots \in Seq(Range(ClassRoots))
    BY RootAssumption
  <2>2. DOMAIN s = 1 .. i /\ \A j \in 1 .. i : s[j] = ClassRoots[j] /\ j \in DOMAIN ClassRoots
    BY <2>1
  <2> QED BY <2>2 DEF Range
<1> DEFINE rs == Some(i)
<1>4. rs \in SUBSET Others /\ \A r \in rs : roots[r] # None
  BY <1>1, <1>3, Names DEF BootInv
<1> HIDE DEF rs
<1>5. \A o \in Constructed(c, rs) : o \in Objects /\ Large(o)
  BY <1>1, OwnObjects
<1>6. got' = [got EXCEPT ![c] = Constructed(c, rs)] /\ GetCpuAllocators(c, rs)
  BY <1>2 DEF rs
<1>7. got' \in [Cpus -> SUBSET Objects] /\ \A d \in Cpus : \A o \in got'[d] : o \in got[d] \/ Large(o)
  BY <1>1, <1>5, <1>6 DEF TypeOK, Objects
<1>8. call[c].at = "idle" /\ call \in [Cpus -> Calls] /\ call[c] \in Calls
  BY <1>1 DEF Ready, TypeOK
<1>9. [call[c] EXCEPT !.at = "aborted"] \in Calls /\ [call[c] EXCEPT !.at = "aborted"].at = "aborted"
  BY <1>8 DEF Calls
<1>10. /\ call' \in [Cpus -> Calls]
       /\ \A d \in Cpus : call'[d] = IF d = c THEN [call[c] EXCEPT !.at = "aborted"] ELSE call[d]
  BY <1>8, <1>9
<1>11. \A d \in Cpus : call'[d] = call[d] \/ (call[d].at = "idle" /\ call'[d].at = "aborted")
  BY <1>8, <1>9, <1>10
<1> QED BY <1>1, <1>4, <1>6, <1>7, <1>10, <1>11, MakingStep DEF TypeOK

\* Free of the general purpose allocator.
LEMMA GpFreeStep ==
  ASSUME RootInv, NEW c \in Cpus, GpFree(c) PROVE RootInv'
<1> USE DEF GpFree
<1>1. boot = "up" /\ TypeOK /\ BootInv
  BY DEF Ready, RootInv
<1>2. PICK d \in Cpus : \E o \in got[d] : /\ o.root_ \in Range(ClassRoots)
                                         /\ GetCpuAllocators(c, {o.root_})
                                         /\ got' = [got EXCEPT ![d] = @ \ {o}]
  OBVIOUS
<1> PICK o \in got[d] : /\ o.root_ \in Range(ClassRoots)
                        /\ GetCpuAllocators(c, {o.root_})
                        /\ got' = [got EXCEPT ![d] = @ \ {o}]
  BY <1>2
<1>3. {o.root_} \in SUBSET Others /\ \A r \in {o.root_} : roots[r] # None
  BY <1>1, <1>2, Names DEF BootInv
<1>4. \A e \in Cpus : got'[e] \subseteq got[e]
  BY <1>1, <1>2 DEF TypeOK
<1>5. got' \in [Cpus -> SUBSET Objects]
  BY <1>1, <1>2 DEF TypeOK, Objects
<1> QED BY <1>1, <1>2, <1>3, <1>4, <1>5, MadeStep DEF TypeOK

\* HandleFault of a SlabAllocator's id.
LEMMA HandleFaultStep ==
  ASSUME RootInv, NEW c \in Cpus, NEW id \in UserRoots, HandleFault(c, id) PROVE RootInv'
<1> USE DEF HandleFault
<1>1. boot = "up" /\ TypeOK
  BY DEF Ready, RootInv
<1>2. {id} \in SUBSET Others /\ \A r \in {id} : roots[r] # None
  BY Names
<1>3. \A o \in Constructed(c, {id}) : o \in Objects /\ Large(o)
  BY <1>1, OwnObjects
<1>4. got' \in [Cpus -> SUBSET Objects] /\ \A d \in Cpus : \A o \in got'[d] : o \in got[d] \/ Large(o)
  BY <1>1, <1>3 DEF TypeOK, Objects
<1> QED BY <1>1, <1>2, <1>4, MadeStep DEF TypeOK

-----------------------------------------------------------------------------
(* Allocating *)

\* Alloc of an allocator under a root that exists and is large enough.
LEMMA AllocStep ==
  ASSUME RootInv, NEW c \in Cpus, Ready(c), NEW root \in Others, NEW nid \in Nodes,
         NEW need \in Nat, cpu_allocators[root][c] # None, need <= roots[root].size,
         Alloc(c, root, nid, need),
         UNCHANGED <<boot, roots, cpu_allocators, node_allocators, block, reps, lost>>
  PROVE  RootInv'
<1> USE DEF Alloc
<1>1. TypeOK /\ BootInv /\ SizesInv /\ CpuInv /\ CallInv /\ SlotInv /\ UntilLost
  BY DEF RootInv
<1>2. boot = "up" /\ call[c].at = "idle" /\ cpu_allocators[root][c] = root
      /\ roots[root] # None /\ root \in Roots
  BY <1>1, Names DEF Ready, CpuInv
<1>3. \/ call' = call /\ got' = [got EXCEPT ![c] = {[need |-> need, root_ |-> root]}]
      \/ got' = got /\ call' = [call EXCEPT ![c] = [Idle EXCEPT !.at = "load",
                                  !.root = root, !.nid = nid, !.need = need]]
  BY <1>2 DEF FromCpu
<1> DEFINE new == [Idle EXCEPT !.at = "load", !.root = root, !.nid = nid, !.need = need]
<1>4. new \in Calls /\ new.at = "load" /\ new.root = root /\ new.nid = nid /\ new.need = need
  BY <1>2 DEF Idle, Calls
<1>5. \A d \in Cpus : \/ call'[d] = call[d]
                      \/ d = c /\ call'[d] = new
  BY <1>1, <1>3 DEF TypeOK
<1>6. \A d \in Cpus : \A o \in got'[d] : o \in got[d] \/ o = [need |-> need, root_ |-> root]
  BY <1>1, <1>3, SMTT(30) DEF TypeOK
<1>7. TypeOK'
  <2>1. call' \in [Cpus -> Calls]
    BY <1>1, <1>3, <1>4 DEF TypeOK
  <2>2. got' \in [Cpus -> SUBSET [need : Nat, root_ : Roots]]
    BY <1>1, <1>2, <1>3 DEF TypeOK
  <2> QED BY <1>1, <2>1, <2>2 DEF TypeOK
<1> HIDE DEF new, Alloc
<1>8. BootInv' /\ SizesInv' /\ CpuInv'
  BY <1>1, <1>2 DEF BootInv, SizesInv, CpuInv
<1>9. CallInv'
  BY <1>1, <1>2, <1>4, <1>5 DEF CallInv, InGet
<1>10. SlotInv'
  BY <1>1, <1>4, <1>5 DEF SlotInv
<1>11. \A d \in Cpus : (call[d].at = "cas" \/ call'[d].at = "cas") => call'[d] = call[d]
  BY <1>2, <1>4, <1>5
<1>12. UntilLost'
  <2>1. ~lost => CarriedInv' /\ InSlots'
    BY <1>1, <1>11 DEF UntilLost, CarriedInv, InSlots
  <2>2. ~lost => Kept'
    BY <1>1, <1>11 DEF UntilLost, Kept
  <2>3. ~lost => ObjectsLargeEnough'
    BY <1>1, <1>2, <1>6 DEF UntilLost, ObjectsLargeEnough
  <2> QED BY <2>1, <2>2, <2>3 DEF UntilLost
<1> QED BY <1>7, <1>8, <1>9, <1>10, <1>12 DEF RootInv

\* A call that ends, or ends in an abort, with nothing in its hands.
LEMMA LeaveStep ==
  ASSUME RootInv, boot = "up", NEW c \in Cpus, call[c].at # "cas",
         call' \in [Cpus -> Calls], \A d \in Cpus \ {c} : call'[d] = call[d],
         call'[c].at \in {"idle", "aborted", "undefined"},
         got' \in [Cpus -> SUBSET Objects],
         ~lost => \A d \in Cpus : \A o \in got'[d] : o \in got[d] \/ Large(o),
         UNCHANGED <<boot, roots, cpu_allocators, node_allocators, block, reps, lost>>
  PROVE  RootInv'
<1>1. TypeOK /\ BootInv /\ SizesInv /\ CpuInv /\ CallInv /\ SlotInv /\ UntilLost
  BY DEF RootInv
<1>2. TypeOK'
  BY <1>1 DEF TypeOK, Objects
<1>3. BootInv' /\ SizesInv' /\ CpuInv'
  BY <1>1 DEF BootInv, SizesInv, CpuInv
<1>4. \A d \in Cpus : call'[d].at \in {"load", "new", "cas", "use"} => call'[d] = call[d]
  OBVIOUS
<1>5. \A d \in Cpus : call[d].at = "cas" => call'[d] = call[d]
  OBVIOUS
<1>6. CallInv' /\ SlotInv'
  BY <1>1, <1>4 DEF CallInv, SlotInv, InGet
<1>7. UntilLost'
  <2>1. ~lost => CarriedInv' /\ InSlots'
    BY <1>1, <1>4 DEF UntilLost, CarriedInv, InSlots
  <2>2. ~lost => Kept'
    BY <1>1, <1>5 DEF UntilLost, Kept
  <2>3. ~lost => ObjectsLargeEnough'
    BY <1>1 DEF UntilLost, ObjectsLargeEnough, Large
  <2> QED BY <2>1, <2>2, <2>3 DEF UntilLost
<1> QED BY <1>2, <1>3, <1>6, <1>7 DEF RootInv

\* kbugon stops the cpu.
LEMMA AbortStep ==
  ASSUME RootInv, boot = "up", NEW c \in Cpus, call[c].at # "cas",
         call' = [call EXCEPT ![c].at = "aborted"],
         UNCHANGED <<boot, roots, cpu_allocators, node_allocators, block, reps, got, lost>>
  PROVE  RootInv'
<1>1. call \in [Cpus -> Calls] /\ got' \in [Cpus -> SUBSET Objects]
  BY DEF RootInv, TypeOK, Objects
<1>2. call[c] \in Calls
  BY <1>1
<1>3. [call[c] EXCEPT !.at = "aborted"] \in Calls
  BY <1>2 DEF Calls
<1>4. call'[c] = [call[c] EXCEPT !.at = "aborted"] /\ call' \in [Cpus -> Calls]
  BY <1>1, <1>3
<1>5. call'[c].at = "aborted"
  BY <1>2, <1>4 DEF Calls
<1> QED BY <1>1, <1>4, <1>5, LeaveStep

\* Alloc of the general purpose allocator.
LEMMA GpAllocStep ==
  ASSUME RootInv, NEW c \in Cpus, GpAlloc(c) PROVE RootInv'
<1> USE DEF GpAlloc
<1>1. TypeOK /\ BootInv /\ SizesInv /\ CpuInv /\ boot = "up" /\ call[c].at # "cas"
  BY DEF RootInv, Ready
<1>2. PICK size \in GpSizes, nid \in Nodes :
        IF indexer(size) = 0
        THEN call' = [call EXCEPT ![c].at = "aborted"] /\ UNCHANGED got
        ELSE Alloc(c, reps[c][indexer(size)], nid, size)
  OBVIOUS
<1>3. CASE indexer(size) = 0
  BY <1>1, <1>2, <1>3, AbortStep
<1>4. CASE indexer(size) # 0
  <2> DEFINE i == indexer(size)
             root == ClassRoots[i]
  <2>1. size \in Nat
    BY RootAssumption
  <2>2. i \in DOMAIN Classes /\ size <= Classes[i]
    BY <1>4, <2>1, IndexerFits
  <2>3. root \in Range(ClassRoots) /\ root \in Others
    BY <2>2, SizesAsked, Names
  <2>4. reps[c] = ClassRoots
    BY <1>1 DEF TypeOK
  <2>5. cpu_allocators[root][c] # None
    BY <1>1, <2>3 DEF CpuInv
  <2>6. roots[root] # None
    BY <1>1, <2>3 DEF BootInv
  <2>7. size <= roots[root].size
    <3>1. Classes[i] <= roots[root].size
      BY <1>1, <2>2, <2>6 DEF SizesInv
    <3>2. roots[root] \in RootValues
      BY <1>1, <2>3, <2>6, Names DEF TypeOK
    <3>3. roots[root].size \in Nat /\ Classes[i] \in Nat
      BY <2>2, <3>2, RootValue, SizesAsked
    <3> QED BY <2>1, <2>2, <3>1, <3>3
  <2>8. Alloc(c, root, nid, size)
    BY <1>2, <1>4, <2>4
  <2>9. UNCHANGED <<boot, roots, cpu_allocators, node_allocators, block, reps, lost>> /\ Ready(c)
    OBVIOUS
  <2> HIDE DEF root
  <2> QED BY <2>1, <2>3, <2>5, <2>7, <2>8, <2>9, AllocStep
<1> QED BY <1>3, <1>4

\* Alloc of a SlabAllocator made by Construct.
LEMMA UserAllocStep ==
  ASSUME RootInv, NEW c \in Cpus, NEW id \in UserRoots, UserAlloc(c, id) PROVE RootInv'
<1> USE DEF UserAlloc
<1>1. TypeOK /\ CpuInv
  BY DEF RootInv
<1>2. id \in Others /\ id \in Roots
  BY Names
<1>3. roots[id] # None /\ roots[id] \in RootValues
  BY <1>1, <1>2 DEF CpuInv, TypeOK
<1>4. roots[id].asked \in Nat /\ roots[id].asked <= roots[id].size
  BY <1>3, RootValue
<1> QED BY <1>2, <1>4, AllocStep

\* Construct makes a root of its own.
LEMMA ConstructStep ==
  ASSUME RootInv, NEW c \in Cpus, NEW id \in UserRoots, NEW size \in UserSizes,
         Construct(c, id, size)
  PROVE  RootInv'
<1> USE DEF Construct
<1> DEFINE root == SlabAllocatorRoot(size, 0)
<1>1. TypeOK /\ BootInv /\ SizesInv /\ CpuInv /\ CallInv /\ SlotInv /\ UntilLost
      /\ boot = "up" /\ call[c].at # "cas"
  BY DEF RootInv, Ready
<1>2. CASE TooBig(root)
  BY <1>1, <1>2, AbortStep
<1>3. CASE ~TooBig(root)
  <2>1. root \in RootValues /\ root # None
    BY RootsMade, RootValue
  <2> HIDE DEF root
  <2>2. /\ roots' = [roots EXCEPT ![id] = root] /\ roots[id] = None
        /\ got' = [got EXCEPT ![c] = {FromCpu(c, "root", SizeOf["root"])}]
        /\ UNCHANGED <<boot, cpu_allocators, node_allocators, block, reps, call, lost>>
    BY <1>3 DEF root
  <2> HIDE DEF Construct
  <2>3. \A r \in Roots : roots[r] # None => roots'[r] = roots[r] /\ roots'[r] # None
    BY <1>1, <2>2 DEF TypeOK
  <2>4. \A r \in Roots \ {id} : roots'[r] = roots[r]
    BY <1>1, <2>2 DEF TypeOK
  <2>5. FromCpu(c, "root", SizeOf["root"]) \in Objects /\ Large(FromCpu(c, "root", SizeOf["root"]))
    BY <1>1, OwnObjects
  <2>6. TypeOK'
    <3>1. roots' \in [Roots -> RootValues \cup {None}]
      BY <1>1, <2>1, <2>2 DEF TypeOK
    <3>2. got' \in [Cpus -> SUBSET Objects]
      BY <1>1, <2>2, <2>5 DEF TypeOK, Objects
    <3> QED BY <1>1, <2>2, <3>1, <3>2 DEF TypeOK, Objects
  <2>7. BootInv'
    <3>1. Meta \subseteq Roots /\ {"rep"} \cup Range(ClassRoots) \subseteq Roots
      BY Names
    <3> QED BY <1>1, <2>2, <2>3, <3>1 DEF BootInv
  <2>8. SizesInv'
    <3>1. \A k \in Kinds : k \in Roots \ {id}
      BY Names
    <3>2. \A i \in DOMAIN Classes : ClassRoots[i] \in Roots \ {id}
      BY SizesAsked, Names
    <3> QED BY <1>1, <2>4, <3>1, <3>2 DEF SizesInv
  <2>9. CpuInv' /\ CallInv' /\ SlotInv'
    BY <1>1, <2>2, <2>3, Names DEF CpuInv, CallInv, SlotInv, InGet
  <2>10. UntilLost'
    <3>1. ASSUME ~lost, NEW d \in Cpus, NEW o \in got'[d] PROVE Large(o) /\ o.root_ \in Roots
      <4>1. CASE d = c
        BY <1>1, <2>2, <2>5, <4>1 DEF TypeOK, Objects
      <4>2. CASE d # c
        BY <1>1, <2>2, <3>1, <4>2 DEF TypeOK, UntilLost, ObjectsLargeEnough, Large
      <4> QED BY <4>1, <4>2
    <3>2. ~lost => ObjectsLargeEnough'
      BY <2>3, <3>1 DEF ObjectsLargeEnough, Large
    <3>3. ~lost => CarriedInv' /\ InSlots' /\ Kept'
      BY <1>1, <2>2 DEF UntilLost, CarriedInv, InSlots, Kept
    <3> QED BY <2>2, <3>2, <3>3 DEF UntilLost
  <2> QED BY <2>6, <2>7, <2>8, <2>9, <2>10 DEF RootInv
<1> QED BY <1>2, <1>3

-----------------------------------------------------------------------------
(* get_node_allocator *)

\* A call that goes on keeps what it is for.
LEMMA GoOnFacts ==
  ASSUME RootInv, NEW c \in Cpus, NEW at \in {"new", "cas", "use"},
         NEW allocator \in Blocks \cup {Static, None}, NEW new \in Blocks \cup {None},
         GoOn(c, at, allocator, new)
  PROVE  /\ call' \in [Cpus -> Calls]
         /\ \A d \in Cpus \ {c} : call'[d] = call[d]
         /\ call'[c].at = at /\ call'[c].allocator = allocator /\ call'[c].new_allocator = new
         /\ call'[c].root = call[c].root /\ call'[c].nid = call[c].nid
         /\ call'[c].need = call[c].need
<1>1. call \in [Cpus -> Calls]
  BY DEF RootInv, TypeOK
<1>2. call[c] \in Calls
  BY <1>1
<1> DEFINE k == [call[c] EXCEPT !.at = at, !.allocator = allocator, !.new_allocator = new]
<1>3. call' = [call EXCEPT ![c] = k]
  BY <1>1, <1>2 DEF GoOn
<1>4. /\ k \in Calls /\ k.at = at /\ k.allocator = allocator /\ k.new_allocator = new
      /\ k.root = call[c].root /\ k.nid = call[c].nid /\ k.need = call[c].need
  BY <1>2 DEF Calls
<1> HIDE DEF k
<1> QED BY <1>1, <1>3, <1>4

\* The load of the slot.
LEMMA LoadStep ==
  ASSUME RootInv, NEW c \in Cpus, LoadNodeAllocator(c) PROVE RootInv'
<1> USE DEF LoadNodeAllocator
<1> DEFINE found == node_allocators[call[c].root][call[c].nid]
           at == IF found = None THEN "new" ELSE "use"
<1>1. TypeOK /\ BootInv /\ SizesInv /\ CpuInv /\ CallInv /\ SlotInv /\ UntilLost
      /\ boot = "up"
  BY DEF RootInv, BootInv
<1>2. call[c].root \in Others /\ call[c].nid \in Nodes
  BY <1>1 DEF CallInv, InGet
<1>3. found \in Blocks \cup {None}
  BY <1>1, <1>2 DEF SlotInv
<1>4. GoOn(c, at, found, None)
  OBVIOUS
<1>5. at \in {"new", "use"} /\ (at = "use" => found # None)
  OBVIOUS
<1> HIDE DEF at
<1>6. /\ call' \in [Cpus -> Calls]
      /\ \A d \in Cpus \ {c} : call'[d] = call[d]
      /\ call'[c].at = at /\ call'[c].allocator = found
      /\ call'[c].root = call[c].root /\ call'[c].nid = call[c].nid
      /\ call'[c].need = call[c].need
  <2> HIDE DEF found, LoadNodeAllocator
  <2>1. PICK a, f : a = at /\ f = found
    OBVIOUS
  <2>2. a \in {"new", "cas", "use"} /\ f \in Blocks \cup {Static, None} /\ GoOn(c, a, f, None)
    BY <1>3, <1>4, <1>5, <2>1
  <2> QED BY <2>1, <2>2, GoOnFacts
<1>7. UNCHANGED <<boot, roots, cpu_allocators, node_allocators, block, reps, got, lost>>
      /\ call[c].at = "load"
  OBVIOUS
<1> HIDE DEF LoadNodeAllocator
<1>8. TypeOK'
  BY <1>1, <1>6, <1>7 DEF TypeOK
<1>9. BootInv' /\ SizesInv' /\ CpuInv'
  BY <1>1, <1>7 DEF BootInv, SizesInv, CpuInv
<1>10. CallInv'
  BY <1>1, <1>6, <1>7 DEF CallInv, InGet
<1>11. SlotInv'
  <2>1. \A r \in Others, n \in Nodes : node_allocators'[r][n] \in Blocks \cup {None}
    BY <1>1, <1>7 DEF SlotInv
  <2>2. \A d \in Cpus : call'[d].at = "use" =>
          /\ call'[d].allocator # None
          /\ call'[d].allocator = node_allocators'[call'[d].root][call'[d].nid]
    BY <1>1, <1>5, <1>6, <1>7 DEF SlotInv
  <2>3. \A d \in Cpus : call'[d].at = "cas" => call'[d].new_allocator \in Blocks
    BY <1>1, <1>5, <1>6, <1>7 DEF SlotInv
  <2> QED BY <2>1, <2>2, <2>3 DEF SlotInv
<1>12. \A d \in Cpus : (call[d].at = "cas" \/ call'[d].at = "cas") => call'[d] = call[d]
  BY <1>5, <1>6, <1>7
<1>13. UntilLost'
  <2>1. ~lost => CarriedInv' /\ InSlots'
    BY <1>1, <1>7, <1>12 DEF UntilLost, CarriedInv, InSlots
  <2>2. ~lost => Kept'
    BY <1>1, <1>7, <1>12 DEF UntilLost, Kept
  <2>3. ~lost => ObjectsLargeEnough'
    BY <1>1, <1>7 DEF UntilLost, ObjectsLargeEnough
  <2> QED BY <1>7, <2>1, <2>2, <2>3 DEF UntilLost
<1> QED BY <1>8, <1>9, <1>10, <1>11, <1>13 DEF RootInv

\* The new of a SlabAllocatorNode: the block is nobody else's.
LEMMA NewStep ==
  ASSUME RootInv, NEW c \in Cpus, NewNodeAllocator(c) PROVE RootInv'
<1> USE DEF NewNodeAllocator
<1>1. TypeOK /\ BootInv /\ SizesInv /\ CpuInv /\ CallInv /\ SlotInv /\ UntilLost
      /\ boot = "up"
  BY DEF RootInv, BootInv
<1>2. call[c].root \in Others /\ call[c].root \in Roots /\ call[c].nid \in Nodes
  BY <1>1, Names DEF CallInv, InGet
<1> DEFINE made == [root_ |-> call[c].root, nid_ |-> call[c].nid]
           o == [need |-> SizeOf["node"], root_ |-> "node"]
<1>3. PICK b \in Blocks : /\ block[b] = None
                          /\ block' = [block EXCEPT ![b] = made]
                          /\ GoOn(c, "cas", None, b)
  OBVIOUS
<1>4. /\ call' \in [Cpus -> Calls]
      /\ \A d \in Cpus \ {c} : call'[d] = call[d]
      /\ call'[c].at = "cas" /\ call'[c].new_allocator = b
      /\ call'[c].root = call[c].root /\ call'[c].nid = call[c].nid
      /\ call'[c].need = call[c].need
  BY <1>3, GoOnFacts
<1>5. /\ UNCHANGED <<boot, roots, cpu_allocators, node_allocators, reps, lost>>
      /\ call[c].at = "new" /\ got' = [got EXCEPT ![c] = {o}]
  OBVIOUS
<1>6. made \in [root_ : Roots, nid_ : Nodes] /\ made # None
  BY <1>2, Names
<1>7. /\ \A e \in Blocks \ {b} : block'[e] = block[e]
      /\ block'[b] = made
      /\ block' \in [Blocks -> [root_ : Roots, nid_ : Nodes] \cup {None}]
  BY <1>1, <1>3, <1>6 DEF TypeOK
<1>8. o \in Objects /\ Large(o)
  BY <1>1, OwnObjects
<1> HIDE DEF NewNodeAllocator, o
<1>9. TypeOK'
  <2>1. got' \in [Cpus -> SUBSET Objects]
    BY <1>1, <1>5, <1>8 DEF TypeOK, Objects
  <2> QED BY <1>1, <1>4, <1>5, <1>7, <2>1 DEF TypeOK, Objects
<1>10. BootInv' /\ SizesInv' /\ CpuInv'
  BY <1>1, <1>5 DEF BootInv, SizesInv, CpuInv
<1>11. CallInv'
  BY <1>1, <1>4, <1>5 DEF CallInv, InGet
<1>12. SlotInv'
  BY <1>1, <1>4, <1>5 DEF SlotInv
<1>13. ASSUME ~lost PROVE CarriedInv' /\ InSlots' /\ Kept' /\ ObjectsLargeEnough'
  <2>1. CarriedInv /\ InSlots /\ Kept /\ ObjectsLargeEnough
    BY <1>1, <1>13 DEF UntilLost
  <2>2. \A d \in Cpus : call[d].at = "cas" =>
          /\ call[d].new_allocator # b /\ call[d].new_allocator \in Blocks
          /\ call'[d] = call[d]
    <3> SUFFICES ASSUME NEW d \in Cpus, call[d].at = "cas"
                 PROVE  call[d].new_allocator # b /\ call[d].new_allocator \in Blocks
                        /\ d # c
      BY <1>4
    <3>1. call[d].root \in Roots /\ call[d].nid \in Nodes
      BY <1>1, Names DEF CallInv, InGet
    <3>2. block[call[d].new_allocator] # None
      BY <2>1, <3>1, Names, ZenonT(30) DEF CarriedInv
    <3> QED BY <1>1, <1>3, <1>5, <3>2 DEF SlotInv
  <2>3. CarriedInv'
    <3> SUFFICES ASSUME NEW d \in Cpus, call'[d].at = "cas"
                 PROVE  /\ block'[call'[d].new_allocator]
                             = [root_ |-> call'[d].root, nid_ |-> call'[d].nid]
                        /\ \A e \in Cpus : call'[e].at = "cas" /\
                             call'[e].new_allocator = call'[d].new_allocator => e = d
      BY DEF CarriedInv
    <3>1. CASE d = c
      <4>1. \A e \in Cpus \ {c} : call'[e].at = "cas" => call'[e].new_allocator # b
        BY <1>4, <2>2
      <4> QED BY <1>4, <1>7, <3>1, <4>1
    <3>2. CASE d # c
      <4>1. call'[d] = call[d] /\ call[d].new_allocator # b /\ call[d].new_allocator \in Blocks
            /\ call[d].at = "cas"
        BY <1>4, <2>2, <3>2
      <4>2. block'[call'[d].new_allocator] = [root_ |-> call'[d].root, nid_ |-> call'[d].nid]
        BY <1>7, <2>1, <4>1 DEF CarriedInv
      <4>3. ASSUME NEW e \in Cpus, call'[e].at = "cas",
                   call'[e].new_allocator = call'[d].new_allocator
            PROVE  e = d
        <5>1. e # c
          BY <1>4, <4>1, <4>3
        <5> QED BY <1>4, <2>1, <4>1, <4>3, <5>1 DEF CarriedInv
      <4> QED BY <4>2, <4>3
    <3> QED BY <3>1, <3>2
  <2>4. InSlots'
    <3> SUFFICES ASSUME NEW r \in Others, NEW n \in Nodes, node_allocators[r][n] # None
                 PROVE  block'[node_allocators[r][n]] = [root_ |-> r, nid_ |-> n]
      BY <1>5 DEF InSlots
    <3>1. block[node_allocators[r][n]] = [root_ |-> r, nid_ |-> n]
      BY <2>1 DEF InSlots
    <3>2. node_allocators[r][n] \in Blocks /\ node_allocators[r][n] # b
      BY <1>1, <1>3, <3>1, Names DEF SlotInv
    <3> QED BY <1>7, <3>1, <3>2
  <2>5. Kept'
    <3> SUFFICES ASSUME NEW e \in Blocks, block'[e] # None
                 PROVE  \/ node_allocators[block'[e].root_][block'[e].nid_] = e
                        \/ \E d \in Cpus : call'[d].at = "cas" /\ call'[d].new_allocator = e
      BY <1>5 DEF Kept
    <3>1. CASE e = b
      BY <1>4, <3>1
    <3>2. CASE e # b
      <4>1. block'[e] = block[e] /\ block[e] # None
        BY <1>7, <3>2
      <4>2. CASE \E d \in Cpus : call[d].at = "cas" /\ call[d].new_allocator = e
        BY <2>2, <4>2
      <4> QED BY <2>1, <4>1, <4>2 DEF Kept
    <3> QED BY <3>1, <3>2
  <2>6. ObjectsLargeEnough'
    <3>1. \A d \in Cpus : \A p \in got'[d] : p \in got[d] \/ p = o
      BY <1>1, <1>5 DEF TypeOK
    <3> QED BY <1>5, <1>8, <1>13, <2>1, <3>1 DEF ObjectsLargeEnough, Large
  <2> QED BY <2>3, <2>4, <2>5, <2>6
<1>14. UntilLost'
  BY <1>5, <1>13 DEF UntilLost
<1> QED BY <1>9, <1>10, <1>11, <1>12, <1>14 DEF RootInv

\* The new that runs out of memory.
LEMMA NewFailsStep ==
  ASSUME RootInv, NEW c \in Cpus, NewNodeAllocatorFails(c) PROVE RootInv'
<1> USE DEF NewNodeAllocatorFails
<1>1. TypeOK /\ boot = "up" /\ call[c].at # "cas"
  BY DEF RootInv, BootInv
<1>2. Idle \in Calls /\ Idle.at = "idle"
  BY DEF Idle, Calls
<1>3. /\ call' \in [Cpus -> Calls] /\ call'[c].at = "idle"
      /\ \A d \in Cpus \ {c} : call'[d] = call[d]
  BY <1>1, <1>2 DEF TypeOK
<1>4. got' \in [Cpus -> SUBSET Objects]
  BY <1>1 DEF TypeOK, Objects
<1> QED BY <1>1, <1>3, <1>4, LeaveStep

\* A compare_exchange_strong that finds the slot empty fills it.
LEMMA StoreStep ==
  ASSUME RootInv, NEW c \in Cpus, call[c].at = "cas",
         node_allocators[call[c].root][call[c].nid] = None, StoreNodeAllocator(c),
         UNCHANGED <<boot, roots, cpu_allocators, reps, got>>
  PROVE  RootInv'
<1> USE DEF StoreNodeAllocator
<1>1. TypeOK /\ BootInv /\ SizesInv /\ CpuInv /\ CallInv /\ SlotInv /\ UntilLost
      /\ boot = "up"
  BY DEF RootInv, BootInv
<1>2. PICK b, q, m : b = call[c].new_allocator /\ q = call[c].root /\ m = call[c].nid
  OBVIOUS
<1>3. q \in Others /\ q \in Roots /\ m \in Nodes /\ b \in Blocks /\ b # None
  BY <1>1, <1>2, Names DEF CallInv, InGet, SlotInv
<1>4. /\ call' \in [Cpus -> Calls]
      /\ \A d \in Cpus \ {c} : call'[d] = call[d]
      /\ call'[c].at = "use" /\ call'[c].allocator = b
      /\ call'[c].root = q /\ call'[c].nid = m
      /\ call'[c].need = call[c].need
  BY <1>2, <1>3, GoOnFacts
<1>5. UNCHANGED <<boot, roots, cpu_allocators, reps, got, block, lost>>
  OBVIOUS
<1>6. /\ node_allocators' \in [Roots -> [Nodes -> Blocks \cup {Static, None}]]
      /\ \A r \in Roots, n \in Nodes :
           node_allocators'[r][n] = IF r = q /\ n = m THEN b ELSE node_allocators[r][n]
  <2>1. node_allocators' = [node_allocators EXCEPT ![q][m] = b]
    BY <1>2
  <2>2. node_allocators[q] \in [Nodes -> Blocks \cup {Static, None}]
    BY <1>1, <1>3 DEF TypeOK
  <2> DEFINE slots == [node_allocators[q] EXCEPT ![m] = b]
  <2>3. /\ slots \in [Nodes -> Blocks \cup {Static, None}]
        /\ \A n \in Nodes : slots[n] = IF n = m THEN b ELSE node_allocators[q][n]
    BY <1>3, <2>2
  <2>4. node_allocators' = [node_allocators EXCEPT ![q] = slots]
    BY <1>1, <1>3, <2>1 DEF TypeOK
  <2> HIDE DEF slots
  <2> QED BY <1>1, <1>3, <2>3, <2>4 DEF TypeOK
<1>7. node_allocators[q][m] = None
  BY <1>2
<1> HIDE DEF StoreNodeAllocator
<1>8. TypeOK'
  BY <1>1, <1>4, <1>5, <1>6 DEF TypeOK
<1>9. BootInv' /\ SizesInv' /\ CpuInv'
  BY <1>1, <1>5 DEF BootInv, SizesInv, CpuInv
<1>10. CallInv'
  BY <1>1, <1>2, <1>4, <1>5 DEF CallInv, InGet
<1>11. \A r \in Others : r \in Roots
  BY Names
<1>12. SlotInv'
  <2>1. \A r \in Others, n \in Nodes : node_allocators'[r][n] \in Blocks \cup {None}
    BY <1>1, <1>3, <1>6, <1>11 DEF SlotInv
  <2>2. ASSUME NEW d \in Cpus, call'[d].at = "use"
        PROVE  /\ call'[d].allocator # None
               /\ call'[d].allocator = node_allocators'[call'[d].root][call'[d].nid]
    <3>1. CASE d = c
      BY <1>3, <1>4, <1>6, <3>1
    <3>2. CASE d # c
      <4>1. call'[d] = call[d] /\ call[d].root \in Roots /\ call[d].nid \in Nodes
        BY <1>1, <1>4, <1>11, <2>2, <3>2 DEF CallInv, InGet
      <4>2. call[d].allocator # None
            /\ call[d].allocator = node_allocators[call[d].root][call[d].nid]
        BY <1>1, <2>2, <4>1 DEF SlotInv
      <4> QED BY <1>6, <1>7, <4>1, <4>2
    <3> QED BY <3>1, <3>2
  <2>3. \A d \in Cpus : call'[d].at = "cas" => call'[d].new_allocator \in Blocks
    BY <1>1, <1>4 DEF SlotInv
  <2> QED BY <2>1, <2>2, <2>3 DEF SlotInv
<1>13. ASSUME ~lost PROVE CarriedInv' /\ InSlots' /\ Kept' /\ ObjectsLargeEnough'
  <2>1. CarriedInv /\ InSlots /\ Kept /\ ObjectsLargeEnough
    BY <1>1, <1>13 DEF UntilLost
  <2>2. \A d \in Cpus : call'[d].at = "cas" => call'[d] = call[d]
    BY <1>4
  <2>3. CarriedInv'
    BY <1>5, <2>1, <2>2 DEF CarriedInv
  <2>4. block[b] = [root_ |-> q, nid_ |-> m]
    BY <1>2, <2>1 DEF CarriedInv
  <2>5. InSlots'
    BY <1>5, <1>6, <1>11, <2>1, <2>4 DEF InSlots
  <2>6. Kept'
    <3> SUFFICES ASSUME NEW e \in Blocks, block[e] # None
                 PROVE  \/ node_allocators'[block[e].root_][block[e].nid_] = e
                        \/ \E d \in Cpus : call'[d].at = "cas" /\ call'[d].new_allocator = e
      BY <1>5 DEF Kept
    <3>1. CASE e = b
      BY <1>3, <1>6, <2>4, <3>1
    <3>2. CASE e # b
      <4>1. CASE \E d \in Cpus : call[d].at = "cas" /\ call[d].new_allocator = e
        <5>1. PICK d \in Cpus : call[d].at = "cas" /\ call[d].new_allocator = e
          BY <4>1
        <5>2. d # c
          BY <1>2, <3>2, <5>1
        <5> QED BY <1>4, <5>1, <5>2
      <4>2. CASE node_allocators[block[e].root_][block[e].nid_] = e
        <5>1. block[e].root_ \in Roots /\ block[e].nid_ \in Nodes
          BY <1>1 DEF TypeOK
        <5>2. e # None
          BY Names
        <5> QED BY <1>6, <1>7, <4>2, <5>1, <5>2
      <4> QED BY <2>1, <4>1, <4>2 DEF Kept
    <3> QED BY <3>1, <3>2
  <2>7. ObjectsLargeEnough'
    BY <1>5, <2>1 DEF ObjectsLargeEnough
  <2> QED BY <2>3, <2>5, <2>6, <2>7
<1>14. UntilLost'
  BY <1>5, <1>13 DEF UntilLost
<1> QED BY <1>8, <1>9, <1>10, <1>12, <1>14 DEF RootInv

\* A compare_exchange_strong that is lost deletes the allocator it found, and
\* goes on with it: the slot still holds what everyone uses.
LEMMA LostStep ==
  ASSUME RootInv, NEW c \in Cpus, call[c].at = "cas", NEW found,
         found = node_allocators[call[c].root][call[c].nid], found # None,
         block' = [block EXCEPT ![found] = None], GoOn(c, "use", found, None), lost' = TRUE,
         UNCHANGED <<boot, roots, cpu_allocators, node_allocators, reps, got>>
  PROVE  RootInv'
<1>1. TypeOK /\ BootInv /\ SizesInv /\ CpuInv /\ CallInv /\ SlotInv /\ boot = "up"
  BY DEF RootInv, BootInv
<1>2. call[c].root \in Others /\ call[c].nid \in Nodes
  BY <1>1 DEF CallInv, InGet
<1>3. found \in Blocks
  BY <1>1, <1>2 DEF SlotInv
<1>4. /\ call' \in [Cpus -> Calls]
      /\ \A d \in Cpus \ {c} : call'[d] = call[d]
      /\ call'[c].at = "use" /\ call'[c].allocator = found
      /\ call'[c].root = call[c].root /\ call'[c].nid = call[c].nid
      /\ call'[c].need = call[c].need
  BY <1>3, GoOnFacts
<1>5. TypeOK'
  <2>1. block' \in [Blocks -> [root_ : Roots, nid_ : Nodes] \cup {None}]
    BY <1>1, <1>3 DEF TypeOK
  <2> QED BY <1>1, <1>4, <2>1 DEF TypeOK
<1>6. BootInv' /\ SizesInv' /\ CpuInv'
  BY <1>1 DEF BootInv, SizesInv, CpuInv
<1>7. CallInv'
  BY <1>1, <1>4 DEF CallInv, InGet
<1>8. SlotInv'
  BY <1>1, <1>4 DEF SlotInv
<1>9. UntilLost'
  BY DEF UntilLost
<1> QED BY <1>5, <1>6, <1>7, <1>8, <1>9 DEF RootInv

\* The compare_exchange_strong.
LEMMA InstallStep ==
  ASSUME RootInv, NEW c \in Cpus, InstallNodeAllocator(c) PROVE RootInv'
<1> USE DEF InstallNodeAllocator, ExchangeNodeAllocator
<1>1. PICK found : found = node_allocators[call[c].root][call[c].nid]
  OBVIOUS
<1>2. CASE found = None
  BY <1>1, <1>2, StoreStep
<1>3. CASE found # None
  BY <1>1, <1>3, LostStep
<1> QED BY <1>2, <1>3

\* The object of the node's allocator is one of the root that was asked.
LEMMA UseStep ==
  ASSUME RootInv, NEW c \in Cpus, AllocFromNode(c) PROVE RootInv'
<1> USE DEF AllocFromNode
<1>1. TypeOK /\ CallInv /\ SlotInv /\ UntilLost /\ boot = "up" /\ call[c].at # "cas"
  BY DEF RootInv, BootInv
<1>2. call[c] \in Calls /\ call[c].allocator \in Blocks
  <2>1. call[c].root \in Others /\ call[c].nid \in Nodes
    BY <1>1 DEF CallInv, InGet
  <2> QED BY <1>1, <2>1 DEF SlotInv, TypeOK
<1>3. CASE block[call[c].allocator] = None
  <2>1. [call[c] EXCEPT !.at = "undefined"] \in Calls
    BY <1>2 DEF Calls
  <2>2. call' = [call EXCEPT ![c].at = "undefined"] /\ got' = got
    BY <1>3
  <2>3. /\ call' \in [Cpus -> Calls] /\ call'[c].at = "undefined"
        /\ \A d \in Cpus \ {c} : call'[d] = call[d]
    <3>1. call'[c] = [call[c] EXCEPT !.at = "undefined"] /\ call' \in [Cpus -> Calls]
      BY <1>1, <2>1, <2>2 DEF TypeOK
    <3> QED BY <1>1, <1>2, <2>2, <3>1 DEF TypeOK, Calls
  <2>4. got' \in [Cpus -> SUBSET Objects]
    BY <1>1, <2>2 DEF TypeOK, Objects
  <2> QED BY <1>1, <2>2, <2>3, <2>4, LeaveStep
<1>4. CASE block[call[c].allocator] # None
  <2> DEFINE o == [need |-> call[c].need, root_ |-> block[call[c].allocator].root_]
  <2>1. call' = [call EXCEPT ![c] = Idle] /\ got' = [got EXCEPT ![c] = {o}]
    BY <1>4
  <2>2. Idle \in Calls /\ Idle.at = "idle"
    BY DEF Idle, Calls
  <2>3. /\ call' \in [Cpus -> Calls] /\ call'[c].at = "idle"
        /\ \A d \in Cpus \ {c} : call'[d] = call[d]
    BY <1>1, <2>1, <2>2 DEF TypeOK
  <2>4. o \in Objects
    <3>1. block[call[c].allocator] \in [root_ : Roots, nid_ : Nodes]
      BY <1>1, <1>2, <1>4 DEF TypeOK
    <3> QED BY <1>2, <3>1 DEF Calls, Objects
  <2>5. ~lost => Large(o)
    <3> SUFFICES ASSUME ~lost PROVE Large(o)
      OBVIOUS
    <3>1. /\ call[c].root \in Others /\ call[c].nid \in Nodes
          /\ roots[call[c].root] # None /\ call[c].need <= roots[call[c].root].size
      BY <1>1 DEF CallInv, InGet
    <3>2. call[c].allocator = node_allocators[call[c].root][call[c].nid]
          /\ call[c].allocator # None
      BY <1>1 DEF SlotInv
    <3>3. block[call[c].allocator] = [root_ |-> call[c].root, nid_ |-> call[c].nid]
      BY <1>1, <3>1, <3>2 DEF UntilLost, InSlots
    <3>4. block[call[c].allocator].root_ = call[c].root
      BY <3>3
    <3> QED BY <3>1, <3>4 DEF Large
  <2> HIDE DEF o
  <2>6. /\ got' \in [Cpus -> SUBSET Objects]
        /\ ~lost => \A d \in Cpus : \A p \in got'[d] : p \in got[d] \/ Large(p)
    BY <1>1, <2>1, <2>4, <2>5 DEF TypeOK, Objects
  <2> QED BY <1>1, <2>3, <2>6, LeaveStep
<1> QED BY <1>3, <1>4

\* RootInv is inductive.
LEMMA RootStep == RootInv /\ [Next]_rootVars => RootInv'
<1> SUFFICES ASSUME RootInv, [Next]_rootVars PROVE RootInv'
  OBVIOUS
<1>1. CASE slab_init
  BY <1>1, SlabInitStep
<1>2. CASE GpInit
  BY <1>2, GpInitStep
<1>3. ASSUME NEW c \in Cpus, \/ GpHandleFault(c) \/ GpHandleFaultFails(c)
                             \/ GpConstructorThrows(c) \/ GpFree(c)
      PROVE  RootInv'
  BY <1>3, GpHandleFaultStep, GpHandleFaultFailsStep, GpConstructorThrowsStep, GpFreeStep
<1>4. ASSUME NEW c \in Cpus, GpAlloc(c) PROVE RootInv'
  BY <1>4, GpAllocStep
<1>5. ASSUME NEW c \in Cpus, NEW id \in UserRoots, NEW size \in UserSizes,
             Construct(c, id, size)
      PROVE  RootInv'
  BY <1>5, ConstructStep
<1>6. ASSUME NEW c \in Cpus, NEW id \in UserRoots, HandleFault(c, id) \/ UserAlloc(c, id)
      PROVE  RootInv'
  BY <1>6, HandleFaultStep, UserAllocStep
<1>7. ASSUME NEW c \in Cpus,
             \/ LoadNodeAllocator(c) \/ NewNodeAllocator(c) \/ NewNodeAllocatorFails(c)
             \/ InstallNodeAllocator(c) \/ AllocFromNode(c)
      PROVE  RootInv'
  BY <1>7, LoadStep, NewStep, NewFailsStep, InstallStep, UseStep
<1>8. CASE UNCHANGED rootVars
  <2>1. TypeOK' /\ BootInv' /\ SizesInv' /\ CpuInv' /\ CallInv' /\ SlotInv'
    BY <1>8 DEF rootVars, RootInv, TypeOK, BootInv, SizesInv, CpuInv, CallInv, SlotInv, InGet
  <2>2. UntilLost'
    BY <1>8 DEF rootVars, RootInv, UntilLost, CarriedInv, InSlots, Kept, ObjectsLargeEnough
  <2> QED BY <2>1, <2>2 DEF RootInv
<1> QED BY <1>1, <1>2, <1>3, <1>4, <1>5, <1>6, <1>7, <1>8 DEF Next

\* The invariant holds in every state: for any number of cpus, nodes and roots,
\* get_node_allocator's calls stay on the one allocator of their slot.
THEOREM RootInvariant == Spec => []RootInv
BY InitRootInv, RootStep, PTL DEF Spec

\* All cpus use the node allocator in the root's slot, and until a
\* compare-and-swap is lost (slab_allocator.cpp:477) it is alive, was made for
\* that root and node, and no allocator is forgotten.
THEOREM NodeAllocatorsAlwaysSound == Spec => []NodeAllocatorsSound
<1>1. RootInv => NodeAllocatorsSound
  BY DEF RootInv, SlotInv, UntilLost, InSlots, Kept, NodeAllocatorsSound, Others
<1> QED BY <1>1, RootInvariant, PTL

\* Until a compare-and-swap is lost, everything allocated comes from a root
\* whose objects are large enough for it.
THEOREM ObjectsAlwaysLargeEnough == Spec => []ObjectsLargeEnough
<1>1. RootInv => ObjectsLargeEnough
  BY DEF RootInv, UntilLost, ObjectsLargeEnough
<1> QED BY <1>1, RootInvariant, PTL

\* A node's allocator, once in its slot, is never replaced: the
\* compare-and-swap of get_node_allocator writes an empty slot only.
THEOREM SlotsWrittenOnce ==
  Spec => [][\A r \in Others, n \in Nodes : node_allocators[r][n] # None =>
               node_allocators'[r][n] = node_allocators[r][n]]_rootVars
<1> DEFINE Same == \A r \in Others, n \in Nodes : node_allocators[r][n] # None =>
                     node_allocators'[r][n] = node_allocators[r][n]
<1>1. ASSUME RootInv, Next PROVE Same
  <2>1. CASE slab_init
    <3>1. \A r \in Others, n \in Nodes : node_allocators[r][n] = None
      BY <1>1, <2>1 DEF slab_init, RootInv, BootInv
    <3> QED BY <3>1
  <2>2. ASSUME NEW c \in Cpus, InstallNodeAllocator(c) PROVE Same
    <3>1. call[c].root \in Roots /\ call[c].nid \in Nodes /\ TypeOK
      BY <1>1, <2>2, Names DEF InstallNodeAllocator, RootInv, CallInv, InGet
    <3>2. CASE node_allocators[call[c].root][call[c].nid] = None
      <4>1. PICK b, q, m : b = call[c].new_allocator /\ q = call[c].root /\ m = call[c].nid
        OBVIOUS
      <4>2. node_allocators' = [node_allocators EXCEPT ![q][m] = b]
        BY <2>2, <3>2, <4>1
        DEF InstallNodeAllocator, ExchangeNodeAllocator, StoreNodeAllocator
      <4>3. \A r \in Roots, n \in Nodes :
              (r # q \/ n # m) => node_allocators'[r][n] = node_allocators[r][n]
        BY <3>1, <4>1, <4>2 DEF TypeOK
      <4> QED BY <3>2, <4>1, <4>3, Names
    <3>3. CASE node_allocators[call[c].root][call[c].nid] # None
      BY <2>2, <3>3 DEF InstallNodeAllocator, ExchangeNodeAllocator
    <3> QED BY <3>2, <3>3
  <2>3. CASE UNCHANGED node_allocators
    BY <2>3
  <2> QED BY <1>1, <2>1, <2>2, <2>3
      DEF Next, GpInit, GpHandleFault, GpHandleFaultFails, GpConstructorThrows, GpAlloc,
          GpFree, Construct, HandleFault, UserAlloc, LoadNodeAllocator, NewNodeAllocator,
          NewNodeAllocatorFails, AllocFromNode
<1> QED BY <1>1, RootInvariant, PTL DEF Spec

\* The roots made while booting, and those of Construct, have the numbers they
\* should.
LEMMA MadeFit ==
  /\ \A k \in Kinds : ConstantsFit(SlabAllocatorRoot(SizeOf[k], AlignOf[k]))
  /\ \A s \in Range(Classes) : ConstantsFit(SlabAllocatorRoot(s, 0))
  /\ \A s \in UserSizes : ~TooBig(SlabAllocatorRoot(s, 0)) =>
                            ConstantsFit(SlabAllocatorRoot(s, 0))
<1>1. ASSUME NEW k \in Kinds PROVE ConstantsFit(SlabAllocatorRoot(SizeOf[k], AlignOf[k]))
  <2>1. SizeOf[k] \in Nat /\ SizeOf[k] <= SlabSize(MAX_ORDER)
    BY SizesAsked, BootRootsFit
  <2>2. AlignOf[k] \in {0, 8, 16, 32, 64}
    BY RootAssumption
  <2> QED BY <2>1, <2>2, RootFits
<1>2. ASSUME NEW s \in Range(Classes) PROVE ConstantsFit(SlabAllocatorRoot(s, 0))
  <2>1. s \in Nat /\ s <= SlabSize(MAX_ORDER)
    BY SizesAsked, BootRootsFit
  <2> QED BY <2>1, RootFits
<1>3. ASSUME NEW s \in UserSizes, ~TooBig(SlabAllocatorRoot(s, 0))
      PROVE  ConstantsFit(SlabAllocatorRoot(s, 0))
  <2>1. s \in Nat
    BY SizesAsked
  <2>2. PICK i \in 0 .. 62 : s < 2 ^ i
    BY RootAssumption
  <2>3. 2 ^ i <= 2 ^ 62
    <3>1. i \in Nat /\ 62 \in Nat /\ i <= 62
      OBVIOUS
    <3> QED BY <3>1, PowerOrder, Zenon
  <2>4. s < SizesEnd
    <3>1. 2 ^ i \in Nat
      BY PowerFacts
    <3>2. 2 ^ i <= SizesEnd
      BY <2>3 DEF SizesEnd
    <3> QED BY <2>1, <2>2, <3>1, <3>2, WordsFacts
  <2> QED BY <1>3, <2>1, <2>4, RootFits
<1> QED BY <1>1, <1>2, <1>3

LEMMA ConstantsStep ==
  TypeOK /\ RootConstantsFit /\ [Next]_rootVars => RootConstantsFit'
<1> SUFFICES ASSUME TypeOK, RootConstantsFit, [Next]_rootVars PROVE RootConstantsFit'
  OBVIOUS
<1>1. CASE slab_init
  <2>1. \A r \in Roots : roots'[r] # None =>
          r \in Kinds /\ roots'[r] = SlabAllocatorRoot(SizeOf[r], AlignOf[r])
    BY <1>1 DEF slab_init, Kinds
  <2> QED BY <2>1, MadeFit DEF RootConstantsFit
<1>2. CASE GpInit
  <2> SUFFICES ASSUME NEW r \in Roots, roots'[r] # None PROVE ConstantsFit(roots'[r])
    BY DEF RootConstantsFit
  <2>1. CASE r = "rep"
    <3>1. roots'[r] = SlabAllocatorRoot(SizeOf["rep"], AlignOf["rep"]) /\ "rep" \in Kinds
      BY <1>2, <2>1 DEF GpInit, Kinds
    <3> QED BY <3>1, MadeFit
  <2>2. CASE r # "rep" /\ \E i \in DOMAIN Classes : ClassRoots[i] = r
    <3> DEFINE n == CHOOSE i \in DOMAIN Classes : ClassRoots[i] = r
    <3>1. n \in DOMAIN Classes
      BY <2>2
    <3>2. roots'[r] = SlabAllocatorRoot(Classes[n], 0)
      BY <1>2, <2>2 DEF GpInit
    <3>3. Classes[n] \in Range(Classes)
      BY <3>1, SizesAsked
    <3> HIDE DEF n
    <3> QED BY <3>2, <3>3, MadeFit
  <2>3. CASE r # "rep" /\ ~ \E i \in DOMAIN Classes : ClassRoots[i] = r
    <3>1. roots'[r] = roots[r]
      BY <1>2, <2>3 DEF GpInit
    <3> QED BY <3>1 DEF RootConstantsFit
  <2> QED BY <2>1, <2>2, <2>3
<1>3. ASSUME NEW c \in Cpus, NEW id \in UserRoots, NEW size \in UserSizes,
             Construct(c, id, size)
      PROVE  RootConstantsFit'
  <2> DEFINE root == SlabAllocatorRoot(size, 0)
  <2>1. CASE TooBig(root)
    BY <1>3, <2>1 DEF Construct, RootConstantsFit
  <2>2. CASE ~TooBig(root)
    <3>1. ConstantsFit(root)
      BY <2>2, MadeFit
    <3>2. roots' = [roots EXCEPT ![id] = root]
      BY <1>3, <2>2 DEF Construct
    <3> HIDE DEF root
    <3> QED BY <3>1, <3>2 DEF TypeOK, RootConstantsFit
  <2> QED BY <2>1, <2>2
<1>4. CASE UNCHANGED roots
  BY <1>4 DEF RootConstantsFit
<1> QED BY <1>1, <1>2, <1>3, <1>4
    DEF Next, rootVars, GpHandleFault, GpHandleFaultFails, GpConstructorThrows, GpAlloc,
        GpFree, HandleFault, UserAlloc, LoadNodeAllocator, NewNodeAllocator, NewNodeAllocatorFails,
        InstallNodeAllocator, AllocFromNode

\* Every root that exists has objects as large and as aligned as asked for,
\* the order the reference gives, an object in a slab, and a batch of at most
\* 64 pages: for any sizes and not only those at a boundary
\* (calculate_order, calculate_freebatch).
THEOREM ConstantsAlwaysFit == Spec => []RootConstantsFit
<1>1. Init => RootConstantsFit
  BY DEF Init, RootConstantsFit
<1>2. RootInv => TypeOK
  BY DEF RootInv
<1> QED BY <1>1, <1>2, ConstantsStep, RootInvariant, PTL DEF Spec
=============================================================================
