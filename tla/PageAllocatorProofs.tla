------------------------ MODULE PageAllocatorProofs ------------------------
(***************************************************************************)
(* The buddy allocator, for any number of nodes, pages and orders: the     *)
(* blocks on the lists and those the callers hold are a partition of the   *)
(* memory Init was given, and Free never takes a stale mark of the memory  *)
(* map for a free block.                                                   *)
(*                                                                         *)
(* The invariant says of every mark what block it is in and how its page   *)
(* differs from the page that block is known by: in the bit of the mark's  *)
(* order and in no lower one.                                              *)
(***************************************************************************)
EXTENDS PageAllocator, TLAPS, FiniteSetTheorems, WellFoundedInduction

\* Of the aligned blocks of order k, the number of the one page p is in.
Nr(p, k) == p \div 2^k

\* Page q is in block x.
Covers(x, q) == Nr(q, x.order) = Nr(x.pfn, x.order)

\* x is on a list of node n.
Listed(n, x) == On(free_page_lists[n][x.order], x.pfn)

FreeBlocks == {x \in Blocks : \E n \in Nodes : Listed(n, x)}
AllBlocks == FreeBlocks \cup held

\* The lowest bit in which q and p differ is bit k.
Mirror(q, p, k) == \E c \in Int : q = p + c * 2^(k + 1) + 2^k

\* No page is in two of some blocks.
Apart(B) == \A x, y \in B : \A q \in Nat : Covers(x, q) /\ Covers(y, q) => x = y

Covered(B, q) == \E x \in B : Covers(x, q)

PartitionInv ==
  /\ Apart(AllBlocks)
  /\ \A q \in Nat : q \in Memory <=> Covered(AllBlocks, q)

Once(list) == \A i, j \in 1 .. Len(list) : list[i] = list[j] => i = j

\* A block is on one list, once, or in one pair of hands.
PlacesInv ==
  /\ \A n \in Nodes, k \in Orders : Once(free_page_lists[n][k])
  /\ \A m, n \in Nodes : \A x \in Blocks : Listed(m, x) /\ Listed(n, x) => m = n
  /\ FreeBlocks \cap held = {}

OpInv ==
  /\ \A n \in Nodes : op[n].step # "idle" => op[n].block \in held
  /\ \A b : \A m, n \in Nodes : Has(m, b) /\ Has(n, b) => m = n
  /\ \A n \in Nodes : op[n].step = "split" =>
       op[n].want \in Orders /\ op[n].want <= op[n].block.order
  /\ \A n \in Nodes : op[n].step = "erase" => op[n].block.order < MAX_ORDER

\* Alloc has taken x and is yet to mark it.
TakenBy(n, x) == op[n].step = "split" /\ op[n].block = x
Taken(x) == \E n \in Nodes : TakenBy(n, x)

MarksInv ==
  /\ \A x \in FreeBlocks : usage[x.pfn] = "PAGE_ALLOCATOR" /\ order[x.pfn] = x.order
  /\ \A x \in held :
       IF Taken(x) THEN usage[x.pfn] = "PAGE_ALLOCATOR" /\ order[x.pfn] = x.order
                   ELSE usage[x.pfn] = "IN_USE"
  /\ \A q \in Pages : usage[q] = "PAGE_ALLOCATOR" =>
       \E x \in AllBlocks :
         Covers(x, q) /\ (q # x.pfn => order[q] < x.order /\ Mirror(q, x.pfn, order[q]))

StateInv ==
  /\ GoodLayout(layout)
  /\ free_page_lists \in [Nodes -> [Orders -> Seq(Pages)]]
  /\ usage \in [Pages -> Usages]
  /\ order \in [Pages -> Orders]
  /\ op \in [Nodes -> Operations]
  /\ held \subseteq Blocks
  /\ Memory \subseteq Pages

\* What holds until two nodes meet in a list.
PageInv == StateInv /\ OpInv /\ PartitionInv /\ PlacesInv /\ MarksInv

PagesInv == TypeOK /\ (~raced => PageInv)

-----------------------------------------------------------------------------
(* Powers of two: as numbers of subsets, the only thing the library says of *)
(* them.                                                                    *)

\* A set with one more element has twice as many subsets.
LEMMA SubsetsDouble ==
  ASSUME NEW S, IsFiniteSet(S), NEW x, x \notin S
  PROVE  Cardinality(SUBSET (S \cup {x})) = 2 * Cardinality(SUBSET S)
<1> DEFINE With == {T \cup {x} : T \in SUBSET S}
           f == [T \in SUBSET S |-> T \cup {x}]
<1>1. IsFiniteSet(SUBSET S) /\ Cardinality(SUBSET S) \in Nat
  BY FS_SUBSET, FS_CardinalityType
<1>2. f \in Bijection(SUBSET S, With)
  <2>1. f \in [SUBSET S -> With]
    OBVIOUS
  <2>2. ASSUME NEW T \in SUBSET S, NEW U \in SUBSET S, f[T] = f[U]
        PROVE  T = U
    BY <2>2
  <2>3. \A W \in With : \E T \in SUBSET S : f[T] = W
    OBVIOUS
  <2> HIDE DEF f, With
  <2>4. QED
    BY <2>1, <2>2, <2>3 DEF Bijection, Injection, Surjection, IsInjective
<1>3. IsFiniteSet(With) /\ Cardinality(With) = Cardinality(SUBSET S)
  <2>1. ExistsBijection(SUBSET S, With)
    BY <1>2 DEF ExistsBijection
  <2>2. QED
    BY <1>1, <2>1, FS_Bijection
<1>4. (SUBSET S) \cap With = {}
  OBVIOUS
<1>5. SUBSET (S \cup {x}) = (SUBSET S) \cup With
  <2>1. ASSUME NEW T \in SUBSET (S \cup {x}), T \notin SUBSET S
        PROVE  T \in With
    <3>1. T \ {x} \in SUBSET S /\ T = (T \ {x}) \cup {x}
      BY <2>1
    <3>2. QED
      BY <3>1
  <2>2. (SUBSET S) \cup With \subseteq SUBSET (S \cup {x})
    OBVIOUS
  <2>3. QED
    BY <2>1, <2>2
<1>6. Cardinality((SUBSET S) \cap With) = 0
  BY <1>4, FS_EmptySet
<1> HIDE DEF With
<1>7. Cardinality((SUBSET S) \cup With)
        = Cardinality(SUBSET S) + Cardinality(With) - Cardinality((SUBSET S) \cap With)
  BY <1>1, <1>3, FS_Union
<1>8. Cardinality((SUBSET S) \cup With) = 2 * Cardinality(SUBSET S)
  BY <1>1, <1>3, <1>6, <1>7
<1>9. QED
  BY <1>5, <1>8, Zenon

LEMMA PowerFacts ==
  ASSUME NEW k \in Nat
  PROVE  2^k \in Nat /\ 2^k > 0 /\ 2^(k + 1) = 2 * 2^k
<1>1. IsFiniteSet(1 .. k) /\ Cardinality(1 .. k) = k
  BY FS_Interval
<1>2. IsFiniteSet(1 .. (k + 1)) /\ Cardinality(1 .. (k + 1)) = k + 1
  BY FS_Interval
<1>3. 1 .. (k + 1) = (1 .. k) \cup {k + 1} /\ k + 1 \notin 1 .. k
  OBVIOUS
<1>4. 2^k = Cardinality(SUBSET (1 .. k)) /\ 2^(k + 1) = Cardinality(SUBSET (1 .. (k + 1)))
  BY <1>1, <1>2, FS_SUBSET
<1>5. 2^k \in Nat
  BY <1>1, <1>4, FS_SUBSET, FS_CardinalityType
<1>6. 2^k # 0
  BY <1>1, <1>4, FS_SUBSET, FS_EmptySet
<1>7. 2^(k + 1) = 2 * 2^k
  BY <1>1, <1>3, <1>4, SubsetsDouble
<1>8. QED
  BY <1>5, <1>6, <1>7

-----------------------------------------------------------------------------
(* Blocks and buddies *)

LEMMA Times ==
  ASSUME NEW P \in Nat, NEW a \in Int, NEW b \in Int, a <= b
  PROVE  P * a <= P * b
<1>1. P * (b - a) >= 0 /\ P * (b - a) = P * b - P * a
  OBVIOUS
<1>2. QED
  BY <1>1

\* A quotient and what it is determined by.
LEMMA Quotient ==
  ASSUME NEW P \in Nat, P > 0, NEW p \in Nat
  PROVE  /\ p \div P \in Nat
         /\ P * (p \div P) <= p /\ p < P * (p \div P) + P
         /\ \A a \in Int : P * a <= p /\ p < P * a + P => a = p \div P
<1> DEFINE d == p \div P
<1>1. d \in Nat /\ P * d <= p /\ p < P * d + P
  OBVIOUS
<1> HIDE DEF d
<1>2. ASSUME NEW a \in Int, P * a <= p, p < P * a + P
      PROVE  a = d
  <2>1. CASE a < d
    <3>1. P * (a + 1) <= P * d
      BY <1>1, <2>1, Times
    <3>2. P * (a + 1) = P * a + P
      OBVIOUS
    <3>3. QED
      BY <1>1, <1>2, <3>1, <3>2
  <2>2. CASE d < a
    <3>1. P * (d + 1) <= P * a
      BY <1>1, <2>2, Times
    <3>2. P * (d + 1) = P * d + P
      BY <1>1
    <3>3. QED
      BY <1>1, <1>2, <3>1, <3>2
  <2>3. QED
    BY <1>1, <2>1, <2>2
<1>3. QED
  BY <1>1, <1>2 DEF d

\* A block lies in one of twice its size.
LEMMA Upwards ==
  ASSUME NEW k \in Nat, NEW p \in Nat
  PROVE  Nr(p, k) \in Nat /\ Nr(p, k + 1) = Nr(p, k) \div 2
<1> DEFINE P == 2^k
           d == p \div P
           e == d \div 2
<1>1. P \in Nat /\ P > 0 /\ 2^(k + 1) = 2 * P
  BY PowerFacts
<1> HIDE DEF P
<1>2. d \in Nat /\ P * d <= p /\ p < P * d + P
  BY <1>1, Quotient
<1> HIDE DEF d
<1>3. e \in Int /\ 2 * e <= d /\ d <= 2 * e + 1
  BY <1>2
<1> HIDE DEF e
<1>4. P * (2 * e) <= P * d /\ P * d <= P * (2 * e + 1)
  BY <1>1, <1>2, <1>3, Times
<1>5. (2 * P) * e <= p /\ p < (2 * P) * e + 2 * P
  <2>1. (2 * P) * e = P * (2 * e) /\ P * (2 * e + 1) + P = (2 * P) * e + 2 * P
    BY <1>1, <1>3
  <2>2. QED
    BY <1>1, <1>2, <1>3, <1>4, <2>1
<1>6. e = p \div (2 * P)
  BY <1>1, <1>3, <1>5, Quotient
<1>7. QED
  BY <1>1, <1>2, <1>6 DEF Nr, e, d, P

\* The buddy of a block is the other half of the next larger one.
LEMMA BuddyFacts ==
  ASSUME NEW k \in Nat, NEW p \in Nat
  PROVE  /\ pfn_to_buddy(p, k) \in Nat
         /\ pfn_to_buddy(p, k) = p + 2^k \/ pfn_to_buddy(p, k) = p - 2^k
         /\ Nr(pfn_to_buddy(p, k), k) # Nr(p, k)
         /\ Nr(pfn_to_buddy(p, k), k + 1) = Nr(p, k + 1)
<1> DEFINE P == 2^k
           d == p \div P
           q == pfn_to_buddy(p, k)
<1>1. P \in Nat /\ P > 0
  BY PowerFacts
<1>2. d \in Nat /\ P * d <= p /\ p < P * d + P
  BY <1>1, Quotient
<1>3. q = IF d % 2 = 0 THEN p + P ELSE p - P
  BY DEF pfn_to_buddy
<1> HIDE DEF P, d, q
<1>4. CASE d % 2 = 0
  <2>1. q = p + P /\ q \in Nat
    BY <1>1, <1>3, <1>4
  <2>2. P * (d + 1) = P * d + P
    BY <1>1, <1>2
  <2>3. d + 1 = q \div P
    BY <1>1, <1>2, <2>1, <2>2, Quotient
  <2>4. (d + 1) \div 2 = d \div 2
    BY <1>2, <1>4
  <2>5. q \div P # d /\ (q \div P) \div 2 = d \div 2
    BY <1>2, <2>3, <2>4
  <2>6. QED
    <3>1. Nr(q, k) = q \div P /\ Nr(p, k) = d
      BY DEF Nr, P, d
    <3>2. Nr(q, k + 1) = Nr(q, k) \div 2 /\ Nr(p, k + 1) = Nr(p, k) \div 2
      BY <2>1, Upwards
    <3>3. Nr(q, k) # Nr(p, k) /\ Nr(q, k + 1) = Nr(p, k + 1)
      BY <2>5, <3>1, <3>2
    <3>4. QED
      BY <2>1, <3>3 DEF P, q
<1>5. CASE d % 2 # 0
  <2>1. d >= 1
    BY <1>2, <1>5
  <2>2. P * (d - 1) = P * d - P /\ P * 1 <= P * d
    BY <1>1, <1>2, <2>1, Times
  <2>3. q = p - P /\ q \in Nat
    BY <1>1, <1>2, <1>3, <1>5, <2>2
  <2>4. d - 1 = q \div P
    BY <1>1, <1>2, <2>2, <2>3, Quotient
  <2>5. (d - 1) \div 2 = d \div 2
    BY <1>2, <1>5
  <2>6. q \div P # d /\ (q \div P) \div 2 = d \div 2
    BY <1>2, <2>4, <2>5
  <2>7. QED
    <3>1. Nr(q, k) = q \div P /\ Nr(p, k) = d
      BY DEF Nr, P, d
    <3>2. Nr(q, k + 1) = Nr(q, k) \div 2 /\ Nr(p, k + 1) = Nr(p, k) \div 2
      BY <2>3, Upwards
    <3>3. Nr(q, k) # Nr(p, k) /\ Nr(q, k + 1) = Nr(p, k + 1)
      BY <2>6, <3>1, <3>2
    <3>4. QED
      BY <2>3, <3>3 DEF P, q
<1>6. QED
  BY <1>4, <1>5

\* A page of a block of twice the size is in the one half or the other.
LEMMA Halves ==
  ASSUME NEW k \in Nat, NEW p \in Nat, NEW q \in Nat,
         Nr(q, k + 1) = Nr(p, k + 1)
  PROVE  Nr(q, k) = Nr(p, k) \/ Nr(q, k) = Nr(pfn_to_buddy(p, k), k)
<1> DEFINE b == pfn_to_buddy(p, k)
<1>1. b \in Nat /\ Nr(b, k) # Nr(p, k) /\ Nr(b, k + 1) = Nr(p, k + 1)
  BY BuddyFacts
<1> HIDE DEF b
<1>2. Nr(q, k) \div 2 = Nr(p, k) \div 2 /\ Nr(b, k) \div 2 = Nr(p, k) \div 2
  BY <1>1, Upwards
<1>3. Nr(q, k) \in Nat /\ Nr(p, k) \in Nat /\ Nr(b, k) \in Nat
  BY <1>1, Upwards
<1>4. \A x, y, z \in Nat : x \div 2 = y \div 2 /\ z \div 2 = y \div 2 /\ z # y => x = y \/ x = z
  OBVIOUS
<1>5. QED
  BY <1>1, <1>2, <1>3, <1>4 DEF b

\* The least of some numbers.
LEMMA Least ==
  ASSUME NEW T \in SUBSET Nat, T # {}
  PROVE  \E t \in T : \A u \in T : t <= u
<1>1. PICK t \in T : \A u \in T : ~ (<<u, t>> \in OpToRel(<, Nat))
  BY WFMin, NatLessThanWellFounded
<1>2. ASSUME NEW u \in T, ~ (t <= u)
      PROVE  FALSE
  <2>1. <<u, t>> \in OpToRel(<, Nat)
    BY <1>2 DEF OpToRel
  <2>2. QED
    BY <1>1, <2>1
<1>3. QED
  BY <1>2

\* Two pages of a block are in the same larger block.
LEMMA Nested ==
  ASSUME NEW k \in Nat, NEW j \in Nat, k <= j, NEW p \in Nat, NEW q \in Nat,
         Nr(q, k) = Nr(p, k)
  PROVE  Nr(q, j) = Nr(p, j)
<1> DEFINE T == {i \in Nat : k <= i /\ Nr(q, i) # Nr(p, i)}
<1> SUFFICES ASSUME T # {} PROVE FALSE
  OBVIOUS
<1>1. PICK t \in T : \A u \in T : t <= u
  BY Least
<1>2. t \in Nat /\ k <= t /\ t # k /\ Nr(q, t) # Nr(p, t)
  OBVIOUS
<1>3. t - 1 \in Nat /\ k <= t - 1 /\ t - 1 \notin T
  BY <1>1, <1>2
<1>4. Nr(q, t - 1) = Nr(p, t - 1)
  BY <1>3
<1>5. /\ Nr(q, (t - 1) + 1) = Nr(q, t - 1) \div 2
      /\ Nr(p, (t - 1) + 1) = Nr(p, t - 1) \div 2
  BY <1>3, Upwards
<1>6. (t - 1) + 1 = t
  BY <1>2
<1>7. QED
  BY <1>2, <1>4, <1>5, <1>6

LEMMA BuddyNested ==
  ASSUME NEW k \in Nat, NEW j \in Nat, k < j, NEW p \in Nat
  PROVE  pfn_to_buddy(p, k) \in Nat /\ Nr(pfn_to_buddy(p, k), j) = Nr(p, j)
<1>1. /\ pfn_to_buddy(p, k) \in Nat
      /\ Nr(pfn_to_buddy(p, k), k + 1) = Nr(p, k + 1)
  BY BuddyFacts
<1>2. k + 1 \in Nat /\ k + 1 <= j
  OBVIOUS
<1>3. QED
  BY <1>1, <1>2, Nested

\* What a block of order j is split into, or merged of, around one of order k.
LEMMA SomePiece ==
  ASSUME NEW k \in Nat, NEW j \in Nat, k <= j, NEW p \in Nat, NEW q \in Nat,
         Nr(q, j) = Nr(p, j), Nr(q, k) # Nr(p, k)
  PROVE  \E i \in k .. (j - 1) : Nr(q, i) = Nr(pfn_to_buddy(p, i), i)
<1> DEFINE T == {i \in Nat : k <= i /\ Nr(q, i) = Nr(p, i)}
<1>1. j \in T
  OBVIOUS
<1>2. PICK t \in T : \A u \in T : t <= u
  BY <1>1, Least
<1>3. t \in Nat /\ k <= t /\ t <= j /\ t # k /\ Nr(q, t) = Nr(p, t)
  BY <1>1, <1>2
<1>4. t - 1 \in k .. (j - 1) /\ t - 1 \in Nat /\ t - 1 \notin T
  BY <1>2, <1>3
<1>5. Nr(q, t - 1) # Nr(p, t - 1)
  BY <1>4
<1>6. (t - 1) + 1 = t
  BY <1>3
<1>7. Nr(q, t - 1) = Nr(pfn_to_buddy(p, t - 1), t - 1)
  BY <1>3, <1>4, <1>5, <1>6, Halves
<1>8. QED
  BY <1>4, <1>7

\* They have no page in common.
LEMMA PiecesApart ==
  ASSUME NEW k \in Nat, NEW p \in Nat, NEW q \in Nat, NEW i \in Nat, k <= i,
         Nr(q, i) = Nr(pfn_to_buddy(p, i), i)
  PROVE  /\ Nr(q, k) # Nr(p, k)
         /\ \A h \in Nat : i < h => /\ Nr(q, h) = Nr(p, h)
                                    /\ Nr(q, h) # Nr(pfn_to_buddy(p, h), h)
<1>1. pfn_to_buddy(p, i) \in Nat /\ Nr(q, i) # Nr(p, i)
  BY BuddyFacts
<1>2. Nr(q, k) = Nr(p, k) => Nr(q, i) = Nr(p, i)
  BY Nested
<1>3. ASSUME NEW h \in Nat, i < h
      PROVE  Nr(q, h) = Nr(p, h) /\ Nr(q, h) # Nr(pfn_to_buddy(p, h), h)
  <2>1. Nr(pfn_to_buddy(p, i), h) = Nr(p, h)
    BY <1>3, BuddyNested
  <2>2. Nr(q, h) = Nr(pfn_to_buddy(p, i), h)
    <3>1. i <= h
      BY <1>3
    <3>2. QED
      BY <1>1, <3>1, Nested
  <2>3. Nr(pfn_to_buddy(p, h), h) # Nr(p, h)
    BY BuddyFacts
  <2>4. QED
    BY <2>1, <2>2, <2>3
<1>4. QED
  BY <1>1, <1>2, <1>3

-----------------------------------------------------------------------------
(* Marks *)

LEMMA MirrorBuddy ==
  ASSUME NEW k \in Nat, NEW p \in Nat
  PROVE  Mirror(pfn_to_buddy(p, k), p, k)
<1>1. 2^k \in Nat /\ 2^(k + 1) = 2 * 2^k
  BY PowerFacts
<1>2. CASE pfn_to_buddy(p, k) = p + 2^k
  <2>1. pfn_to_buddy(p, k) = p + 0 * 2^(k + 1) + 2^k
    BY <1>1, <1>2
  <2>2. QED
    BY <2>1 DEF Mirror
<1>3. CASE pfn_to_buddy(p, k) = p - 2^k
  <2>1. pfn_to_buddy(p, k) = p + (-1) * 2^(k + 1) + 2^k
    BY <1>1, <1>3
  <2>2. QED
    BY <2>1 DEF Mirror
<1>4. QED
  BY <1>2, <1>3, BuddyFacts

LEMMA PowerDivides ==
  ASSUME NEW k \in Nat, NEW j \in Nat, k <= j
  PROVE  \E d \in Nat \ {0} : 2^j = d * 2^k
<1> DEFINE T == {i \in Nat : k <= i /\ ~ \E d \in Nat \ {0} : 2^i = d * 2^k}
<1> SUFFICES ASSUME T # {} PROVE FALSE
  OBVIOUS
<1>1. PICK t \in T : \A u \in T : t <= u
  BY Least
<1>2. t \in Nat /\ k <= t /\ ~ \E d \in Nat \ {0} : 2^t = d * 2^k
  OBVIOUS
<1>3. 2^k \in Nat /\ 2^k = 1 * 2^k
  BY PowerFacts
<1>4. t # k
  BY <1>2, <1>3
<1>5. t - 1 \in Nat /\ k <= t - 1 /\ t - 1 \notin T
  BY <1>1, <1>2, <1>4
<1>6. PICK d \in Nat \ {0} : 2^(t - 1) = d * 2^k
  BY <1>5
<1>7. (t - 1) + 1 = t /\ 2^((t - 1) + 1) = 2 * 2^(t - 1)
  BY <1>5, PowerFacts
<1>8. 2^t = (2 * d) * 2^k /\ 2 * d \in Nat \ {0}
  BY <1>3, <1>6, <1>7
<1>9. QED
  BY <1>2, <1>8

\* Changing a higher bit of a page's name leaves its lowest difference.
LEMMA MirrorMoves ==
  ASSUME NEW k \in Nat, NEW i \in Nat, k < i, NEW p \in Nat, NEW q \in Nat, NEW b \in Nat,
         Mirror(q, p, k), b = pfn_to_buddy(p, i) \/ p = pfn_to_buddy(b, i)
  PROVE  Mirror(q, b, k)
<1> DEFINE M == 2^(k + 1)
           N == 2^k
<1>1. M \in Nat /\ N \in Nat
  BY PowerFacts
<1>2. PICK c \in Int : q = p + c * M + N
  BY DEF Mirror
<1>3. PICK d \in Nat : 2^i = d * M
  <2>1. k + 1 \in Nat /\ k + 1 <= i
    OBVIOUS
  <2>2. QED
    BY <2>1, PowerDivides
<1>4. b = p + 2^i \/ b = p - 2^i
  <2>1. 2^i \in Nat
    BY PowerFacts
  <2>2. CASE b = pfn_to_buddy(p, i)
    BY <2>2, BuddyFacts
  <2>3. CASE p = pfn_to_buddy(b, i)
    <3>1. p = b + 2^i \/ p = b - 2^i
      BY <2>3, BuddyFacts
    <3>2. QED
      BY <2>1, <3>1
  <2>4. QED
    BY <2>2, <2>3
<1> HIDE DEF M, N
<1>5. CASE b = p + 2^i
  <2>1. (c - d) * M = c * M - d * M
    BY <1>1
  <2>2. q = b + (c - d) * M + N
    BY <1>1, <1>2, <1>3, <1>5, <2>1
  <2>3. \E e \in Int : q = b + e * M + N
    BY <2>2
  <2>4. QED
    BY <2>3 DEF Mirror, M, N
<1>6. CASE b = p - 2^i
  <2>1. (c + d) * M = c * M + d * M
    BY <1>1
  <2>2. q = b + (c + d) * M + N
    BY <1>1, <1>2, <1>3, <1>6, <2>1
  <2>3. \E e \in Int : q = b + e * M + N
    BY <2>2
  <2>4. QED
    BY <2>3 DEF Mirror, M, N
<1>7. QED
  BY <1>4, <1>5, <1>6

LEMMA Distance ==
  ASSUME NEW k \in Nat, NEW p \in Nat, NEW q \in Nat, Nr(q, k) = Nr(p, k)
  PROVE  q < p + 2^k /\ p < q + 2^k
<1> DEFINE P == 2^k
<1>1. P \in Nat /\ P > 0
  BY PowerFacts
<1> DEFINE d == p \div P
           e == q \div P
<1>2. d = e
  BY DEF Nr
<1>3. d \in Nat /\ P * d <= p /\ p < P * d + P /\ P * e <= q /\ q < P * e + P
  BY <1>1, Quotient
<1> HIDE DEF P, d, e
<1>4. P * d \in Int
  BY <1>1, <1>3
<1>5. q < p + P /\ p < q + P
  BY <1>1, <1>2, <1>3, <1>4
<1>6. QED
  BY <1>5 DEF P

\* A multiple of a positive number is 0, or at least the number.
LEMMA Multiple ==
  ASSUME NEW M \in Nat, M > 0, NEW c \in Int
  PROVE  c * M \in Int /\ (c = 0 => c * M = 0) /\ (c > 0 => c * M >= M) /\ (c < 0 => c * M <= -M)
<1>1. M * c = c * M /\ M * 1 = M /\ M * (-1) = -M /\ M * 0 = 0 /\ M * c \in Int
  OBVIOUS
<1>2. c > 0 => M * 1 <= M * c
  BY Times
<1>3. c < 0 => M * c <= M * (-1)
  BY Times
<1>4. QED
  BY <1>1, <1>2, <1>3

\* Mirrored pages are apart.
LEMMA MirrorApart ==
  ASSUME NEW k \in Nat, NEW p \in Nat, NEW q \in Nat, Mirror(q, p, k)
  PROVE  q >= p + 2^k \/ p >= q + 2^k
<1> DEFINE M == 2^(k + 1)
           N == 2^k
<1>1. M \in Nat /\ N \in Nat /\ M = 2 * N /\ M > 0
  BY PowerFacts
<1>2. PICK c \in Int : q = p + c * M + N
  BY DEF Mirror
<1> HIDE DEF M, N
<1>3. c * M \in Int /\ (c >= 0 => c * M >= 0) /\ (c < 0 => c * M <= -M)
  BY <1>1, Multiple
<1>4. q >= p + N \/ p >= q + N
  BY <1>1, <1>2, <1>3
<1>5. QED
  BY <1>4 DEF N

LEMMA PowerOrder ==
  ASSUME NEW k \in Nat, NEW j \in Nat, k <= j
  PROVE  2^k <= 2^j
<1> DEFINE P == 2^k
           Q == 2^j
<1>1. P \in Nat /\ P > 0 /\ Q \in Nat
  BY PowerFacts
<1>2. PICK d \in Nat \ {0} : Q = d * P
  BY PowerDivides
<1> HIDE DEF P, Q
<1>3. d * P >= P
  BY <1>1, Multiple
<1>4. P <= Q
  BY <1>1, <1>2, <1>3
<1>5. QED
  BY <1>4 DEF P, Q

\* The lowest difference of two pages of a block is below its order.
LEMMA MirrorIn ==
  ASSUME NEW j \in Nat, NEW p \in Nat, NEW q \in Nat, NEW k \in Nat,
         Nr(q, j) = Nr(p, j), Mirror(q, p, k)
  PROVE  k < j
<1> SUFFICES ASSUME j <= k PROVE FALSE
  OBVIOUS
<1>1. 2^j <= 2^k
  BY PowerOrder
<1>2. 2^j \in Nat /\ 2^k \in Nat
  BY PowerFacts
<1>3. q < p + 2^j /\ p < q + 2^j
  BY Distance
<1>4. q >= p + 2^k \/ p >= q + 2^k
  BY MirrorApart
<1>5. QED
  BY <1>1, <1>2, <1>3, <1>4

\* A mark in a piece of a split block is at its name, or of a lower order.
LEMMA MirrorPiece ==
  ASSUME NEW t \in Nat, NEW p \in Nat, NEW q \in Nat, NEW k \in Nat,
         Nr(q, t) = Nr(pfn_to_buddy(p, t), t), Mirror(q, p, k), q # pfn_to_buddy(p, t)
  PROVE  k < t
<1> DEFINE b == pfn_to_buddy(p, t)
           N == 2^t
<1>1. N \in Nat /\ N > 0 /\ 2^(t + 1) = 2 * N
  BY PowerFacts
<1>2. b \in Nat /\ (b = p + N \/ b = p - N)
  BY BuddyFacts
<1>3. q < b + N /\ b < q + N
  BY <1>2, Distance
<1>4. ASSUME k > t PROVE FALSE
  <2>1. 2^(t + 1) <= 2^k
    BY <1>4, PowerOrder
  <2>2. 2^k \in Nat /\ (q >= p + 2^k \/ p >= q + 2^k)
    BY PowerFacts, MirrorApart
  <2> HIDE DEF N, b
  <2>3. QED
    BY <1>1, <1>2, <1>3, <2>1, <2>2
<1>5. ASSUME k = t PROVE FALSE
  <2> DEFINE M == 2^(t + 1)
  <2>1. PICK c \in Int : q = p + c * M + N
    BY <1>5 DEF Mirror
  <2>2. M \in Nat /\ M = 2 * N /\ M > 0
    BY <1>1
  <2>3. (c + 1) * M = c * M + M
    BY <2>2
  <2> HIDE DEF N, b, M
  <2>4. /\ c * M \in Int /\ (c = 0 => c * M = 0)
        /\ (c > 0 => c * M >= M) /\ (c < 0 => c * M <= -M)
    BY <2>2, Multiple
  <2>5. /\ c + 1 = 0 => (c + 1) * M = 0
        /\ c + 1 > 0 => (c + 1) * M >= M
        /\ c + 1 < 0 => (c + 1) * M <= -M
    BY <2>2, Multiple
  <2>6. CASE b = p + N
    <3>1. q - b = c * M
      BY <1>1, <1>2, <2>1, <2>2, <2>4, <2>6
    <3>2. c = 0
      BY <1>1, <1>2, <1>3, <2>2, <2>4, <3>1
    <3>3. QED
      BY <1>2, <2>4, <3>1, <3>2 DEF b
  <2>7. CASE b = p - N
    <3>1. q - b = (c + 1) * M
      BY <1>1, <1>2, <2>1, <2>2, <2>3, <2>4, <2>7
    <3>2. c + 1 = 0
      BY <1>1, <1>2, <1>3, <2>2, <2>5, <3>1
    <3>3. QED
      BY <1>2, <2>5, <3>1, <3>2 DEF b
  <2>8. QED
    BY <1>2, <2>6, <2>7
<1>6. QED
  BY <1>4, <1>5

-----------------------------------------------------------------------------
(* Partitions *)

Block(p, k) == [pfn |-> p, order |-> k]

\* The blocks one of order j around page p is split into to serve a request of
\* order k, or is merged of when one of order k is freed.
Pieces(p, k, j) == {Block(p, k)} \cup {Block(pfn_to_buddy(p, i), i) : i \in k .. (j - 1)}

LEMMA BlockCovers ==
  ASSUME NEW p \in Nat, NEW k \in Nat, NEW q \in Nat
  PROVE  Covers(Block(p, k), q) <=> Nr(q, k) = Nr(p, k)
BY DEF Covers, Block

LEMMA PiecesCover ==
  ASSUME NEW p \in Nat, NEW k \in Nat, NEW j \in Nat, k <= j, NEW q \in Nat
  PROVE  Covered(Pieces(p, k, j), q) <=> Covers(Block(p, j), q)
<1>1. ASSUME Covers(Block(p, j), q)
      PROVE  Covered(Pieces(p, k, j), q)
  <2>1. Nr(q, j) = Nr(p, j)
    BY <1>1, BlockCovers
  <2>2. CASE Nr(q, k) = Nr(p, k)
    BY <2>2, BlockCovers DEF Covered, Pieces
  <2>3. CASE Nr(q, k) # Nr(p, k)
    <3>1. PICK i \in k .. (j - 1) : Nr(q, i) = Nr(pfn_to_buddy(p, i), i)
      BY <2>1, <2>3, SomePiece
    <3>2. i \in Nat /\ pfn_to_buddy(p, i) \in Nat
      BY BuddyFacts
    <3>3. Covers(Block(pfn_to_buddy(p, i), i), q)
      BY <3>1, <3>2, BlockCovers
    <3>4. QED
      BY <3>3 DEF Covered, Pieces
  <2>4. QED
    BY <2>2, <2>3
<1>2. ASSUME Covered(Pieces(p, k, j), q)
      PROVE  Covers(Block(p, j), q)
  <2>1. CASE Covers(Block(p, k), q)
    BY <2>1, BlockCovers, Nested
  <2>2. ASSUME NEW i \in k .. (j - 1), Covers(Block(pfn_to_buddy(p, i), i), q)
        PROVE  Covers(Block(p, j), q)
    <3>1. i \in Nat /\ k <= i /\ i < j /\ pfn_to_buddy(p, i) \in Nat
      BY BuddyFacts
    <3>2. Nr(q, i) = Nr(pfn_to_buddy(p, i), i)
      BY <2>2, <3>1, BlockCovers
    <3>3. Nr(q, j) = Nr(p, j)
      BY <3>1, <3>2, PiecesApart
    <3>4. QED
      BY <3>3, BlockCovers
  <2>3. QED
    BY <1>2, <2>1, <2>2 DEF Covered, Pieces
<1>3. QED
  BY <1>1, <1>2

LEMMA PiecesDisjoint ==
  ASSUME NEW p \in Nat, NEW k \in Nat, NEW j \in Nat
  PROVE  Apart(Pieces(p, k, j))
<1> DEFINE B(i) == Block(pfn_to_buddy(p, i), i)
<1>1. \A i \in k .. (j - 1) : i \in Nat /\ k <= i /\ pfn_to_buddy(p, i) \in Nat
  BY BuddyFacts
<1>2. ASSUME NEW i \in k .. (j - 1), NEW q \in Nat, Covers(B(i), q)
      PROVE  ~Covers(Block(p, k), q)
  <2>1. Nr(q, i) = Nr(pfn_to_buddy(p, i), i)
    BY <1>1, <1>2, BlockCovers
  <2>2. QED
    BY <1>1, <2>1, BlockCovers, PiecesApart
<1>3. ASSUME NEW i \in k .. (j - 1), NEW h \in k .. (j - 1), i < h, NEW q \in Nat, Covers(B(i), q)
      PROVE  ~Covers(B(h), q)
  <2>1. Nr(q, i) = Nr(pfn_to_buddy(p, i), i)
    BY <1>1, <1>3, BlockCovers
  <2>2. Nr(q, h) # Nr(pfn_to_buddy(p, h), h)
    BY <1>1, <1>3, <2>1, PiecesApart
  <2>3. QED
    BY <1>1, <2>2, BlockCovers
<1> HIDE DEF B
<1>4. ASSUME NEW i \in k .. (j - 1), NEW h \in k .. (j - 1), NEW q \in Nat,
             Covers(B(i), q), Covers(B(h), q)
      PROVE  i = h
  BY <1>3, <1>4
<1>5. Pieces(p, k, j) = {Block(p, k)} \cup {B(i) : i \in k .. (j - 1)}
  BY DEF Pieces, B
<1>6. QED
  BY <1>2, <1>4, <1>5 DEF Apart

\* Some blocks of a partition replaced by others that cover the same pages.
LEMMA Replace ==
  ASSUME NEW S, NEW A \in SUBSET S, NEW B, Apart(S), Apart(B),
         \A q \in Nat : Covered(A, q) <=> Covered(B, q)
  PROVE  /\ Apart((S \ A) \cup B)
         /\ \A q \in Nat : Covered((S \ A) \cup B, q) <=> Covered(S, q)
<1>1. ASSUME NEW x \in S \ A, NEW y \in B, NEW q \in Nat, Covers(x, q), Covers(y, q)
      PROVE  FALSE
  <2>1. PICK z \in A : Covers(z, q)
    BY <1>1 DEF Covered
  <2>2. z = x
    BY <1>1, <2>1 DEF Apart
  <2>3. QED
    BY <1>1, <2>1, <2>2
<1>2. Apart((S \ A) \cup B)
  BY <1>1 DEF Apart
<1>3. ASSUME NEW q \in Nat
      PROVE  Covered((S \ A) \cup B, q) <=> Covered(S, q)
  BY DEF Covered
<1>4. QED
  BY <1>2, <1>3

-----------------------------------------------------------------------------
(* Lists *)

LEMMA TailFacts ==
  ASSUME NEW s \in Seq(Pages), s # <<>>, Once(s)
  PROVE  /\ Tail(s) \in Seq(Pages) /\ Once(Tail(s)) /\ Head(s) \in Pages
         /\ \A p : On(Tail(s), p) <=> On(s, p) /\ p # Head(s)
<1>1. /\ Tail(s) \in Seq(Pages) /\ Len(s) \in Nat /\ Len(s) > 0
      /\ Len(Tail(s)) = Len(s) - 1 /\ \A i \in 1 .. Len(Tail(s)) : Tail(s)[i] = s[i + 1]
      /\ Head(s) = s[1] /\ s[1] \in Pages
  OBVIOUS
<1>2. Once(Tail(s))
  BY <1>1 DEF Once
<1>3. ASSUME NEW p
      PROVE  On(Tail(s), p) <=> On(s, p) /\ p # Head(s)
  <2>1. ASSUME NEW i \in 1 .. Len(Tail(s)), Tail(s)[i] = p
        PROVE  On(s, p) /\ p # Head(s)
    <3>1. i + 1 \in 1 .. Len(s) /\ i + 1 # 1 /\ 1 \in 1 .. Len(s) /\ s[i + 1] = p
      BY <1>1, <2>1
    <3>2. QED
      BY <1>1, <3>1 DEF Once, On
  <2>2. ASSUME NEW i \in 1 .. Len(s), s[i] = p, p # Head(s)
        PROVE  On(Tail(s), p)
    <3>1. i - 1 \in 1 .. Len(Tail(s)) /\ Tail(s)[i - 1] = p
      BY <1>1, <2>2
    <3>2. QED
      BY <3>1 DEF On
  <2>3. QED
    BY <2>1, <2>2 DEF On
<1>4. QED
  BY <1>1, <1>2, <1>3

LEMMA PushFacts ==
  ASSUME NEW s \in Seq(Pages), Once(s), NEW p \in Pages, ~On(s, p)
  PROVE  /\ <<p>> \o s \in Seq(Pages) /\ Once(<<p>> \o s)
         /\ \A x : On(<<p>> \o s, x) <=> On(s, x) \/ x = p
<1> DEFINE t == <<p>> \o s
<1>1. /\ t \in Seq(Pages) /\ Len(s) \in Nat /\ Len(t) = Len(s) + 1
      /\ t[1] = p /\ \A i \in 1 .. Len(s) : t[i + 1] = s[i]
  OBVIOUS
<1> HIDE DEF t
<1>2. \A i \in 1 .. Len(t) : i = 1 \/ (i - 1 \in 1 .. Len(s) /\ t[i] = s[i - 1])
  <2> TAKE i \in 1 .. Len(t)
  <2>1. CASE i # 1
    <3>1. i - 1 \in 1 .. Len(s) /\ (i - 1) + 1 = i
      BY <1>1, <2>1
    <3>2. QED
      BY <1>1, <3>1
  <2>2. QED
    BY <2>1
<1>3. Once(t)
  <2>1. ASSUME NEW i \in 1 .. Len(t), NEW j \in 1 .. Len(t), t[i] = t[j]
        PROVE  i = j
    <3>1. i # 1 => t[i] # p
      BY <1>2 DEF On
    <3>2. j # 1 => t[j] # p
      BY <1>2 DEF On
    <3>3. CASE i = 1 \/ j = 1
      BY <1>1, <2>1, <3>1, <3>2, <3>3
    <3>4. CASE i # 1 /\ j # 1
      <4>1. i - 1 \in 1 .. Len(s) /\ j - 1 \in 1 .. Len(s) /\ s[i - 1] = s[j - 1]
        BY <1>2, <2>1, <3>4
      <4>2. i - 1 = j - 1
        BY <4>1 DEF Once
      <4>3. QED
        BY <1>1, <4>2
    <3>5. QED
      BY <3>3, <3>4
  <2>2. QED
    BY <2>1 DEF Once
<1>4. ASSUME NEW x
      PROVE  On(t, x) <=> On(s, x) \/ x = p
  <2>1. ASSUME On(s, x)
        PROVE  On(t, x)
    <3>1. PICK i \in 1 .. Len(s) : s[i] = x
      BY <2>1 DEF On
    <3>2. i + 1 \in 1 .. Len(t) /\ t[i + 1] = x
      BY <1>1, <3>1
    <3>3. QED
      BY <3>2 DEF On
  <2>2. On(t, p)
    <3>1. 1 \in 1 .. Len(t) /\ t[1] = p
      BY <1>1
    <3>2. QED
      BY <3>1 DEF On
  <2>3. ASSUME On(t, x), x # p
        PROVE  On(s, x)
    BY <1>1, <1>2, <2>3 DEF On
  <2>4. QED
    BY <2>1, <2>2, <2>3
<1>5. QED
  BY <1>1, <1>3, <1>4 DEF t

LEMMA WithoutFacts ==
  ASSUME NEW s \in Seq(Pages), Once(s), NEW p
  PROVE  /\ Without(s, p) \in Seq(Pages) /\ Once(Without(s, p))
         /\ \A x : On(Without(s, p), x) <=> On(s, x) /\ x # p
<1>1. CASE \A i \in 1 .. Len(s) : s[i] # p
  <2>1. Without(s, p) = s
    BY <1>1 DEF Without
  <2>2. QED
    BY <1>1, <2>1 DEF On
<1>2. CASE ~ \A i \in 1 .. Len(s) : s[i] # p
  <2> DEFINE at == CHOOSE i \in 1 .. Len(s) : s[i] = p
             From(i) == IF i < at THEN i ELSE i + 1
             w == [i \in 1 .. Len(s) - 1 |-> s[From(i)]]
  <2>1. at \in 1 .. Len(s) /\ s[at] = p /\ Len(s) \in Nat
    BY <1>2
  <2>2. Without(s, p) = w
    BY <1>2 DEF Without
  <2> HIDE DEF at
  <2>3. \A i \in 1 .. Len(s) - 1 : From(i) \in 1 .. Len(s) /\ From(i) # at
    BY <2>1
  <2>4. \A i, j \in 1 .. Len(s) - 1 : From(i) = From(j) => i = j
    BY <2>1
  <2>5. \A i \in 1 .. Len(s) : i # at => \E j \in 1 .. Len(s) - 1 : From(j) = i
    <3> TAKE i \in 1 .. Len(s)
    <3> HAVE i # at
    <3>1. CASE i < at
      <4>1. i \in 1 .. Len(s) - 1 /\ From(i) = i
        BY <2>1, <3>1
      <4>2. QED
        BY <4>1
    <3>2. CASE i > at
      <4>1. i - 1 \in 1 .. Len(s) - 1 /\ From(i - 1) = i
        BY <2>1, <3>2
      <4>2. QED
        BY <4>1
    <3>3. QED
      BY <2>1, <3>1, <3>2
  <2> HIDE DEF From
  <2>6. w \in Seq(Pages) /\ Len(w) = Len(s) - 1 /\ \A i \in 1 .. Len(w) : w[i] = s[From(i)]
    BY <2>1, <2>3
  <2> HIDE DEF w
  <2>7. Once(w)
    BY <2>3, <2>4, <2>6 DEF Once
  <2>8. ASSUME NEW x
        PROVE  On(w, x) <=> On(s, x) /\ x # p
    <3>1. ASSUME NEW i \in 1 .. Len(w), w[i] = x
          PROVE  On(s, x) /\ x # p
      BY <2>1, <2>3, <2>6, <3>1 DEF On, Once
    <3>2. ASSUME NEW i \in 1 .. Len(s), s[i] = x, x # p
          PROVE  On(w, x)
      <4>1. PICK j \in 1 .. Len(s) - 1 : From(j) = i
        BY <2>1, <2>5, <3>2
      <4>2. QED
        BY <2>6, <3>2, <4>1 DEF On
    <3>3. QED
      BY <3>1, <3>2 DEF On
  <2>9. QED
    BY <2>2, <2>6, <2>7, <2>8
<1>3. QED
  BY <1>1, <1>2

-----------------------------------------------------------------------------
(* The blocks of the partition *)

LEMMA OrderFacts ==
  /\ NumPages \in Nat /\ MAX_ORDER \in Nat /\ Pages \subseteq Nat /\ Orders \subseteq Nat
  /\ \A p \in Pages, k \in Orders : Block(p, k) \in Blocks
  /\ \A x \in Blocks : x.pfn \in Pages /\ x.order \in Orders /\ x = Block(x.pfn, x.order)
BY PageAssumption DEF Pages, Orders, Blocks, Block

\* A block of the partition lies in the memory map.
LEMMA InMemory ==
  ASSUME PageInv, NEW x \in AllBlocks, NEW q \in Nat, Covers(x, q)
  PROVE  q \in Pages
BY DEF PageInv, PartitionInv, StateInv, Covered

LEMMA AllBlocksFacts ==
  ASSUME PageInv
  PROVE  /\ AllBlocks \subseteq Blocks
         /\ \A x \in AllBlocks : Covers(x, x.pfn)
         /\ FreeBlocks \cap held = {}
BY DEF PageInv, StateInv, PlacesInv, AllBlocks, FreeBlocks, Covers

\* Two blocks that have a page in common are one.
LEMMA SameBlock ==
  ASSUME PageInv, NEW x \in AllBlocks, NEW y \in AllBlocks, NEW q \in Nat,
         Covers(x, q), Covers(y, q)
  PROVE  x = y
BY DEF PageInv, PartitionInv, Apart

\* The buddies of a block, within a larger one of the partition.
LEMMA BuddiesInside ==
  ASSUME PageInv, NEW j \in Orders, NEW p \in Pages, Block(p, j) \in AllBlocks,
         NEW i \in Nat, i < j
  PROVE  /\ pfn_to_buddy(p, i) \in Pages /\ i \in Orders /\ pfn_to_buddy(p, i) # p
         /\ Covers(Block(p, j), pfn_to_buddy(p, i))
         /\ \A x \in AllBlocks : x.pfn # pfn_to_buddy(p, i)
<1> DEFINE b == pfn_to_buddy(p, i)
<1>1. p \in Nat /\ j \in Nat
  BY OrderFacts
<1>2. b \in Nat /\ Nr(b, j) = Nr(p, j)
  BY <1>1, BuddyNested
<1>3. Nr(b, i) # Nr(p, i)
  BY <1>1, BuddyFacts
<1>4. b # p
  BY <1>3
<1> HIDE DEF b
<1>5. Covers(Block(p, j), b)
  BY <1>1, <1>2, BlockCovers
<1>6. b \in Pages
  BY <1>2, <1>5, InMemory
<1>7. ASSUME NEW x \in AllBlocks, x.pfn = b
      PROVE  FALSE
  <2>1. Covers(x, b)
    BY <1>7, AllBlocksFacts
  <2>2. x = Block(p, j)
    BY <1>2, <1>5, <2>1, SameBlock
  <2>3. QED
    BY <1>4, <1>7, <2>2 DEF Block
<1>8. i \in Orders
  BY <1>1, OrderFacts DEF Orders
<1>9. QED
  BY <1>4, <1>5, <1>6, <1>7, <1>8 DEF b

-----------------------------------------------------------------------------
(* The operations *)

\* A block in the hands of an operation.
LEMMA HandFacts ==
  ASSUME PageInv, NEW n \in Nodes, NEW b, Has(n, b)
  PROVE  /\ b \in held /\ b \in AllBlocks /\ b \in Blocks /\ b \notin FreeBlocks
         /\ b.pfn \in Pages /\ b.pfn \in Nat /\ b.order \in Orders /\ b.order \in Nat
         /\ b = Block(b.pfn, b.order)
         /\ \A x \in AllBlocks : x.pfn = b.pfn => x = b
         /\ \A m \in Nodes : Has(m, b) => m = n
<1>1. b \in held /\ \A m \in Nodes : Has(m, b) => m = n
  BY DEF PageInv, OpInv, Has
<1>2. b \in AllBlocks /\ b \in Blocks /\ b \notin FreeBlocks
  BY <1>1, AllBlocksFacts DEF AllBlocks
<1>3. /\ b.pfn \in Pages /\ b.pfn \in Nat /\ b.order \in Orders /\ b.order \in Nat
      /\ b = Block(b.pfn, b.order)
  BY <1>2, OrderFacts
<1>4. ASSUME NEW x \in AllBlocks, x.pfn = b.pfn
      PROVE  x = b
  BY <1>2, <1>3, <1>4, AllBlocksFacts, SameBlock
<1>5. QED
  BY <1>1, <1>2, <1>3, <1>4

\* A step of one node leaves alone what the operations of the others have.
LEMMA OthersKeep ==
  ASSUME PageInv, NEW n \in Nodes, NEW o \in Operations, op' = [op EXCEPT ![n] = o],
         \A x \in held : ~Has(n, x) => x \in held',
         o.step # "idle" => o.block \in held' /\ \A m \in Nodes \ {n} : ~Has(m, o.block),
         o.step = "split" => o.want \in Orders /\ o.want <= o.block.order,
         o.step = "erase" => o.block.order < MAX_ORDER
  PROVE  /\ OpInv' /\ op' \in [Nodes -> Operations]
         /\ \A x : Taken(x)' <=> \/ \E m \in Nodes \ {n} : TakenBy(m, x)
                                 \/ o.step = "split" /\ o.block = x
<1>1. op \in [Nodes -> Operations]
  BY DEF PageInv, StateInv
<1>2. op' \in [Nodes -> Operations] /\ op'[n] = o /\ \A m \in Nodes : m # n => op'[m] = op[m]
  BY <1>1
<1>3. ASSUME NEW m \in Nodes, op'[m].step # "idle"
      PROVE  op'[m].block \in held'
  <2>1. CASE m = n
    BY <1>2, <1>3, <2>1
  <2>2. CASE m # n
    <3>1. op[m].step # "idle" /\ op'[m].block = op[m].block
      BY <1>2, <1>3, <2>2
    <3>2. op[m].block \in held /\ ~Has(n, op[m].block)
      BY <2>2, <3>1 DEF PageInv, OpInv, Has
    <3>3. QED
      BY <3>1, <3>2
  <2>3. QED
    BY <2>1, <2>2
<1>4. ASSUME NEW b, NEW l \in Nodes, NEW m \in Nodes, Has(l, b)', Has(m, b)'
      PROVE  l = m
  <2>1. /\ l # n => Has(l, b)
        /\ m # n => Has(m, b)
    BY <1>2, <1>4 DEF Has
  <2>2. CASE l # n /\ m # n
    BY <2>1, <2>2 DEF PageInv, OpInv, Has
  <2>3. CASE l = n /\ m # n
    BY <1>2, <1>4, <2>1, <2>3 DEF Has
  <2>4. CASE l # n /\ m = n
    BY <1>2, <1>4, <2>1, <2>4 DEF Has
  <2>5. QED
    BY <2>2, <2>3, <2>4
<1>5. ASSUME NEW m \in Nodes
      PROVE  /\ op'[m].step = "split" => op'[m].want \in Orders /\ op'[m].want <= op'[m].block.order
             /\ op'[m].step = "erase" => op'[m].block.order < MAX_ORDER
  <2>1. CASE m = n
    BY <1>2, <2>1
  <2>2. CASE m # n
    BY <1>2, <2>2 DEF PageInv, OpInv
  <2>3. QED
    BY <2>1, <2>2
<1>6. OpInv'
  BY <1>3, <1>4, <1>5 DEF OpInv, Orders
<1>7. ASSUME NEW x
      PROVE  Taken(x)' <=> \/ \E m \in Nodes \ {n} : TakenBy(m, x)
                           \/ o.step = "split" /\ o.block = x
  <2>1. Taken(x)' <=> \E m \in Nodes : op'[m].step = "split" /\ op'[m].block = x
    BY DEF Taken, TakenBy
  <2>2. QED
    BY <1>2, <2>1 DEF TakenBy
<1>8. QED
  BY <1>2, <1>6, <1>7

\* What is known of the state when a step keeps its types.
LEMMA StateKept ==
  ASSUME PageInv, UNCHANGED layout,
         free_page_lists' \in [Nodes -> [Orders -> Seq(Pages)]],
         usage' \in [Pages -> Usages], order' \in [Pages -> Orders],
         op' \in [Nodes -> Operations], held' \subseteq Blocks
  PROVE  StateInv' /\ Memory' = Memory
<1>1. Memory' = Memory
  BY DEF Memory
<1>2. QED
  BY <1>1 DEF PageInv, StateInv, Pages, Orders, Usages, Blocks, GoodLayout, Operations, Steps

LEMMA FreeBlocksNow == FreeBlocks' = {x \in Blocks : \E n \in Nodes : Listed(n, x)'}
BY DEF FreeBlocks, Blocks, Pages, Orders

-----------------------------------------------------------------------------
(* Alloc: the block is taken *)

LEMMA FrontFacts ==
  ASSUME PageInv, NEW nid \in Nodes, NEW j \in Orders, free_page_lists[nid][j] # <<>>
  PROVE  LET fp == Head(free_page_lists[nid][j]) IN
         /\ fp \in Pages /\ Listed(nid, Block(fp, j)) /\ Block(fp, j) \in FreeBlocks
         /\ \A n \in Nodes : Listed(n, Block(fp, j)) => n = nid
<1> DEFINE s == free_page_lists[nid][j]
           fp == Head(s)
<1>1. s \in Seq(Pages) /\ s # <<>>
  BY DEF PageInv, StateInv
<1> HIDE DEF s
<1>2. fp \in Pages /\ On(s, fp)
  <2>1. 1 \in 1 .. Len(s) /\ s[1] = fp /\ s[1] \in Pages
    BY <1>1
  <2>2. QED
    BY <2>1 DEF On
<1> HIDE DEF fp
<1>3. Listed(nid, Block(fp, j))
  BY <1>2 DEF Listed, Block, s
<1>4. Block(fp, j) \in Blocks
  BY <1>2, OrderFacts
<1>5. Block(fp, j) \in FreeBlocks
  BY <1>3, <1>4 DEF FreeBlocks
<1>6. \A n \in Nodes : Listed(n, Block(fp, j)) => n = nid
  BY <1>3, <1>4 DEF PageInv, PlacesInv
<1>7. QED
  BY <1>2, <1>3, <1>5, <1>6 DEF fp, s

\* The lists without their block X, which node d's list may hold at any place.
LEMMA Unlisted ==
  ASSUME PageInv, NEW X \in Blocks,
         free_page_lists' \in [Nodes -> [Orders -> Seq(Pages)]],
         \A n \in Nodes, i \in Orders : Once(free_page_lists'[n][i]),
         \A n \in Nodes, x \in Blocks : Listed(n, x)' <=> Listed(n, x) /\ x # X,
         UNCHANGED <<usage, order>>
  PROVE  /\ FreeBlocks' = FreeBlocks \ {X}
         /\ \A n \in Nodes, k \in Orders : Once(free_page_lists[n][k])'
         /\ \A m, n \in Nodes : \A x \in Blocks : Listed(m, x)' /\ Listed(n, x)' => m = n
         /\ \A x \in FreeBlocks' : usage'[x.pfn] = "PAGE_ALLOCATOR" /\ order'[x.pfn] = x.order
<1>1. FreeBlocks' = FreeBlocks \ {X}
  BY FreeBlocksNow DEF FreeBlocks
<1>2. \A m, n \in Nodes : \A x \in Blocks : Listed(m, x)' /\ Listed(n, x)' => m = n
  BY DEF PageInv, PlacesInv
<1>3. \A n \in Nodes, k \in Orders : Once(free_page_lists[n][k])'
  BY DEF Once
<1>4. \A x \in FreeBlocks' : usage'[x.pfn] = "PAGE_ALLOCATOR" /\ order'[x.pfn] = x.order
  BY <1>1 DEF PageInv, MarksInv
<1>5. QED
  BY <1>1, <1>2, <1>3, <1>4

LEMMA AllocStep ==
  ASSUME PageInv, NEW nid \in Nodes, NEW k \in Orders, Alloc(nid, k)
  PROVE  PageInv'
<1> DEFINE L == free_page_lists
<1>1. PICK j \in k .. MAX_ORDER :
        LET b == [pfn |-> Head(L[nid][j]), order |-> j] IN
        /\ op[nid].step = "idle"
        /\ L[nid][j] # <<>>
        /\ L' = [L EXCEPT ![nid][j] = Tail(@)]
        /\ op' = [op EXCEPT ![nid] = [step |-> "split", block |-> b, want |-> k]]
        /\ held' = held \cup {b}
        /\ UNCHANGED <<usage, order, layout, raced>>
  BY DEF Alloc, OpAt
<1>2. j \in Orders /\ k <= j /\ j \in Nat /\ k \in Nat
  BY OrderFacts DEF Orders
<1>3. PICK fp \in Pages : fp = Head(L[nid][j])
  BY <1>1, <1>2, FrontFacts
<1> DEFINE B == Block(fp, j)
           o == [step |-> "split", block |-> B, want |-> k]
<1>4. B \in FreeBlocks /\ Listed(nid, B) /\ \A n \in Nodes : Listed(n, B) => n = nid
  BY <1>1, <1>2, <1>3, FrontFacts
<1>5. /\ op' = [op EXCEPT ![nid] = o] /\ held' = held \cup {B}
      /\ UNCHANGED <<usage, order, layout, raced>>
  BY <1>1, <1>3 DEF Block
<1>6. /\ B \in Blocks /\ B.pfn = fp /\ B.order = j /\ fp \in Nat
      /\ B \in AllBlocks /\ B \notin held
  BY <1>2, <1>4, OrderFacts, AllBlocksFacts DEF Block, AllBlocks
<1>7. L \in [Nodes -> [Orders -> Seq(Pages)]] /\ \A n \in Nodes, i \in Orders : Once(L[n][i])
  BY DEF PageInv, StateInv, PlacesInv
<1>8. /\ Tail(L[nid][j]) \in Seq(Pages) /\ Once(Tail(L[nid][j]))
      /\ \A p : On(Tail(L[nid][j]), p) <=> On(L[nid][j], p) /\ p # fp
  BY <1>1, <1>2, <1>3, <1>7, TailFacts
<1>9. /\ L' \in [Nodes -> [Orders -> Seq(Pages)]] /\ L'[nid][j] = Tail(L[nid][j])
      /\ \A n \in Nodes, i \in Orders : ~ (n = nid /\ i = j) => L'[n][i] = L[n][i]
  BY <1>1, <1>2, <1>7, <1>8
<1>10. \A n \in Nodes, i \in Orders : Once(L'[n][i])
  BY <1>2, <1>7, <1>8, <1>9
<1>11. ASSUME NEW n \in Nodes, NEW x \in Blocks
       PROVE  Listed(n, x)' <=> Listed(n, x) /\ x # B
  <2>1. /\ x.order \in Orders /\ (x = B <=> x.pfn = fp /\ x.order = j)
    BY OrderFacts DEF Block
  <2>2. Listed(n, x)' <=> On(L'[n][x.order], x.pfn)
    BY DEF Listed, On
  <2>3. CASE n = nid /\ x.order = j
    BY <1>8, <1>9, <2>1, <2>2, <2>3 DEF Listed
  <2>4. CASE ~ (n = nid /\ x.order = j)
    <3>1. Listed(n, x) => x # B
      BY <1>4, <2>1, <2>4
    <3>2. QED
      BY <1>9, <2>1, <2>2, <2>4, <3>1 DEF Listed
  <2>5. QED
    BY <2>3, <2>4
<1> HIDE DEF B
<1>12. o \in Operations /\ o.step = "split" /\ o.block = B /\ o.want = k
  <2>1. B \in [pfn : Nat, order : Nat]
    BY <1>2, <1>6 DEF B, Block
  <2>2. QED
    BY <1>2, <2>1 DEF Operations, Steps
<1> HIDE DEF o, L
<1>13. /\ OpInv' /\ op' \in [Nodes -> Operations]
       /\ \A x : Taken(x)' <=> (\E m \in Nodes \ {nid} : TakenBy(m, x)) \/ x = B
  <2>1. \A m \in Nodes : ~Has(m, B)
    BY <1>6 DEF PageInv, OpInv, Has
  <2>2. k \in Orders /\ k <= B.order /\ B \in held' /\ \A x \in held : x \in held'
    BY <1>2, <1>5, <1>6
  <2>3. /\ OpInv' /\ op' \in [Nodes -> Operations]
        /\ \A x : Taken(x)' <=> \/ \E m \in Nodes \ {nid} : TakenBy(m, x)
                                \/ o.step = "split" /\ o.block = x
    BY <1>5, <1>12, <2>1, <2>2, OthersKeep
  <2>4. QED
    BY <1>12, <2>3
<1>14. \A x : (\E m \in Nodes \ {nid} : TakenBy(m, x)) <=> Taken(x)
  BY <1>1 DEF Taken, TakenBy
<1>15. /\ FreeBlocks' = FreeBlocks \ {B}
       /\ \A n \in Nodes, i \in Orders : Once(free_page_lists[n][i])'
       /\ \A m, n \in Nodes : \A x \in Blocks : Listed(m, x)' /\ Listed(n, x)' => m = n
       /\ \A x \in FreeBlocks' : usage'[x.pfn] = "PAGE_ALLOCATOR" /\ order'[x.pfn] = x.order
  BY <1>5, <1>6, <1>9, <1>10, <1>11, Unlisted DEF L
<1>16. FreeBlocks' \cap held' = {} /\ AllBlocks' = AllBlocks
  BY <1>4, <1>5, <1>15, AllBlocksFacts DEF AllBlocks
<1>17. PlacesInv'
  BY <1>15, <1>16 DEF PlacesInv, Orders, Blocks, Pages
<1>18. StateInv' /\ Memory' = Memory
  <2>1. usage' \in [Pages -> Usages] /\ order' \in [Pages -> Orders] /\ held' \subseteq Blocks
    BY <1>5, <1>6 DEF PageInv, StateInv
  <2>2. QED
    BY <1>5, <1>9, <1>13, <2>1, StateKept DEF L
<1>19. PartitionInv'
  BY <1>16, <1>18 DEF PageInv, PartitionInv, Apart, Covered
<1>20. ASSUME NEW x \in held'
       PROVE  IF Taken(x)' THEN usage'[x.pfn] = "PAGE_ALLOCATOR" /\ order'[x.pfn] = x.order
                           ELSE usage'[x.pfn] = "IN_USE"
  <2>1. CASE x = B
    BY <1>4, <1>5, <1>13, <2>1 DEF PageInv, MarksInv
  <2>2. CASE x # B
    <3>1. x \in held /\ (Taken(x)' <=> Taken(x))
      BY <1>5, <1>13, <1>14, <2>2
    <3>2. QED
      BY <1>5, <3>1 DEF PageInv, MarksInv
  <2>3. QED
    BY <2>1, <2>2
<1>21. \A q \in Pages : usage'[q] = "PAGE_ALLOCATOR" =>
         \E x \in AllBlocks' : Covers(x, q) /\
            (q # x.pfn => order'[q] < x.order /\ Mirror(q, x.pfn, order'[q]))
  BY <1>5, <1>16 DEF PageInv, MarksInv
<1>22. MarksInv'
  BY <1>15, <1>20, <1>21 DEF MarksInv, Pages
<1>23. QED
  BY <1>13, <1>17, <1>18, <1>19, <1>22 DEF PageInv

-----------------------------------------------------------------------------
(* Alloc: the block is split *)

\* What a Split of the block (p, j) for a request of order k finds.
SplitFinds(nid, p, j, k) ==
  nid \in Nodes /\ op[nid].step = "split" /\ op[nid].block = Block(p, j) /\ op[nid].want = k

LEMMA DescentFacts ==
  ASSUME PageInv, NEW nid, NEW p, NEW j, NEW k, SplitFinds(nid, p, j, k)
  PROVE  /\ nid \in Nodes /\ p \in Pages /\ p \in Nat
         /\ j \in Orders /\ k \in Orders /\ j \in Nat /\ k \in Nat /\ k <= j
         /\ Block(p, j) \in held /\ Block(p, j) \in AllBlocks /\ Block(p, j) \notin FreeBlocks
         /\ Block(p, k) \in Blocks
         /\ \A x \in AllBlocks : x.pfn = p => x = Block(p, j)
         /\ \A m \in Nodes : Has(m, Block(p, j)) => m = nid
<1>1. Has(nid, Block(p, j)) /\ nid \in Nodes
  BY DEF SplitFinds, Has
<1>2. Block(p, j).pfn = p /\ Block(p, j).order = j
  BY DEF Block
<1>3. k \in Orders /\ k <= j
  BY <1>2 DEF PageInv, OpInv, SplitFinds
<1>4. QED
  BY <1>1, <1>2, <1>3, HandFacts, OrderFacts

\* The buddies that Split frees.
LEMMA HalvesFacts ==
  ASSUME PageInv, NEW nid, NEW p, NEW j, NEW k, SplitFinds(nid, p, j, k),
         NEW i \in k .. (j - 1)
  PROVE  LET b == pfn_to_buddy(p, i) IN
         /\ i \in Nat /\ i \in Orders /\ i < j /\ b \in Pages /\ b \in Nat /\ b # p
         /\ Block(b, i) \in Blocks /\ \A x \in AllBlocks : x.pfn # b
<1>1. /\ p \in Pages /\ p \in Nat /\ j \in Orders /\ j \in Nat /\ k \in Nat
      /\ Block(p, j) \in AllBlocks
  BY DescentFacts
<1>2. i \in Nat /\ i < j
  BY <1>1
<1>3. /\ pfn_to_buddy(p, i) \in Pages /\ i \in Orders /\ pfn_to_buddy(p, i) # p
      /\ \A x \in AllBlocks : x.pfn # pfn_to_buddy(p, i)
  BY <1>1, <1>2, BuddiesInside
<1>4. QED
  BY <1>2, <1>3, OrderFacts

\* The lists after Split.
LEMMA SplitLists ==
  ASSUME PageInv, NEW nid, NEW p, NEW j, NEW k, SplitFinds(nid, p, j, k), SplitTo(nid, p, j, k)
  PROVE  /\ free_page_lists' \in [Nodes -> [Orders -> Seq(Pages)]]
         /\ \A n \in Nodes, i \in Orders : Once(free_page_lists'[n][i])
         /\ \A n \in Nodes, x \in Blocks : Listed(n, x)' <=>
              Listed(n, x) \/ (n = nid /\ x \in Pieces(p, k, j) \ {Block(p, k)})
<1> DEFINE L == free_page_lists
           b(i) == pfn_to_buddy(p, i)
<1>1. /\ nid \in Nodes /\ p \in Pages /\ p \in Nat
      /\ j \in Orders /\ k \in Orders /\ j \in Nat /\ k \in Nat /\ k <= j
  BY DescentFacts
<1>2. L \in [Nodes -> [Orders -> Seq(Pages)]] /\ \A n \in Nodes, i \in Orders : Once(L[n][i])
  BY DEF PageInv, StateInv, PlacesInv
<1>3. ASSUME NEW i \in k .. (j - 1)
      PROVE  i \in Orders /\ b(i) \in Pages /\ b(i) # p /\ ~On(L[nid][i], b(i))
  <2>1. i \in Orders /\ b(i) \in Pages /\ b(i) # p /\ Block(b(i), i) \in Blocks
        /\ \A x \in AllBlocks : x.pfn # b(i)
    BY HalvesFacts
  <2>2. Block(b(i), i) \notin FreeBlocks
    <3>1. Block(b(i), i).pfn = b(i)
      BY DEF Block
    <3>2. QED
      BY <2>1, <3>1 DEF AllBlocks
  <2>3. ~Listed(nid, Block(b(i), i))
    BY <1>1, <2>1, <2>2 DEF FreeBlocks
  <2>4. QED
    BY <2>1, <2>3 DEF Listed, Block
<1>4. L' = [L EXCEPT ![nid] = [i \in Orders |->
              IF i \in k .. (j - 1) THEN <<b(i)>> \o L[nid][i] ELSE L[nid][i]]]
  BY DEF SplitTo, SplitOrders
<1> HIDE DEF b
<1>5. \A i \in k .. (j - 1) :
        /\ <<b(i)>> \o L[nid][i] \in Seq(Pages) /\ Once(<<b(i)>> \o L[nid][i])
        /\ \A x : On(<<b(i)>> \o L[nid][i], x) <=> On(L[nid][i], x) \/ x = b(i)
  <2> TAKE i \in k .. (j - 1)
  <2>1. L[nid][i] \in Seq(Pages) /\ Once(L[nid][i]) /\ b(i) \in Pages /\ ~On(L[nid][i], b(i))
    BY <1>1, <1>2, <1>3
  <2>2. QED
    BY <2>1, PushFacts
<1>6. /\ L' \in [Nodes -> [Orders -> Seq(Pages)]]
      /\ \A i \in k .. (j - 1) : L'[nid][i] = <<b(i)>> \o L[nid][i]
      /\ \A n \in Nodes, i \in Orders : n # nid \/ i \notin k .. (j - 1) => L'[n][i] = L[n][i]
  <2> DEFINE new == [i \in Orders |-> IF i \in k .. (j - 1) THEN <<b(i)>> \o L[nid][i]
                                                            ELSE L[nid][i]]
  <2>1. new \in [Orders -> Seq(Pages)]
    BY <1>1, <1>2, <1>5
  <2>2. L' = [L EXCEPT ![nid] = new]
    BY <1>4
  <2>3. \A i \in k .. (j - 1) : new[i] = <<b(i)>> \o L[nid][i]
    BY <1>3
  <2>4. \A i \in Orders : i \notin k .. (j - 1) => new[i] = L[nid][i]
    OBVIOUS
  <2> HIDE DEF new
  <2>5. QED
    BY <1>1, <1>2, <1>3, <2>1, <2>2, <2>3, <2>4
<1>7. \A n \in Nodes, i \in Orders : Once(L'[n][i])
  <2> TAKE n \in Nodes, i \in Orders
  <2>1. CASE n = nid /\ i \in k .. (j - 1)
    BY <1>5, <1>6, <2>1
  <2>2. CASE n # nid \/ i \notin k .. (j - 1)
    BY <1>2, <1>6, <2>2
  <2>3. QED
    BY <2>1, <2>2
<1>8. ASSUME NEW n \in Nodes, NEW x \in Blocks
      PROVE  Listed(n, x)' <=> Listed(n, x) \/ (n = nid /\ x \in Pieces(p, k, j) \ {Block(p, k)})
  <2>1. x.order \in Orders /\ x.pfn \in Pages /\ x = Block(x.pfn, x.order)
    BY OrderFacts
  <2>2. x \in Pieces(p, k, j) \ {Block(p, k)} <=> x.order \in k .. (j - 1) /\ x.pfn = b(x.order)
    <3>1. x \in {Block(b(i), i) : i \in k .. (j - 1)} <=>
            x.order \in k .. (j - 1) /\ x.pfn = b(x.order)
      BY <2>1 DEF Block
    <3>2. x.order \in k .. (j - 1) /\ x.pfn = b(x.order) => x.pfn # p
      BY <1>3
    <3>3. x = Block(p, k) <=> x.pfn = p /\ x.order = k
      BY <2>1 DEF Block
    <3>4. QED
      BY <3>1, <3>2, <3>3 DEF Pieces, b
  <2>3. Listed(n, x) <=> On(L[n][x.order], x.pfn)
    BY DEF Listed
  <2>4. Listed(n, x)' <=> On(L'[n][x.order], x.pfn)
    BY DEF Listed, On
  <2>5. CASE n = nid /\ x.order \in k .. (j - 1)
    BY <1>5, <1>6, <2>2, <2>3, <2>4, <2>5
  <2>6. CASE n # nid \/ x.order \notin k .. (j - 1)
    BY <1>6, <2>1, <2>2, <2>3, <2>4, <2>6
  <2>7. QED
    BY <2>5, <2>6
<1>9. QED
  BY <1>6, <1>7, <1>8

\* No other block has the name of a piece.
LEMMA SplitNames ==
  ASSUME PageInv, NEW nid, NEW p, NEW j, NEW k, SplitFinds(nid, p, j, k),
         NEW x \in AllBlocks, x # Block(p, j)
  PROVE  x.pfn \in Pages /\ x.pfn # p /\ \A i \in k .. (j - 1) : x.pfn # pfn_to_buddy(p, i)
<1>1. x.pfn \in Pages
  BY AllBlocksFacts, OrderFacts
<1>2. x.pfn # p
  BY DescentFacts
<1>3. \A i \in k .. (j - 1) : x.pfn # pfn_to_buddy(p, i)
  BY HalvesFacts
<1>4. QED
  BY <1>1, <1>2, <1>3

\* The blocks after Split: the pieces of the block are in its place.
LEMMA SplitBlocks ==
  ASSUME PageInv, NEW nid, NEW p, NEW j, NEW k, SplitFinds(nid, p, j, k), SplitTo(nid, p, j, k)
  PROVE  /\ FreeBlocks' = FreeBlocks \cup (Pieces(p, k, j) \ {Block(p, k)})
         /\ held' = (held \ {Block(p, j)}) \cup {Block(p, k)}
         /\ AllBlocks' = (AllBlocks \ {Block(p, j)}) \cup Pieces(p, k, j)
         /\ FreeBlocks' \cap held' = {}
<1>1. /\ nid \in Nodes /\ Block(p, j) \in held /\ Block(p, j) \notin FreeBlocks
      /\ Block(p, k) \in Blocks /\ \A x \in AllBlocks : x.pfn = p => x = Block(p, j)
  BY DescentFacts
<1>2. \A n \in Nodes, x \in Blocks : Listed(n, x)' <=>
        Listed(n, x) \/ (n = nid /\ x \in Pieces(p, k, j) \ {Block(p, k)})
  BY SplitLists
<1>3. held' = (held \ {Block(p, j)}) \cup {Block(p, k)}
  BY DEF SplitTo, Block
<1>4. Pieces(p, k, j) \subseteq Blocks
  BY <1>1, HalvesFacts DEF Pieces
<1>5. FreeBlocks' = FreeBlocks \cup (Pieces(p, k, j) \ {Block(p, k)})
  BY <1>1, <1>2, <1>4, FreeBlocksNow DEF FreeBlocks
<1>6. Block(p, k) \in Pieces(p, k, j)
  BY DEF Pieces
<1>7. AllBlocks' = FreeBlocks' \cup held'
  BY DEF AllBlocks
<1>8. AllBlocks' = (AllBlocks \ {Block(p, j)}) \cup Pieces(p, k, j)
  BY <1>1, <1>3, <1>5, <1>6, <1>7 DEF AllBlocks
<1>9. ASSUME NEW x \in FreeBlocks', x \in held'
      PROVE  FALSE
  <2>1. CASE x = Block(p, k)
    <3>1. x \in FreeBlocks /\ x.pfn = p
      BY <1>5, <2>1 DEF Block
    <3>2. QED
      BY <1>1, <3>1 DEF AllBlocks
  <2>2. CASE x # Block(p, k)
    <3>1. x \in held /\ x # Block(p, j) /\ x \in AllBlocks
      BY <1>3, <1>9, <2>2 DEF AllBlocks
    <3>2. x \notin FreeBlocks
      BY <3>1, AllBlocksFacts
    <3>3. PICK i \in k .. (j - 1) : x = Block(pfn_to_buddy(p, i), i)
      BY <1>5, <2>2, <3>2 DEF Pieces
    <3>4. x.pfn = pfn_to_buddy(p, i)
      BY <3>3 DEF Block
    <3>5. QED
      BY <3>1, <3>4, SplitNames
  <2>3. QED
    BY <2>1, <2>2
<1>10. QED
  BY <1>3, <1>5, <1>8, <1>9

\* The memory map after Split.
LEMMA SplitMarks ==
  ASSUME PageInv, NEW nid, NEW p, NEW j, NEW k, SplitFinds(nid, p, j, k), SplitTo(nid, p, j, k)
  PROVE  LET b(i) == pfn_to_buddy(p, i) IN
         /\ usage' \in [Pages -> Usages] /\ order' \in [Pages -> Orders]
         /\ usage'[p] = "IN_USE"
         /\ \A i \in k .. (j - 1) : usage'[b(i)] = "PAGE_ALLOCATOR" /\ order'[b(i)] = i
         /\ \A q \in Pages : q # p /\ (\A i \in k .. (j - 1) : q # b(i)) =>
              usage'[q] = usage[q] /\ order'[q] = order[q]
<1> DEFINE b(i) == pfn_to_buddy(p, i)
           Freed(q) == {i \in k .. (j - 1) : b(i) = q}
<1>1. p \in Pages /\ p \in Nat /\ j \in Nat /\ k \in Nat
  BY DescentFacts
<1>2. /\ usage' = [q \in Pages |-> IF q = p THEN "IN_USE"
                     ELSE IF Freed(q) # {} THEN "PAGE_ALLOCATOR" ELSE usage[q]]
      /\ order' = [q \in Pages |-> IF Freed(q) # {} THEN CHOOSE i \in Freed(q) : TRUE ELSE order[q]]
  BY DEF SplitTo, SplitOrders
<1>3. \A i \in k .. (j - 1) : i \in Nat /\ i \in Orders /\ b(i) \in Pages /\ b(i) # p
  BY HalvesFacts
<1>4. \A i, h \in k .. (j - 1) : b(i) = b(h) => i = h
  <2>1. ASSUME NEW i \in k .. (j - 1), NEW h \in k .. (j - 1), i < h
        PROVE  b(i) # b(h)
    <3>1. i \in Nat /\ h \in Nat /\ k <= i
      BY <1>1
    <3>2. b(i) \in Nat
      BY <1>1, <3>1, BuddyFacts
    <3>3. Nr(b(i), h) # Nr(b(h), h)
      BY <1>1, <2>1, <3>1, <3>2, PiecesApart
    <3>4. QED
      BY <3>3
  <2> HIDE DEF b
  <2>2. QED
    BY <1>1, <2>1
<1>5. usage \in [Pages -> Usages] /\ order \in [Pages -> Orders]
  BY DEF PageInv, StateInv
<1> HIDE DEF b
<1>6. \A i \in k .. (j - 1) : Freed(b(i)) = {i}
  BY <1>4
<1>7. \A q \in Pages : (\A i \in k .. (j - 1) : q # b(i)) => Freed(q) = {}
  OBVIOUS
<1>8. \A q \in Pages : Freed(q) # {} => (CHOOSE i \in Freed(q) : TRUE) \in Orders
  BY <1>3
<1> HIDE DEF Freed
<1>9. usage' \in [Pages -> Usages] /\ order' \in [Pages -> Orders]
  BY <1>2, <1>5, <1>8 DEF Usages
<1>10. usage'[p] = "IN_USE"
  BY <1>1, <1>2
<1>11. \A i \in k .. (j - 1) : usage'[b(i)] = "PAGE_ALLOCATOR" /\ order'[b(i)] = i
  BY <1>2, <1>3, <1>6
<1>12. \A q \in Pages : q # p /\ (\A i \in k .. (j - 1) : q # b(i)) =>
         usage'[q] = usage[q] /\ order'[q] = order[q]
  BY <1>2, <1>7
<1>13. QED
  BY <1>9, <1>10, <1>11, <1>12 DEF b

\* Split keeps the partition.
LEMMA SplitPartition ==
  ASSUME PageInv, NEW nid, NEW p, NEW j, NEW k, SplitFinds(nid, p, j, k), SplitTo(nid, p, j, k),
         UNCHANGED layout
  PROVE  PartitionInv'
<1>1. AllBlocks' = (AllBlocks \ {Block(p, j)}) \cup Pieces(p, k, j)
  BY SplitBlocks
<1>2. p \in Nat /\ Block(p, j) \in AllBlocks /\ j \in Nat /\ k \in Nat /\ k <= j
  BY DescentFacts
<1>3. Apart(AllBlocks) /\ \A q \in Nat : q \in Memory <=> Covered(AllBlocks, q)
  BY DEF PageInv, PartitionInv
<1>4. \A q \in Nat : Covered({Block(p, j)}, q) <=> Covered(Pieces(p, k, j), q)
  <2> TAKE q \in Nat
  <2>1. Covered({Block(p, j)}, q) <=> Covers(Block(p, j), q)
    BY DEF Covered
  <2>2. QED
    BY <1>2, <2>1, PiecesCover
<1>5. Apart(Pieces(p, k, j)) /\ {Block(p, j)} \in SUBSET AllBlocks
  BY <1>2, PiecesDisjoint
<1>6. /\ Apart((AllBlocks \ {Block(p, j)}) \cup Pieces(p, k, j))
      /\ \A q \in Nat : Covered((AllBlocks \ {Block(p, j)}) \cup Pieces(p, k, j), q)
                          <=> Covered(AllBlocks, q)
  BY <1>3, <1>4, <1>5, Replace
<1>7. Apart(AllBlocks') /\ \A q \in Nat : Covered(AllBlocks', q) <=> Covered(AllBlocks, q)
  BY <1>1, <1>6
<1>8. Memory' = Memory
  BY DEF Memory
<1>9. QED
  BY <1>3, <1>7, <1>8 DEF PartitionInv, Apart, Covered

\* Split keeps what is known of the marks.
LEMMA SplitMarksInv ==
  ASSUME PageInv, NEW nid, NEW p, NEW j, NEW k, SplitFinds(nid, p, j, k), SplitTo(nid, p, j, k),
         \A x : Taken(x)' <=> \E m \in Nodes \ {nid} : TakenBy(m, x)
  PROVE  MarksInv'
<1> DEFINE b(i) == pfn_to_buddy(p, i)
<1>1. /\ FreeBlocks' = FreeBlocks \cup (Pieces(p, k, j) \ {Block(p, k)})
      /\ held' = (held \ {Block(p, j)}) \cup {Block(p, k)}
      /\ AllBlocks' = (AllBlocks \ {Block(p, j)}) \cup Pieces(p, k, j)
  BY SplitBlocks
<1>2. /\ usage'[p] = "IN_USE"
      /\ \A i \in k .. (j - 1) : usage'[b(i)] = "PAGE_ALLOCATOR" /\ order'[b(i)] = i
      /\ \A q \in Pages : q # p /\ (\A i \in k .. (j - 1) : q # b(i)) =>
           usage'[q] = usage[q] /\ order'[q] = order[q]
  BY SplitMarks
<1>3. /\ p \in Pages /\ p \in Nat /\ Block(p, j) \in held /\ Block(p, j) \notin FreeBlocks
      /\ j \in Orders /\ j \in Nat /\ k \in Nat /\ k <= j /\ nid \in Nodes
      /\ \A x \in AllBlocks : x.pfn = p => x = Block(p, j)
      /\ \A m \in Nodes : Has(m, Block(p, j)) => m = nid
  BY DescentFacts
<1>4. \A x \in AllBlocks : x # Block(p, j) =>
        x.pfn \in Pages /\ x.pfn # p /\ \A i \in k .. (j - 1) : x.pfn # b(i)
  BY SplitNames
<1>5. FreeBlocks \subseteq AllBlocks /\ held \subseteq AllBlocks
  BY DEF AllBlocks
<1>6. \A i \in k .. (j - 1) : i \in Nat /\ i < j /\ b(i) \in Nat
  BY HalvesFacts
<1> HIDE DEF b
<1>7. ASSUME NEW x \in FreeBlocks'
      PROVE  usage'[x.pfn] = "PAGE_ALLOCATOR" /\ order'[x.pfn] = x.order
  <2>1. CASE x \in FreeBlocks
    BY <1>2, <1>3, <1>4, <1>5, <2>1 DEF PageInv, MarksInv
  <2>2. CASE x \in Pieces(p, k, j) \ {Block(p, k)}
    <3>1. PICK i \in k .. (j - 1) : x = Block(b(i), i)
      BY <2>2 DEF Pieces, b
    <3>2. QED
      BY <1>2, <3>1 DEF Block
  <2>3. QED
    BY <1>1, <2>1, <2>2
<1>8. ASSUME NEW x \in held'
      PROVE  IF Taken(x)' THEN usage'[x.pfn] = "PAGE_ALLOCATOR" /\ order'[x.pfn] = x.order
                          ELSE usage'[x.pfn] = "IN_USE"
  <2>1. CASE x = Block(p, k)
    <3>1. x.pfn = p
      BY <2>1 DEF Block
    <3>2. ~Taken(x)'
      <4> SUFFICES ASSUME NEW m \in Nodes \ {nid}, TakenBy(m, x) PROVE FALSE
        OBVIOUS
      <4>1. Has(m, x)
        BY DEF TakenBy, Has
      <4>2. x \in AllBlocks
        BY <4>1, HandFacts
      <4>3. x = Block(p, j)
        BY <1>3, <3>1, <4>2
      <4>4. QED
        BY <1>3, <4>1, <4>3
    <3>3. QED
      BY <1>2, <3>1, <3>2
  <2>2. CASE x # Block(p, k)
    <3>1. x \in held /\ x # Block(p, j) /\ x \in AllBlocks
      BY <1>1, <1>5, <2>2
    <3>2. usage'[x.pfn] = usage[x.pfn] /\ order'[x.pfn] = order[x.pfn]
      BY <1>2, <1>4, <3>1
    <3>3. Taken(x)' <=> Taken(x)
      BY <1>3, <3>1 DEF Taken, TakenBy, SplitFinds
    <3>4. QED
      BY <3>1, <3>2, <3>3 DEF PageInv, MarksInv
  <2>3. QED
    BY <2>1, <2>2
<1>9. ASSUME NEW q \in Pages, usage'[q] = "PAGE_ALLOCATOR"
      PROVE  \E x \in AllBlocks' : Covers(x, q) /\
                (q # x.pfn => order'[q] < x.order /\ Mirror(q, x.pfn, order'[q]))
  <2>1. CASE \E i \in k .. (j - 1) : q = b(i)
    <3>1. PICK i \in k .. (j - 1) : q = b(i)
      BY <2>1
    <3>2. Block(b(i), i) \in AllBlocks'
      BY <1>1 DEF Pieces, b
    <3>3. Covers(Block(b(i), i), q) /\ Block(b(i), i).pfn = q
      BY <3>1 DEF Covers, Block
    <3>4. QED
      BY <3>2, <3>3
  <2>2. CASE \A i \in k .. (j - 1) : q # b(i)
    <3> DEFINE o == order[q]
    <3>1. q # p /\ usage[q] = "PAGE_ALLOCATOR" /\ order'[q] = o /\ q \in Nat
      BY <1>2, <1>9, <2>2, OrderFacts
    <3>2. PICK x \in AllBlocks : Covers(x, q) /\ (q # x.pfn => o < x.order /\ Mirror(q, x.pfn, o))
      BY <3>1 DEF PageInv, MarksInv
    <3>3. o \in Nat
      BY OrderFacts DEF PageInv, StateInv
    <3> HIDE DEF o
    <3>4. CASE x # Block(p, j)
      BY <1>1, <3>1, <3>2, <3>4
    <3>5. CASE x = Block(p, j)
      <4>1. Nr(q, j) = Nr(p, j) /\ o < j /\ Mirror(q, p, o)
        BY <3>1, <3>2, <3>5 DEF Block, Covers
      <4>2. CASE Nr(q, k) = Nr(p, k)
        <5>1. o < k
          BY <1>3, <3>1, <3>3, <4>1, <4>2, MirrorIn
        <5>2. Block(p, k) \in AllBlocks' /\ Covers(Block(p, k), q)
          BY <1>1, <4>2 DEF Pieces, Covers, Block
        <5>3. QED
          BY <3>1, <4>1, <5>1, <5>2 DEF Block
      <4>3. CASE Nr(q, k) # Nr(p, k)
        <5>1. PICK i \in k .. (j - 1) : Nr(q, i) = Nr(b(i), i)
          BY <1>3, <3>1, <4>1, <4>3, SomePiece DEF b
        <5>2. i \in Nat /\ b(i) \in Nat /\ q # b(i)
          BY <1>6, <2>2
        <5>3. o < i
          BY <1>3, <3>1, <3>3, <4>1, <5>1, <5>2, MirrorPiece DEF b
        <5>4. Mirror(q, b(i), o)
          BY <1>3, <3>1, <3>3, <4>1, <5>2, <5>3, MirrorMoves DEF b
        <5>5. Block(b(i), i) \in AllBlocks' /\ Covers(Block(b(i), i), q)
          BY <1>1, <5>1 DEF Pieces, Covers, Block, b
        <5>6. QED
          BY <3>1, <5>3, <5>4, <5>5 DEF Block
      <4>4. QED
        BY <4>2, <4>3
    <3>6. QED
      BY <3>4, <3>5
  <2>3. QED
    BY <2>1, <2>2
<1>10. QED
  BY <1>7, <1>8, <1>9 DEF MarksInv, Pages

LEMMA SplitPlaces ==
  ASSUME PageInv, NEW nid, NEW p, NEW j, NEW k, SplitFinds(nid, p, j, k), SplitTo(nid, p, j, k)
  PROVE  PlacesInv'
<1>1. /\ \A n \in Nodes, i \in Orders : Once(free_page_lists'[n][i])
      /\ \A n \in Nodes, x \in Blocks : Listed(n, x)' <=>
           Listed(n, x) \/ (n = nid /\ x \in Pieces(p, k, j) \ {Block(p, k)})
  BY SplitLists
<1>2. ASSUME NEW n \in Nodes, NEW x \in Blocks, Listed(n, x)
      PROVE  x \notin Pieces(p, k, j) \ {Block(p, k)}
  <2>1. x \in AllBlocks /\ x # Block(p, j)
    BY <1>2, DescentFacts DEF AllBlocks, FreeBlocks
  <2>2. \A i \in k .. (j - 1) : x.pfn # pfn_to_buddy(p, i)
    BY <2>1, SplitNames
  <2>3. QED
    BY <2>2 DEF Pieces, Block
<1>3. ASSUME NEW m \in Nodes, NEW n \in Nodes, NEW x \in Blocks, Listed(m, x)', Listed(n, x)'
      PROVE  m = n
  <2>1. Listed(m, x) /\ Listed(n, x) => m = n
    BY DEF PageInv, PlacesInv
  <2>2. QED
    BY <1>1, <1>2, <1>3, <2>1
<1>4. FreeBlocks' \cap held' = {}
  BY SplitBlocks
<1>5. QED
  BY <1>1, <1>3, <1>4 DEF PlacesInv, Once, Orders, Blocks, Pages

LEMMA IdleFacts == Idle \in Operations /\ Idle.step = "idle"
BY DEF Idle, Operations, Steps

LEMMA SplitStep ==
  ASSUME PageInv, NEW nid \in Nodes, Split(nid)
  PROVE  PageInv'
<1>1. PICK p, j, k : op[nid].block = Block(p, j) /\ op[nid].want = k
  <2>1. Has(nid, op[nid].block)
    BY DEF Split, OpAt, Has
  <2>2. QED
    BY <2>1, HandFacts
<1>2. SplitFinds(nid, p, j, k) /\ SplitTo(nid, p, j, k) /\ UNCHANGED layout
      /\ op' = [op EXCEPT ![nid] = Idle]
  BY <1>1 DEF Split, OpAt, SplitFinds, Block
<1>3. /\ Block(p, k) \in Blocks /\ Block(p, j) \in held
  BY <1>2, DescentFacts
<1>4. held' = (held \ {Block(p, j)}) \cup {Block(p, k)}
  BY <1>2, SplitBlocks
<1>5. /\ OpInv' /\ op' \in [Nodes -> Operations]
      /\ \A x : Taken(x)' <=> \E m \in Nodes \ {nid} : TakenBy(m, x)
  <2>1. \A x \in held : ~Has(nid, x) => x \in held'
    BY <1>2, <1>4 DEF Has, SplitFinds
  <2>2. QED
    BY <1>2, <2>1, IdleFacts, OthersKeep
<1>6. PartitionInv' /\ PlacesInv' /\ MarksInv'
  BY <1>2, <1>5, SplitPartition, SplitPlaces, SplitMarksInv
<1>7. StateInv'
  <2>1. free_page_lists' \in [Nodes -> [Orders -> Seq(Pages)]]
    BY <1>2, SplitLists
  <2>2. usage' \in [Pages -> Usages] /\ order' \in [Pages -> Orders]
    BY <1>2, SplitMarks
  <2>3. held' \subseteq Blocks
    BY <1>3, <1>4 DEF PageInv, StateInv
  <2>4. QED
    BY <1>2, <1>5, <2>1, <2>2, <2>3, StateKept
<1>8. QED
  BY <1>5, <1>6, <1>7 DEF PageInv

-----------------------------------------------------------------------------
(* Free *)

\* A step of which only an operation knows.
LEMMA InHandStep ==
  ASSUME PageInv, NEW n \in Nodes, NEW o \in Operations, op' = [op EXCEPT ![n] = o],
         UNCHANGED <<free_page_lists, usage, order, held, layout>>,
         op[n].step # "split", o.step \notin {"idle", "split"},
         o.block \in held, \A m \in Nodes \ {n} : ~Has(m, o.block),
         o.step = "erase" => o.block.order < MAX_ORDER
  PROVE  PageInv'
<1>1. /\ OpInv' /\ op' \in [Nodes -> Operations]
      /\ \A x : Taken(x)' <=> \/ \E m \in Nodes \ {n} : TakenBy(m, x)
                              \/ o.step = "split" /\ o.block = x
  BY OthersKeep
<1>2. \A x : Taken(x)' <=> Taken(x)
  BY <1>1 DEF Taken, TakenBy
<1>3. FreeBlocks' = FreeBlocks /\ held' = held /\ AllBlocks' = AllBlocks
  BY DEF AllBlocks, FreeBlocks, Listed, On, Blocks, Pages, Orders
<1>4. StateInv' /\ Memory' = Memory
  BY <1>1, StateKept DEF PageInv, StateInv
<1>5. PartitionInv'
  BY <1>3, <1>4 DEF PageInv, PartitionInv, Apart, Covered
<1>6. PlacesInv'
  BY <1>3 DEF PageInv, PlacesInv, Listed, On, Once, Blocks, Pages, Orders
<1>7. MarksInv'
  BY <1>2, <1>3 DEF PageInv, MarksInv, Pages
<1>8. QED
  BY <1>1, <1>4, <1>5, <1>6, <1>7 DEF PageInv

LEMMA FreeStep ==
  ASSUME PageInv, NEW n \in Nodes, NEW b, Free(n, b)
  PROVE  PageInv'
<1> DEFINE o == [step |-> "test", block |-> b, want |-> 0]
<1>1. /\ op[n].step = "idle" /\ b \in held /\ \A m \in Nodes : ~Has(m, b)
      /\ op' = [op EXCEPT ![n] = o]
      /\ UNCHANGED <<free_page_lists, usage, order, held, layout>>
  BY DEF Free, OpAt, WithCallers
<1>2. b \in [pfn : Nat, order : Nat]
  <2>1. b \in Blocks
    BY <1>1 DEF PageInv, StateInv
  <2>2. QED
    BY <2>1, OrderFacts DEF Blocks
<1>3. o \in Operations
  BY <1>2 DEF Operations, Steps
<1>4. o.step = "test" /\ o.block = b
  OBVIOUS
<1> HIDE DEF o
<1>5. QED
  BY <1>1, <1>3, <1>4, InHandStep

LEMMA TestStep ==
  ASSUME PageInv, NEW n \in Nodes, Test(n)
  PROVE  PageInv'
<1> DEFINE b == op[n].block
<1>1. PICK s \in {"erase", "push"} :
        /\ op[n].step = "test" /\ op' = [op EXCEPT ![n].step = s]
        /\ s = "erase" => b.order < MAX_ORDER
        /\ UNCHANGED <<free_page_lists, usage, order, held, layout>>
  BY DEF Test, OpAt, Passes
<1>2. Has(n, b) /\ op \in [Nodes -> Operations]
  BY <1>1 DEF Has, PageInv, StateInv
<1>3. b \in held /\ \A m \in Nodes \ {n} : ~Has(m, b)
  BY <1>2, HandFacts
<1>4. PICK o \in Operations : o = [op[n] EXCEPT !.step = s]
  BY <1>2 DEF Operations, Steps
<1>5. o.step = s /\ o.block = b /\ op' = [op EXCEPT ![n] = o]
  BY <1>1, <1>2, <1>4 DEF Operations
<1> HIDE DEF b
<1>6. QED
  BY <1>1, <1>3, <1>5, InHandStep

\* A buddy that passes the test of Free is the name of a free block, or of one
\* that another node's Alloc has taken.
LEMMA FoundFree ==
  ASSUME PageInv, NEW n \in Nodes, NEW b, Has(n, b), op[n].step # "split",
         BuddyFree(b.pfn, b.order)
  PROVE  LET X == Block(pfn_to_buddy(b.pfn, b.order), b.order) IN
         X \in FreeBlocks \/ \E d \in Nodes \ {n} : TakenBy(d, X)
<1> DEFINE p == b.pfn
           i == b.order
           q == pfn_to_buddy(p, i)
<1>1. b \in AllBlocks /\ p \in Nat /\ i \in Nat /\ Covers(b, p)
  BY HandFacts, AllBlocksFacts
<1>2. q \in Pages /\ usage[q] = "PAGE_ALLOCATOR" /\ order[q] = i
  BY DEF BuddyFree
<1> HIDE DEF q
<1>3. PICK x \in AllBlocks : Covers(x, q) /\ (q # x.pfn => i < x.order /\ Mirror(q, x.pfn, i))
  BY <1>2 DEF PageInv, MarksInv
<1>4. x.order \in Nat /\ x.pfn \in Nat /\ x = Block(x.pfn, x.order)
  BY AllBlocksFacts, OrderFacts
<1>5. CASE q = x.pfn
  <2>1. CASE x \in FreeBlocks
    <3>1. x.order = i
      BY <1>2, <1>5, <2>1 DEF PageInv, MarksInv
    <3>2. QED
      BY <1>4, <1>5, <2>1, <3>1 DEF q
  <2>2. CASE x \in held
    <3>1. Taken(x) /\ x.order = i
      BY <1>2, <1>5, <2>2 DEF PageInv, MarksInv
    <3>2. PICK d \in Nodes : TakenBy(d, x)
      BY <3>1 DEF Taken
    <3>3. d # n
      <4>1. x = op[n].block /\ op[n].step = "split" => FALSE
        OBVIOUS
      <4>2. QED
        BY <3>2, <4>1 DEF TakenBy
    <3>4. QED
      BY <1>4, <1>5, <3>1, <3>2, <3>3 DEF q
  <2>3. QED
    BY <2>1, <2>2 DEF AllBlocks
<1>6. CASE q # x.pfn
  <2>1. i < x.order
    BY <1>3, <1>6
  <2>2. Nr(q, x.order) = Nr(p, x.order)
    BY <1>1, <1>4, <2>1, BuddyNested DEF q
  <2>3. Covers(x, p)
    BY <1>3, <2>2 DEF Covers
  <2>4. x = b
    BY <1>1, <2>3, SameBlock
  <2>5. QED
    BY <1>1, <2>1, <2>4
<1>7. QED
  BY <1>5, <1>6

\* Free's test passes only what is free: for the run's property.
LEMMA FreesWhatIsFree ==
  ASSUME PageInv
  PROVE  CoalescesOnlyFreeBlocks
<1> SUFFICES ASSUME NEW n \in Nodes, op[n].step = "test", Passes(op[n].block)
             PROVE  LET b == op[n].block IN
                    \/ \E d \in Nodes : BuddyOn(d, b)
                    \/ Taking(n, pfn_to_buddy(b.pfn, b.order), b.order)
  BY DEF CoalescesOnlyFreeBlocks
<1> DEFINE b == op[n].block
           X == Block(pfn_to_buddy(b.pfn, b.order), b.order)
<1>1. Has(n, b) /\ BuddyFree(b.pfn, b.order)
  BY DEF Has, Passes
<1>2. X \in FreeBlocks \/ \E d \in Nodes \ {n} : TakenBy(d, X)
  BY <1>1, FoundFree
<1>3. QED
  BY <1>2 DEF FreeBlocks, Listed, BuddyOn, Block, TakenBy, Taking

\* What an Erase finds that no other node disturbs.
MergeFinds(n, b) ==
  /\ n \in Nodes /\ Has(n, b) /\ op[n].step = "erase"
  /\ Block(pfn_to_buddy(b.pfn, b.order), b.order) \in FreeBlocks

LEMMA MergeFacts ==
  ASSUME PageInv, NEW n, NEW b, MergeFinds(n, b)
  PROVE  LET p == b.pfn
             i == b.order
             X == Block(pfn_to_buddy(p, i), i) IN
         /\ p \in Pages /\ p \in Nat /\ i \in Orders /\ i \in Nat /\ i + 1 \in Orders
         /\ pfn_to_buddy(p, i) \in Nat /\ b = Block(p, i) /\ Block(p, i + 1) \in Blocks
         /\ Pieces(p, i, i + 1) = {b, X} /\ Pieces(p, i, i + 1) \subseteq AllBlocks
<1> DEFINE p == b.pfn
           i == b.order
<1>1. /\ p \in Pages /\ p \in Nat /\ i \in Orders /\ i \in Nat /\ b = Block(p, i)
      /\ b \in AllBlocks
  BY HandFacts DEF MergeFinds
<1>2. i < MAX_ORDER
  BY DEF MergeFinds, PageInv, OpInv, Has
<1>3. i + 1 \in Orders
  BY <1>1, <1>2, OrderFacts DEF Orders
<1>4. i .. ((i + 1) - 1) = {i}
  BY <1>1
<1>5. Pieces(p, i, i + 1) = {b, Block(pfn_to_buddy(p, i), i)}
  BY <1>1, <1>4 DEF Pieces
<1>6. Pieces(p, i, i + 1) \subseteq AllBlocks
  BY <1>1, <1>5 DEF MergeFinds, AllBlocks
<1>7. QED
  BY <1>1, <1>3, <1>5, <1>6, OrderFacts, BuddyFacts

\* The lists after an erase, wherever the buddy was.
LEMMA MergeTypes ==
  ASSUME PageInv, NEW n \in Nodes, NEW b, Has(n, b), Merge(n, b)
  PROVE  /\ free_page_lists' \in [Nodes -> [Orders -> Seq(Pages)]]
         /\ \A d \in Nodes, i \in Orders : Once(free_page_lists'[d][i])
         /\ \A d \in Nodes, x \in Blocks : Listed(d, x)' <=>
              Listed(d, x) /\ x # Block(pfn_to_buddy(b.pfn, b.order), b.order)
<1> DEFINE L == free_page_lists
           k == b.order
           q == pfn_to_buddy(b.pfn, b.order)
<1>1. L \in [Nodes -> [Orders -> Seq(Pages)]] /\ \A d \in Nodes, i \in Orders : Once(L[d][i])
  BY DEF PageInv, StateInv, PlacesInv
<1>2. k \in Orders /\ k \in Nat
  BY HandFacts
<1>3. L' = [d \in Nodes |-> [L[d] EXCEPT ![k] = Without(@, q)]]
  BY DEF Merge
<1> HIDE DEF k, q
<1>4. \A d \in Nodes :
        /\ Without(L[d][k], q) \in Seq(Pages) /\ Once(Without(L[d][k], q))
        /\ \A x : On(Without(L[d][k], q), x) <=> On(L[d][k], x) /\ x # q
  BY <1>1, <1>2, WithoutFacts
<1>5. /\ L' \in [Nodes -> [Orders -> Seq(Pages)]]
      /\ \A d \in Nodes : L'[d][k] = Without(L[d][k], q)
      /\ \A d \in Nodes, i \in Orders : i # k => L'[d][i] = L[d][i]
  BY <1>1, <1>2, <1>3, <1>4
<1>6. \A d \in Nodes, i \in Orders : Once(L'[d][i])
  BY <1>1, <1>4, <1>5
<1>7. ASSUME NEW d \in Nodes, NEW x \in Blocks
      PROVE  Listed(d, x)' <=> Listed(d, x) /\ x # Block(q, k)
  <2>1. /\ x.order \in Orders /\ (x = Block(q, k) <=> x.pfn = q /\ x.order = k)
    BY OrderFacts DEF Block
  <2>2. Listed(d, x)' <=> On(L'[d][x.order], x.pfn)
    BY DEF Listed, On
  <2>3. Listed(d, x) <=> On(L[d][x.order], x.pfn)
    BY DEF Listed
  <2>4. CASE x.order = k
    BY <1>4, <1>5, <2>1, <2>2, <2>3, <2>4
  <2>5. CASE x.order # k
    BY <1>5, <2>1, <2>2, <2>3, <2>5
  <2>6. QED
    BY <2>4, <2>5
<1>8. QED
  BY <1>5, <1>6, <1>7 DEF k, q

\* The blocks after a merge: the merged block is in the place of its halves.
LEMMA MergeBlocks ==
  ASSUME PageInv, NEW n, NEW b, MergeFinds(n, b), Merge(n, b), UNCHANGED <<usage, order>>
  PROVE  LET X == Block(pfn_to_buddy(b.pfn, b.order), b.order)
             M == Block(b.pfn, b.order + 1) IN
         /\ FreeBlocks' = FreeBlocks \ {X} /\ held' = (held \ {b}) \cup {M}
         /\ AllBlocks' = (AllBlocks \ {b, X}) \cup {M}
         /\ FreeBlocks' \cap held' = {}
         /\ \A i, d \in Nodes : \A x \in Blocks : Listed(i, x)' /\ Listed(d, x)' => i = d
         /\ \A d \in Nodes, k \in Orders : Once(free_page_lists[d][k])'
         /\ \A x \in FreeBlocks' : usage'[x.pfn] = "PAGE_ALLOCATOR" /\ order'[x.pfn] = x.order
<1> DEFINE X == Block(pfn_to_buddy(b.pfn, b.order), b.order)
           M == Block(b.pfn, b.order + 1)
<1>1. n \in Nodes /\ Has(n, b) /\ X \in FreeBlocks /\ X \in Blocks
  BY DEF MergeFinds, FreeBlocks
<1>2. /\ free_page_lists' \in [Nodes -> [Orders -> Seq(Pages)]]
      /\ \A d \in Nodes, i \in Orders : Once(free_page_lists'[d][i])
      /\ \A d \in Nodes, x \in Blocks : Listed(d, x)' <=> Listed(d, x) /\ x # X
  BY <1>1, MergeTypes
<1>3. /\ b \in held /\ b \in AllBlocks /\ b \notin FreeBlocks
      /\ \A x \in AllBlocks : x.pfn = b.pfn => x = b
  BY <1>1, HandFacts
<1>4. held' = (held \ {b}) \cup {M}
  BY DEF Merge, Block
<1>5. M.pfn = b.pfn
  BY DEF Block
<1> HIDE DEF X, M
<1>6. /\ FreeBlocks' = FreeBlocks \ {X}
      /\ \A d \in Nodes, k \in Orders : Once(free_page_lists[d][k])'
      /\ \A i, d \in Nodes : \A x \in Blocks : Listed(i, x)' /\ Listed(d, x)' => i = d
      /\ \A x \in FreeBlocks' : usage'[x.pfn] = "PAGE_ALLOCATOR" /\ order'[x.pfn] = x.order
  BY <1>1, <1>2, Unlisted
<1>7. FreeBlocks \cap held = {} /\ AllBlocks' = FreeBlocks' \cup held'
  BY AllBlocksFacts DEF AllBlocks
<1>8. AllBlocks' = (AllBlocks \ {b, X}) \cup {M}
  BY <1>1, <1>3, <1>4, <1>6, <1>7 DEF AllBlocks
<1>9. M \notin FreeBlocks
  BY <1>3, <1>5 DEF AllBlocks
<1>10. FreeBlocks' \cap held' = {}
  BY <1>4, <1>6, <1>7, <1>9
<1>11. QED
  BY <1>4, <1>6, <1>8, <1>10 DEF X, M

\* A merge keeps the partition.
LEMMA MergePartition ==
  ASSUME PageInv, NEW n, NEW b, MergeFinds(n, b), Merge(n, b), UNCHANGED <<usage, order, layout>>
  PROVE  PartitionInv'
<1> DEFINE p == b.pfn
           i == b.order
           P == Pieces(p, i, i + 1)
           M == Block(p, i + 1)
<1>1. p \in Nat /\ i \in Nat /\ P \in SUBSET AllBlocks
      /\ P = {b, Block(pfn_to_buddy(p, i), i)}
  BY MergeFacts
<1>2. AllBlocks' = (AllBlocks \ P) \cup {M}
  BY <1>1, MergeBlocks
<1>3. Apart(AllBlocks) /\ \A q \in Nat : q \in Memory <=> Covered(AllBlocks, q)
  BY DEF PageInv, PartitionInv
<1>4. \A q \in Nat : Covered(P, q) <=> Covered({M}, q)
  <2> TAKE q \in Nat
  <2>1. Covered({M}, q) <=> Covers(M, q)
    BY DEF Covered
  <2>2. i + 1 \in Nat /\ i <= i + 1
    BY <1>1
  <2>3. QED
    BY <1>1, <2>1, <2>2, PiecesCover
<1> HIDE DEF P, M
<1>5. Apart({M})
  BY DEF Apart
<1>6. /\ Apart((AllBlocks \ P) \cup {M})
      /\ \A q \in Nat : Covered((AllBlocks \ P) \cup {M}, q) <=> Covered(AllBlocks, q)
  BY <1>1, <1>3, <1>4, <1>5, Replace
<1>7. Apart(AllBlocks') /\ \A q \in Nat : Covered(AllBlocks', q) <=> Covered(AllBlocks, q)
  BY <1>2, <1>6
<1>8. Memory' = Memory
  BY DEF Memory
<1>9. QED
  BY <1>3, <1>7, <1>8 DEF PartitionInv, Apart, Covered

\* A merge keeps what is known of the marks: those of the halves stay where
\* they are, and lie in the merged block below its order.
LEMMA MergeMarksInv ==
  ASSUME PageInv, NEW n, NEW b, MergeFinds(n, b), Merge(n, b), UNCHANGED <<usage, order>>,
         \A x : Taken(x)' <=> \E m \in Nodes \ {n} : TakenBy(m, x)
  PROVE  MarksInv'
<1> DEFINE p == b.pfn
           i == b.order
           s == pfn_to_buddy(p, i)
           X == Block(s, i)
           M == Block(p, i + 1)
<1>1. /\ p \in Pages /\ p \in Nat /\ i \in Nat /\ b = Block(p, i) /\ s \in Nat
      /\ Pieces(p, i, i + 1) = {b, X}
  BY MergeFacts
<1>2. /\ n \in Nodes /\ Has(n, b) /\ op[n].step = "erase" /\ X \in FreeBlocks
  BY DEF MergeFinds
<1>3. /\ b \in held /\ \A x \in AllBlocks : x.pfn = p => x = b
      /\ \A m \in Nodes : Has(m, b) => m = n
  BY <1>2, HandFacts
<1>4. /\ held' = (held \ {b}) \cup {M} /\ AllBlocks' = (AllBlocks \ {b, X}) \cup {M}
      /\ \A x \in FreeBlocks' : usage'[x.pfn] = "PAGE_ALLOCATOR" /\ order'[x.pfn] = x.order
  BY MergeBlocks
<1>5. M.pfn = p /\ M.order = i + 1 /\ X.pfn = s /\ X.order = i /\ b.pfn = p /\ b.order = i
  BY DEF Block
<1>6. Mirror(s, p, i)
  BY <1>1, MirrorBuddy
<1>7. usage[p] = "IN_USE"
  <2>1. ~Taken(b)
    BY <1>2, <1>3 DEF Taken, TakenBy, Has
  <2>2. QED
    BY <1>3, <2>1 DEF PageInv, MarksInv
<1> HIDE DEF X, M, s
<1>8. ASSUME NEW x \in held'
      PROVE  IF Taken(x)' THEN usage'[x.pfn] = "PAGE_ALLOCATOR" /\ order'[x.pfn] = x.order
                          ELSE usage'[x.pfn] = "IN_USE"
  <2>1. CASE x = M
    <3>1. ~Taken(x)'
      <4> SUFFICES ASSUME NEW m \in Nodes \ {n}, TakenBy(m, x) PROVE FALSE
        OBVIOUS
      <4>1. Has(m, x)
        BY DEF TakenBy, Has
      <4>2. x = b
        BY <1>3, <1>5, <2>1, <4>1, HandFacts
      <4>3. QED
        BY <1>3, <4>1, <4>2
    <3>2. QED
      BY <1>5, <1>7, <2>1, <3>1
  <2>2. CASE x # M
    <3>1. x \in held /\ x # b
      BY <1>4, <2>2
    <3>2. Taken(x)' <=> Taken(x)
      BY <1>2 DEF Taken, TakenBy
    <3>3. QED
      BY <3>1, <3>2 DEF PageInv, MarksInv
  <2>3. QED
    BY <2>1, <2>2
<1>9. ASSUME NEW q \in Pages, usage'[q] = "PAGE_ALLOCATOR"
      PROVE  \E x \in AllBlocks' : Covers(x, q) /\
                (q # x.pfn => order'[q] < x.order /\ Mirror(q, x.pfn, order'[q]))
  <2> DEFINE o == order[q]
  <2>1. usage[q] = "PAGE_ALLOCATOR" /\ order'[q] = o /\ q \in Nat /\ o \in Nat /\ q # p
    BY <1>7, <1>9, OrderFacts DEF PageInv, StateInv
  <2>2. PICK x \in AllBlocks : Covers(x, q) /\ (q # x.pfn => o < x.order /\ Mirror(q, x.pfn, o))
    BY <2>1 DEF PageInv, MarksInv
  <2>3. order[s] = i
    BY <1>2, <1>5 DEF PageInv, MarksInv
  <2> HIDE DEF o
  <2>4. CASE x \notin {b, X}
    BY <1>4, <2>1, <2>2, <2>4
  <2>5. CASE x \in {b, X}
    <3>1. Covers(M, q)
      <4>1. Covered(Pieces(p, i, i + 1), q)
        BY <1>1, <2>2, <2>5 DEF Covered
      <4>2. i + 1 \in Nat /\ i <= i + 1
        BY <1>1
      <4>3. QED
        BY <1>1, <2>1, <4>1, <4>2, PiecesCover DEF M
    <3>2. o < i + 1 /\ Mirror(q, p, o)
      <4>1. CASE x = b
        <5>1. o < i /\ Mirror(q, p, o)
          BY <2>1, <2>2, <4>1
        <5>2. QED
          BY <1>1, <2>1, <5>1
      <4>2. CASE x = X /\ q = s
        <5>1. o = i
          BY <2>3, <4>2 DEF o
        <5>2. QED
          BY <1>1, <1>6, <4>2, <5>1
      <4>3. CASE x = X /\ q # s
        <5>1. o < i /\ Mirror(q, s, o)
          BY <1>5, <2>2, <4>3
        <5>2. Mirror(q, p, o)
          BY <1>1, <1>6, <2>1, <5>1, MirrorMoves DEF s
        <5>3. QED
          BY <1>1, <2>1, <5>1, <5>2
      <4>4. QED
        BY <2>5, <4>1, <4>2, <4>3
    <3>3. QED
      BY <1>4, <1>5, <2>1, <3>1, <3>2
  <2>6. QED
    BY <2>4, <2>5
<1>10. QED
  BY <1>4, <1>8, <1>9 DEF MarksInv, Pages

LEMMA MergeStep ==
  ASSUME PageInv, NEW n, NEW b, MergeFinds(n, b), Merge(n, b), UNCHANGED <<usage, order, layout>>
  PROVE  PageInv'
<1> DEFINE M == Block(b.pfn, b.order + 1)
           o == [step |-> "test", block |-> M, want |-> 0]
<1>1. /\ n \in Nodes /\ Has(n, b)
  BY DEF MergeFinds
<1>2. /\ b.pfn \in Nat /\ b.order + 1 \in Orders /\ b.order + 1 \in Nat /\ M \in Blocks
  BY MergeFacts, OrderFacts
<1>3. \A x \in AllBlocks : x.pfn = b.pfn => x = b
  BY <1>1, HandFacts
<1>4. /\ held' = (held \ {b}) \cup {M} /\ FreeBlocks' \cap held' = {}
      /\ \A i, d \in Nodes : \A x \in Blocks : Listed(i, x)' /\ Listed(d, x)' => i = d
      /\ \A d \in Nodes, k \in Orders : Once(free_page_lists[d][k])'
  BY MergeBlocks
<1>5. o \in Operations /\ o.step = "test" /\ o.block = M
  <2>1. M \in [pfn : Nat, order : Nat]
    BY <1>2 DEF Block
  <2>2. QED
    BY <2>1 DEF Operations, Steps
<1>6. op' = [op EXCEPT ![n] = o]
  BY DEF Merge, Block
<1>7. M.pfn = b.pfn
  BY DEF Block
<1> HIDE DEF o, M
<1>8. \A m \in Nodes \ {n} : ~Has(m, M)
  <2> SUFFICES ASSUME NEW m \in Nodes \ {n}, Has(m, M) PROVE FALSE
    OBVIOUS
  <2>1. M = b
    BY <1>3, <1>7, HandFacts
  <2>2. QED
    BY <1>1, <2>1, HandFacts
<1>9. \A x \in held : ~Has(n, x) => x \in held'
  BY <1>1, <1>4
<1>10. /\ OpInv' /\ op' \in [Nodes -> Operations]
       /\ \A x : Taken(x)' <=> \/ \E m \in Nodes \ {n} : TakenBy(m, x)
                               \/ o.step = "split" /\ o.block = x
  BY <1>1, <1>4, <1>5, <1>6, <1>8, <1>9, OthersKeep
<1>11. \A x : Taken(x)' <=> \E m \in Nodes \ {n} : TakenBy(m, x)
  BY <1>5, <1>10
<1>12. PartitionInv' /\ MarksInv'
  BY <1>11, MergePartition, MergeMarksInv
<1>13. PlacesInv'
  BY <1>4 DEF PlacesInv, Orders, Blocks, Pages
<1>14. StateInv'
  <2>1. free_page_lists' \in [Nodes -> [Orders -> Seq(Pages)]]
    BY <1>1, MergeTypes
  <2>2. usage' \in [Pages -> Usages] /\ order' \in [Pages -> Orders] /\ held' \subseteq Blocks
    BY <1>2, <1>4 DEF PageInv, StateInv, M
  <2>3. QED
    BY <1>10, <2>1, <2>2, StateKept
<1>15. QED
  BY <1>10, <1>12, <1>13, <1>14 DEF PageInv

\* An erase that no other node disturbs keeps all of it.
LEMMA EraseStep ==
  ASSUME PageInv, NEW n \in Nodes, Erase(n), ~raced'
  PROVE  PageInv'
<1> DEFINE b == op[n].block
<1>1. op[n].step = "erase" /\ Undisturbed(n) /\ Merge(n, b) /\ UNCHANGED <<usage, order, layout>>
  BY DEF Erase, OpAt
<1>2. Has(n, b)
  BY <1>1 DEF Has
<1>3. PICK d \in Nodes : BuddyOn(d, b)
  BY <1>1 DEF Undisturbed
<1>4. Block(pfn_to_buddy(b.pfn, b.order), b.order) \in FreeBlocks
  <2> DEFINE q == pfn_to_buddy(b.pfn, b.order)
  <2>1. b.order \in Orders
    BY <1>2, HandFacts
  <2>2. PICK i \in 1 .. Len(free_page_lists[d][b.order]) : free_page_lists[d][b.order][i] = q
    BY <1>3 DEF BuddyOn, On
  <2>3. free_page_lists[d][b.order] \in Seq(Pages)
    BY <2>1 DEF PageInv, StateInv
  <2>4. q \in Pages
    BY <2>2, <2>3
  <2> HIDE DEF q
  <2>5. Block(q, b.order) \in Blocks
    BY <2>1, <2>4, OrderFacts
  <2>6. Listed(d, Block(q, b.order))
    BY <1>3 DEF BuddyOn, Listed, Block, q
  <2>7. QED
    BY <2>5, <2>6 DEF FreeBlocks, q
<1>5. MergeFinds(n, b)
  BY <1>1, <1>2, <1>4 DEF MergeFinds
<1> HIDE DEF b
<1>6. QED
  BY <1>1, <1>5, MergeStep

\* Even one that is disturbed keeps the types.
LEMMA EraseTypes ==
  ASSUME PageInv, NEW n \in Nodes, Erase(n)
  PROVE  TypeOK'
<1> DEFINE b == op[n].block
           M == [pfn |-> b.pfn, order |-> b.order + 1]
<1>1. op[n].step = "erase" /\ raced' \in BOOLEAN /\ UNCHANGED <<usage, order, layout>>
  BY DEF Erase, OpAt
<1>2. Has(n, b) /\ op \in [Nodes -> Operations] /\ b.order < MAX_ORDER
  BY <1>1 DEF Has, PageInv, StateInv, OpInv
<1>3. b.pfn \in Pages /\ b.pfn \in Nat /\ b.order \in Nat
  BY <1>2, HandFacts
<1>4. M \in Blocks /\ M \in [pfn : Nat, order : Nat]
  BY <1>2, <1>3, OrderFacts DEF Blocks, Orders
<1>5. CASE Merge(n, b)
  <2>1. free_page_lists' \in [Nodes -> [Orders -> Seq(Pages)]]
    BY <1>2, <1>5, MergeTypes
  <2>2. held' \subseteq Blocks
    BY <1>4, <1>5 DEF Merge, PageInv, StateInv
  <2>3. op' \in [Nodes -> Operations]
    <3>1. op' = [op EXCEPT ![n] = [step |-> "test", block |-> M, want |-> 0]]
      BY <1>5 DEF Merge
    <3>2. [step |-> "test", block |-> M, want |-> 0] \in Operations
      BY <1>4 DEF Operations, Steps
    <3> HIDE DEF M
    <3>3. QED
      BY <1>2, <3>1, <3>2
  <2>4. QED
    BY <1>1, <2>1, <2>2, <2>3
       DEF PageInv, StateInv, TypeOK, Pages, Orders, Usages, Blocks, GoodLayout, Operations, Steps
<1>6. CASE op' = [op EXCEPT ![n].step = "abort"] /\ UNCHANGED <<free_page_lists, held>>
  <2>1. op' \in [Nodes -> Operations]
    BY <1>2, <1>6 DEF Operations, Steps
  <2>2. QED
    BY <1>1, <1>6, <2>1
       DEF PageInv, StateInv, TypeOK, Pages, Orders, Usages, Blocks, GoodLayout, Operations, Steps
<1>7. QED
  BY <1>5, <1>6 DEF Erase

LEMMA PushStep ==
  ASSUME PageInv, NEW n \in Nodes, Push(n)
  PROVE  PageInv'
<1> DEFINE L == free_page_lists
<1>1. PICK b : /\ b = op[n].block /\ op[n].step = "push"
               /\ L' = [L EXCEPT ![n][b.order] = <<b.pfn>> \o @]
               /\ usage' = [usage EXCEPT ![b.pfn] = "PAGE_ALLOCATOR"]
               /\ order' = [order EXCEPT ![b.pfn] = b.order]
               /\ held' = held \ {b} /\ op' = [op EXCEPT ![n] = Idle] /\ UNCHANGED layout
  BY DEF Push, OpAt
<1>2. Has(n, b)
  BY <1>1 DEF Has
<1>3. /\ b \in held /\ b \in AllBlocks /\ b \in Blocks /\ b \notin FreeBlocks
      /\ b.pfn \in Pages /\ b.pfn \in Nat /\ b.order \in Orders /\ b.order \in Nat
      /\ b = Block(b.pfn, b.order)
      /\ \A x \in AllBlocks : x.pfn = b.pfn => x = b
      /\ \A m \in Nodes : Has(m, b) => m = n
  BY <1>2, HandFacts
<1> DEFINE p == b.pfn
           k == b.order
<1>4. L \in [Nodes -> [Orders -> Seq(Pages)]] /\ \A d \in Nodes, i \in Orders : Once(L[d][i])
  BY DEF PageInv, StateInv, PlacesInv
<1>5. ~On(L[n][k], p)
  <2>1. ~Listed(n, b)
    BY <1>3 DEF FreeBlocks
  <2>2. QED
    BY <2>1 DEF Listed
<1>6. /\ <<p>> \o L[n][k] \in Seq(Pages) /\ Once(<<p>> \o L[n][k])
      /\ \A x : On(<<p>> \o L[n][k], x) <=> On(L[n][k], x) \/ x = p
  BY <1>3, <1>4, <1>5, PushFacts
<1>7. /\ L' \in [Nodes -> [Orders -> Seq(Pages)]] /\ L'[n][k] = <<p>> \o L[n][k]
      /\ \A d \in Nodes, i \in Orders : ~ (d = n /\ i = k) => L'[d][i] = L[d][i]
  BY <1>1, <1>3, <1>4, <1>6
<1>8. \A d \in Nodes, i \in Orders : Once(L'[d][i])
  BY <1>3, <1>4, <1>6, <1>7
<1>9. ASSUME NEW d \in Nodes, NEW x \in Blocks
      PROVE  Listed(d, x)' <=> Listed(d, x) \/ (d = n /\ x = b)
  <2>1. /\ x.order \in Orders /\ (x = b <=> x.pfn = p /\ x.order = k)
    <3>1. x = Block(x.pfn, x.order) /\ x.order \in Orders
      BY OrderFacts
    <3>2. QED
      BY <1>3, <3>1
  <2>2. Listed(d, x)' <=> On(L'[d][x.order], x.pfn)
    BY DEF Listed, On
  <2>3. Listed(d, x) <=> On(L[d][x.order], x.pfn)
    BY DEF Listed
  <2>4. CASE d = n /\ x.order = k
    BY <1>6, <1>7, <2>1, <2>2, <2>3, <2>4
  <2>5. CASE ~ (d = n /\ x.order = k)
    BY <1>7, <2>1, <2>2, <2>3, <2>5
  <2>6. QED
    BY <2>4, <2>5
<1>10. FreeBlocks' = FreeBlocks \cup {b}
  BY <1>3, <1>9, FreeBlocksNow DEF FreeBlocks
<1>11. held' = held \ {b} /\ AllBlocks' = AllBlocks /\ FreeBlocks' \cap held' = {}
  <2>1. AllBlocks' = FreeBlocks' \cup held'
    BY DEF AllBlocks
  <2>2. QED
    BY <1>1, <1>3, <1>10, <2>1, AllBlocksFacts DEF AllBlocks
<1>12. /\ OpInv' /\ op' \in [Nodes -> Operations]
       /\ \A x : Taken(x)' <=> \E m \in Nodes \ {n} : TakenBy(m, x)
  <2>1. \A x \in held : ~Has(n, x) => x \in held'
    BY <1>2, <1>11
  <2>2. QED
    BY <1>1, <2>1, IdleFacts, OthersKeep
<1>13. PlacesInv'
  <2>1. ASSUME NEW d \in Nodes, NEW e \in Nodes, NEW x \in Blocks, Listed(d, x)', Listed(e, x)'
        PROVE  d = e
    <3>1. Listed(d, x) /\ Listed(e, x) => d = e
      BY DEF PageInv, PlacesInv
    <3>2. x = b => ~Listed(d, x) /\ ~Listed(e, x)
      BY <1>3 DEF FreeBlocks
    <3>3. QED
      BY <1>9, <2>1, <3>1, <3>2
  <2>2. QED
    BY <1>8, <1>11, <2>1 DEF PlacesInv, Once, Orders, Blocks, Pages
<1>14. StateInv' /\ Memory' = Memory
  <2>1. usage' \in [Pages -> Usages] /\ order' \in [Pages -> Orders] /\ held' \subseteq Blocks
    BY <1>1, <1>3 DEF PageInv, StateInv, Usages
  <2>2. QED
    BY <1>1, <1>7, <1>12, <2>1, StateKept
<1>15. PartitionInv'
  BY <1>11, <1>14 DEF PageInv, PartitionInv, Apart, Covered
<1>16. /\ usage'[p] = "PAGE_ALLOCATOR" /\ order'[p] = k
       /\ \A q \in Pages : q # p => usage'[q] = usage[q] /\ order'[q] = order[q]
  BY <1>1, <1>3 DEF PageInv, StateInv
<1>17. ASSUME NEW x \in AllBlocks, x # b
       PROVE  usage'[x.pfn] = usage[x.pfn] /\ order'[x.pfn] = order[x.pfn]
  <2>1. x.pfn \in Pages /\ x.pfn # p
    BY <1>3, <1>17, AllBlocksFacts, OrderFacts
  <2>2. QED
    BY <1>16, <2>1
<1>18. ASSUME NEW x \in FreeBlocks'
       PROVE  usage'[x.pfn] = "PAGE_ALLOCATOR" /\ order'[x.pfn] = x.order
  <2>1. CASE x = b
    BY <1>16, <2>1
  <2>2. CASE x # b
    BY <1>10, <1>17, <2>2 DEF PageInv, MarksInv, AllBlocks
  <2>3. QED
    BY <2>1, <2>2
<1>19. ASSUME NEW x \in held'
       PROVE  IF Taken(x)' THEN usage'[x.pfn] = "PAGE_ALLOCATOR" /\ order'[x.pfn] = x.order
                           ELSE usage'[x.pfn] = "IN_USE"
  <2>1. x \in held /\ x # b /\ x \in AllBlocks
    BY <1>11 DEF AllBlocks
  <2>2. Taken(x)' <=> Taken(x)
    BY <1>1, <1>12 DEF Taken, TakenBy
  <2>3. QED
    BY <1>17, <2>1, <2>2 DEF PageInv, MarksInv
<1>20. ASSUME NEW q \in Pages, usage'[q] = "PAGE_ALLOCATOR"
       PROVE  \E x \in AllBlocks' : Covers(x, q) /\
                 (q # x.pfn => order'[q] < x.order /\ Mirror(q, x.pfn, order'[q]))
  <2>1. CASE q = p
    BY <1>3, <1>11, <2>1, AllBlocksFacts
  <2>2. CASE q # p
    <3>1. usage[q] = "PAGE_ALLOCATOR" /\ order'[q] = order[q]
      BY <1>16, <1>20, <2>2
    <3>2. QED
      BY <1>11, <3>1 DEF PageInv, MarksInv
  <2>3. QED
    BY <2>1, <2>2
<1>21. MarksInv'
  BY <1>18, <1>19, <1>20 DEF MarksInv, Pages
<1>22. QED
  BY <1>12, <1>13, <1>14, <1>15, <1>21 DEF PageInv

LEMMA PageInvTypes ==
  ASSUME PageInv, raced \in BOOLEAN
  PROVE  TypeOK
BY DEF PageInv, StateInv, TypeOK

LEMMA PageNext ==
  ASSUME PagesInv, [Next]_paVars
  PROVE  PagesInv'
<1>1. ASSUME PageInv', raced' = FALSE
      PROVE  PagesInv'
  <2>1. TypeOK'
    BY <1>1 DEF PageInv, StateInv, TypeOK
  <2>2. QED
    BY <1>1, <2>1 DEF PagesInv
<1>2. ASSUME NEW nid \in Nodes, NEW k \in Orders, Alloc(nid, k)
      PROVE  PagesInv'
  <2>1. PageInv /\ ~raced /\ raced' = raced /\ raced \in BOOLEAN
    BY <1>2 DEF PagesInv, Alloc, OpAt, TypeOK
  <2>2. QED
    BY <1>1, <1>2, <2>1, AllocStep
<1>3. ASSUME NEW nid \in Nodes, Split(nid)
      PROVE  PagesInv'
  <2>1. PageInv /\ ~raced /\ raced' = raced /\ raced \in BOOLEAN
    BY <1>3 DEF PagesInv, Split, OpAt, TypeOK
  <2>2. QED
    BY <1>1, <1>3, <2>1, SplitStep
<1>4. ASSUME NEW n \in Nodes, NEW b \in Blocks, Free(n, b)
      PROVE  PagesInv'
  <2>1. PageInv /\ ~raced /\ raced' = raced /\ raced \in BOOLEAN
    BY <1>4 DEF PagesInv, Free, OpAt, TypeOK
  <2>2. QED
    BY <1>1, <1>4, <2>1, FreeStep
<1>5. ASSUME NEW n \in Nodes, Test(n)
      PROVE  PagesInv'
  <2>1. PageInv /\ ~raced /\ raced' = raced /\ raced \in BOOLEAN
    BY <1>5 DEF PagesInv, Test, OpAt, TypeOK
  <2>2. QED
    BY <1>1, <1>5, <2>1, TestStep
<1>6. ASSUME NEW n \in Nodes, Erase(n)
      PROVE  PagesInv'
  <2>1. PageInv
    BY <1>6 DEF PagesInv, Erase, OpAt
  <2>2. TypeOK'
    BY <1>6, <2>1, EraseTypes
  <2>3. ~raced' => PageInv'
    BY <1>6, <2>1, EraseStep
  <2>4. QED
    BY <2>2, <2>3 DEF PagesInv
<1>7. ASSUME NEW n \in Nodes, Push(n)
      PROVE  PagesInv'
  <2>1. PageInv /\ ~raced /\ raced' = raced /\ raced \in BOOLEAN
    BY <1>7 DEF PagesInv, Push, OpAt, TypeOK
  <2>2. QED
    BY <1>1, <1>7, <2>1, PushStep
<1>8. CASE UNCHANGED paVars
  <2>1. FreeBlocks' = FreeBlocks /\ held' = held /\ AllBlocks' = AllBlocks /\ Memory' = Memory
    BY <1>8 DEF paVars, Memory, AllBlocks, FreeBlocks, Listed, On, Blocks, Pages, Orders
  <2>2. TypeOK'
    BY <1>8 DEF paVars, PagesInv, TypeOK, Pages, Orders, Usages, Blocks, GoodLayout, Operations, Steps
  <2>3. ASSUME PageInv
        PROVE  PageInv'
    <3>1. StateInv'
      BY <1>8, <2>1, <2>3 DEF paVars, PageInv, StateInv, Pages, Orders, Usages, Blocks, GoodLayout,
                              Operations, Steps
    <3>2. PartitionInv'
      BY <2>1, <2>3 DEF PageInv, PartitionInv, Apart, Covered
    <3>3. PlacesInv'
      BY <1>8, <2>1, <2>3 DEF paVars, PageInv, PlacesInv, Listed, On, Once, Blocks, Pages, Orders
    <3>4. OpInv'
      BY <1>8, <2>3 DEF paVars, PageInv, OpInv, Has, Orders
    <3>5. \A x : Taken(x)' <=> Taken(x)
      BY <1>8 DEF paVars, Taken, TakenBy
    <3>6. MarksInv'
      BY <1>8, <2>1, <2>3, <3>5 DEF paVars, PageInv, MarksInv, Pages
    <3>7. QED
      BY <3>1, <3>2, <3>3, <3>4, <3>6 DEF PageInv
  <2>4. raced' = raced
    BY <1>8 DEF paVars
  <2>5. QED
    BY <2>2, <2>3, <2>4 DEF PagesInv
<1>9. QED
  BY <1>2, <1>3, <1>4, <1>5, <1>6, <1>7, <1>8 DEF Next

-----------------------------------------------------------------------------
(* What the invariant says of the lists: the properties of the runs *)

\* A list has no more entries than there are pages.
LEMMA ListLength ==
  ASSUME NEW s \in Seq(Pages), Once(s)
  PROVE  Len(s) <= NumPages
<1>1. s \in Injection(1 .. Len(s), Pages)
  BY DEF Once, Injection, IsInjective
<1>2. IsFiniteSet(Pages) /\ Cardinality(Pages) = NumPages
  BY PageAssumption, FS_Interval DEF Pages
<1>3. Len(s) \in Nat
  OBVIOUS
<1>4. Cardinality(1 .. Len(s)) = Len(s)
  <2>1. \A n \in Nat : Cardinality(1 .. n) = n
    <3> TAKE n \in Nat
    <3>1. 1 \in Int /\ n \in Int /\ (IF 1 > n THEN 0 ELSE n - 1 + 1) = n
      OBVIOUS
    <3>2. QED
      BY <3>1, FS_Interval
  <2>2. QED
    BY <1>3, <2>1
<1>5. Cardinality(1 .. Len(s)) <= Cardinality(Pages)
  BY <1>1, <1>2, FS_Injection
<1>6. QED
  BY <1>2, <1>4, <1>5

\* The block a list entry stands for.
EntryBlock(t) == Block(free_page_lists[t[1]][t[2]][t[3]], t[2])

LEMMA EntryFacts ==
  ASSUME PageInv, NEW t \in FreeEntries
  PROVE  /\ t[1] \in Nodes /\ t[2] \in Orders /\ t = <<t[1], t[2], t[3]>>
         /\ t[3] \in 1 .. Len(free_page_lists[t[1]][t[2]])
         /\ EntryBlock(t) \in FreeBlocks /\ Listed(t[1], EntryBlock(t))
         /\ \A q \in Pages : q \in Entry(t) <=> Covers(EntryBlock(t), q)
         /\ Entry(t) \subseteq Pages
<1>1. /\ t[1] \in Nodes /\ t[2] \in Orders /\ t = <<t[1], t[2], t[3]>>
      /\ t[3] \in 1 .. Len(free_page_lists[t[1]][t[2]])
  <2>1. t \in Nodes \X Orders \X (1 .. NumPages) /\ t[3] <= Len(free_page_lists[t[1]][t[2]])
    BY DEF FreeEntries
  <2>2. free_page_lists[t[1]][t[2]] \in Seq(Pages)
    BY <2>1 DEF PageInv, StateInv
  <2>3. Len(free_page_lists[t[1]][t[2]]) \in Nat
    BY <2>2
  <2>4. QED
    BY <2>1, <2>3, OrderFacts
<1>2. free_page_lists[t[1]][t[2]][t[3]] \in Pages
  BY <1>1 DEF PageInv, StateInv
<1>3. EntryBlock(t) \in Blocks
  BY <1>1, <1>2, OrderFacts DEF EntryBlock
<1>4. Listed(t[1], EntryBlock(t))
  BY <1>1 DEF Listed, On, EntryBlock, Block
<1>5. EntryBlock(t) \in FreeBlocks
  BY <1>1, <1>3, <1>4 DEF FreeBlocks
<1>6. \A q \in Pages : q \in Entry(t) <=> Covers(EntryBlock(t), q)
  BY DEF Entry, Extent, Covers, Nr, EntryBlock, Block
<1>7. Entry(t) \subseteq Pages
  BY DEF Entry, Extent
<1>8. QED
  BY <1>1, <1>4, <1>5, <1>6, <1>7

LEMMA PageInvPartitions ==
  ASSUME PageInv
  PROVE  PagesPartitioned
<1>1. /\ AllBlocks \subseteq Blocks /\ FreeBlocks \cap held = {}
      /\ FreeBlocks \subseteq AllBlocks /\ held \subseteq AllBlocks
  BY AllBlocksFacts DEF AllBlocks
<1>2. Pages \subseteq Nat
  BY OrderFacts
<1>3. \A b \in held : /\ Extent(b.pfn, b.order) \subseteq Pages
                      /\ \A q \in Pages : q \in Extent(b.pfn, b.order) <=> Covers(b, q)
  BY DEF Extent, Covers, Nr
<1>4. ASSUME NEW t \in FreeEntries, NEW u \in FreeEntries, t # u
      PROVE  Entry(t) \cap Entry(u) = {}
  <2> SUFFICES ASSUME NEW q \in Entry(t) \cap Entry(u) PROVE FALSE
    OBVIOUS
  <2>1. q \in Pages /\ Covers(EntryBlock(t), q) /\ Covers(EntryBlock(u), q)
    BY EntryFacts
  <2>2. EntryBlock(t) \in AllBlocks /\ EntryBlock(u) \in AllBlocks
    BY <1>1, EntryFacts
  <2>3. EntryBlock(t) = EntryBlock(u)
    BY <1>2, <2>1, <2>2, SameBlock
  <2>4. t[2] = u[2] /\ free_page_lists[t[1]][t[2]][t[3]] = free_page_lists[u[1]][u[2]][u[3]]
    BY <2>3 DEF EntryBlock, Block
  <2>5. t[1] \in Nodes /\ u[1] \in Nodes /\ Listed(t[1], EntryBlock(t)) /\ Listed(u[1], EntryBlock(t))
    BY <2>3, EntryFacts
  <2>6. t[1] = u[1]
    BY <1>1, <2>2, <2>5 DEF PageInv, PlacesInv
  <2>7. /\ t[2] \in Orders /\ t = <<t[1], t[2], t[3]>> /\ u = <<u[1], u[2], u[3]>>
        /\ t[3] \in 1 .. Len(free_page_lists[t[1]][t[2]])
        /\ u[3] \in 1 .. Len(free_page_lists[u[1]][u[2]])
    BY EntryFacts
  <2>8. Once(free_page_lists[t[1]][t[2]])
    BY <2>5, <2>7 DEF PageInv, PlacesInv
  <2>9. t[3] = u[3]
    BY <2>4, <2>6, <2>7, <2>8 DEF Once
  <2>10. QED
    BY <1>4, <2>4, <2>6, <2>7, <2>9
<1>5. ASSUME NEW a \in held, NEW b \in held, a # b
      PROVE  Extent(a.pfn, a.order) \cap Extent(b.pfn, b.order) = {}
  BY <1>1, <1>2, <1>3, <1>5, SameBlock
<1>6. ASSUME NEW t \in FreeEntries, NEW b \in held
      PROVE  Entry(t) \cap Extent(b.pfn, b.order) = {}
  <2>1. EntryBlock(t) \in FreeBlocks /\ Entry(t) \subseteq Pages
        /\ \A q \in Pages : q \in Entry(t) <=> Covers(EntryBlock(t), q)
    BY EntryFacts
  <2>2. EntryBlock(t) \in AllBlocks /\ b \in AllBlocks /\ EntryBlock(t) # b
    BY <1>1, <2>1
  <2>3. QED
    BY <1>2, <1>3, <2>1, <2>2, SameBlock
<1>7. ASSUME NEW q \in Memory
      PROVE  q \in UNION ({Entry(t) : t \in FreeEntries}
                            \cup {Extent(b.pfn, b.order) : b \in held})
  <2>1. q \in Pages /\ q \in Nat
    BY <1>2 DEF PageInv, StateInv
  <2>2. PICK x \in AllBlocks : Covers(x, q)
    BY <2>1 DEF PageInv, PartitionInv, Covered
  <2>3. CASE x \in held
    BY <1>3, <2>1, <2>2, <2>3
  <2>4. CASE x \in FreeBlocks
    <3>1. PICK n \in Nodes : Listed(n, x)
      BY <2>4 DEF FreeBlocks
    <3>2. PICK i \in 1 .. Len(free_page_lists[n][x.order]) : free_page_lists[n][x.order][i] = x.pfn
      BY <3>1 DEF Listed, On
    <3> DEFINE t == <<n, x.order, i>>
    <3>3. x.order \in Orders /\ x = Block(x.pfn, x.order)
      BY <1>1, OrderFacts
    <3>4. free_page_lists[n][x.order] \in Seq(Pages) /\ Once(free_page_lists[n][x.order])
      BY <3>3 DEF PageInv, StateInv, PlacesInv
    <3>5. Len(free_page_lists[n][x.order]) \in Nat /\ Len(free_page_lists[n][x.order]) <= NumPages
      BY <3>4, ListLength
    <3>6. i \in 1 .. NumPages
      BY <3>5, PageAssumption
    <3>7. t \in FreeEntries
      BY <3>3, <3>5, <3>6 DEF FreeEntries
    <3>8. EntryBlock(t) = x
      BY <3>2, <3>3 DEF EntryBlock
    <3> HIDE DEF t
    <3>9. q \in Entry(t)
      BY <2>1, <2>2, <3>7, <3>8, EntryFacts
    <3>10. QED
      BY <3>7, <3>9
  <2>5. QED
    BY <2>3, <2>4 DEF AllBlocks
<1>8. ASSUME NEW q \in UNION ({Entry(t) : t \in FreeEntries}
                                \cup {Extent(b.pfn, b.order) : b \in held})
      PROVE  q \in Memory
  <2>1. CASE \E t \in FreeEntries : q \in Entry(t)
    <3>1. PICK t \in FreeEntries : q \in Entry(t)
      BY <2>1
    <3>2. q \in Pages /\ EntryBlock(t) \in AllBlocks /\ Covers(EntryBlock(t), q)
      BY <1>1, <3>1, EntryFacts
    <3>3. QED
      BY <1>2, <3>2 DEF PageInv, PartitionInv, Covered
  <2>2. CASE \E b \in held : q \in Extent(b.pfn, b.order)
    BY <1>1, <1>2, <1>3, <2>2 DEF PageInv, PartitionInv, Covered
  <2>3. QED
    BY <2>1, <2>2
<1>9. Memory = UNION ({Entry(t) : t \in FreeEntries}
                        \cup {Extent(b.pfn, b.order) : b \in held})
  BY <1>7, <1>8
<1>10. /\ \A n \in Nodes : op[n].step # "idle" => op[n].block \in held
       /\ \A b \in held, m, n \in Nodes : Has(m, b) /\ Has(n, b) => m = n
  BY DEF PageInv, OpInv
<1>11. QED
  BY <1>4, <1>5, <1>6, <1>9, <1>10 DEF PagesPartitioned

-----------------------------------------------------------------------------
(* The arithmetic of Init *)

LEMMA PowerZero == 2^0 = 1
<1>1. IsFiniteSet({}) /\ Cardinality({}) = 0
  BY FS_EmptySet
<1>2. 2^0 = Cardinality(SUBSET {})
  BY <1>1, FS_SUBSET
<1>3. SUBSET {} = {{}}
  OBVIOUS
<1>4. Cardinality({{}}) = 1
  BY FS_Singleton
<1>5. QED
  BY <1>2, <1>3, <1>4

\* A power is greater than its exponent.
LEMMA PowerExceeds ==
  ASSUME NEW n \in Nat
  PROVE  n < 2^n
<1> DEFINE T == {k \in Nat : 2^k <= k}
<1> SUFFICES ASSUME T # {} PROVE FALSE
  <2>1. 2^n \in Nat
    BY PowerFacts
  <2>2. n \notin T => n < 2^n
    BY <2>1
  <2>3. QED
    BY <2>2
<1>1. PICK t \in T : \A u \in T : t <= u
  BY Least
<1>2. t \in Nat /\ 2^t <= t
  OBVIOUS
<1>3. CASE t = 0
  BY <1>2, <1>3, PowerZero
<1>4. CASE t # 0
  <2>1. t - 1 \in Nat /\ t - 1 \notin T
    BY <1>1, <1>2, <1>4
  <2>2. 2^(t - 1) \in Nat /\ 2^((t - 1) + 1) = 2 * 2^(t - 1)
    BY <2>1, PowerFacts
  <2>3. (t - 1) + 1 = t
    BY <1>2
  <2>4. ~ (2^(t - 1) <= t - 1)
    BY <2>1
  <2>5. 2^t = 2 * 2^(t - 1)
    BY <2>2, <2>3
  <2>6. QED
    BY <1>2, <1>4, <2>2, <2>4, <2>5
<1>5. QED
  BY <1>3, <1>4

\* The quotient and the remainder of a division.
LEMMA Division ==
  ASSUME NEW M \in Nat, M > 0, NEW n \in Nat
  PROVE  /\ n \div M \in Nat /\ n = M * (n \div M) + (n % M)
         /\ n % M \in 0 .. (M - 1)
         /\ n % M = 0 <=> \E c \in Nat : n = c * M
<1>1. n \div M \in Nat /\ n = M * (n \div M) + (n % M) /\ n % M \in 0 .. (M - 1)
  OBVIOUS
<1>2. ASSUME n % M = 0
      PROVE  \E c \in Nat : n = c * M
  <2>1. n = (n \div M) * M
    BY <1>1, <1>2
  <2>2. QED
    BY <1>1, <2>1
<1>3. ASSUME NEW c \in Nat, n = c * M
      PROVE  n % M = 0
  <2>1. M * c <= n /\ n < M * c + M
    BY <1>3
  <2>2. c = n \div M
    BY <2>1, Quotient
  <2>3. QED
    BY <1>1, <1>3, <2>2
<1>4. QED
  BY <1>1, <1>2, <1>3

LEMMA FloorLog2Facts ==
  ASSUME NEW n \in Nat, n > 0
  PROVE  FloorLog2(n) \in Nat /\ 2^FloorLog2(n) <= n /\ n < 2^(FloorLog2(n) + 1)
<1> DEFINE T == {k \in Nat : n < 2^(k + 1)}
           Fits(k) == 2^k <= n /\ n < 2^(k + 1)
<1>1. n < 2^n /\ 2^(n + 1) = 2 * 2^n /\ 2^n \in Nat
  BY PowerExceeds, PowerFacts
<1>2. n \in T
  BY <1>1
<1>3. PICK t \in T : \A u \in T : t <= u
  BY <1>2, Least
<1>4. t \in Nat /\ n < 2^(t + 1) /\ t \in 0 .. n
  BY <1>2, <1>3
<1>5. 2^t <= n
  <2>1. CASE t = 0
    BY <2>1, PowerZero
  <2>2. CASE t # 0
    <3>1. t - 1 \in Nat /\ t - 1 \notin T
      BY <1>3, <1>4, <2>2
    <3>2. (t - 1) + 1 = t
      BY <1>4
    <3>3. ~ (n < 2^t)
      BY <3>1, <3>2
    <3>4. 2^t \in Nat
      BY <1>4, PowerFacts
    <3>5. QED
      BY <3>3, <3>4
  <2>3. QED
    BY <2>1, <2>2
<1>6. FloorLog2(n) = CHOOSE k \in 0 .. n : Fits(k)
  BY DEF FloorLog2
<1>7. Fits(t)
  BY <1>4, <1>5
<1> HIDE DEF Fits
<1>8. FloorLog2(n) \in 0 .. n /\ Fits(FloorLog2(n))
  BY <1>4, <1>6, <1>7
<1>9. QED
  BY <1>8 DEF Fits

LEMMA TrailingZerosFacts ==
  ASSUME NEW n \in Nat, n > 0
  PROVE  TrailingZeros(n) \in Nat /\ \E c \in Nat : n = c * 2^TrailingZeros(n)
<1> DEFINE T == {k \in Nat : n % 2^(k + 1) # 0}
           Last(k) == n % 2^k = 0 /\ n % 2^(k + 1) # 0
<1>1. \A k \in Nat : 2^k \in Nat /\ 2^k > 0
  BY PowerFacts
<1>2. n \in T
  <2>1. n < 2^n /\ 2^(n + 1) = 2 * 2^n /\ 2^n \in Nat
    BY PowerExceeds, PowerFacts
  <2>2. 2^(n + 1) \in Nat /\ n < 2^(n + 1)
    BY <2>1
  <2>3. n % 2^(n + 1) = n
    BY <2>2
  <2>4. QED
    BY <2>3
<1>3. PICK t \in T : \A u \in T : t <= u
  BY <1>2, Least
<1>4. t \in Nat /\ n % 2^(t + 1) # 0 /\ t \in 0 .. n
  BY <1>2, <1>3
<1>5. n % 2^t = 0
  <2>1. CASE t = 0
    BY <2>1, PowerZero
  <2>2. CASE t # 0
    <3>1. t - 1 \in Nat /\ t - 1 \notin T
      BY <1>3, <1>4, <2>2
    <3>2. (t - 1) + 1 = t
      BY <1>4
    <3>3. QED
      BY <3>1, <3>2
  <2>3. QED
    BY <2>1, <2>2
<1>6. TrailingZeros(n) = CHOOSE k \in 0 .. n : Last(k)
  BY DEF TrailingZeros
<1>7. Last(t)
  BY <1>4, <1>5
<1> HIDE DEF Last
<1>8. TrailingZeros(n) \in 0 .. n /\ Last(TrailingZeros(n))
  BY <1>4, <1>6, <1>7
<1>9. TrailingZeros(n) \in Nat /\ n % 2^TrailingZeros(n) = 0
  BY <1>8 DEF Last
<1>10. QED
  BY <1>1, <1>9, Division

MultipleOf(p, k) == \E c \in Nat : p = c * 2^k

LEMMA MultipleDown ==
  ASSUME NEW k \in Nat, NEW j \in Nat, k <= j, NEW p \in Nat, MultipleOf(p, j)
  PROVE  MultipleOf(p, k)
<1>1. PICK d \in Nat \ {0} : 2^j = d * 2^k
  BY PowerDivides
<1>2. PICK c \in Nat : p = c * 2^j
  BY DEF MultipleOf
<1>3. 2^k \in Nat
  BY PowerFacts
<1>4. p = (c * d) * 2^k /\ c * d \in Nat
  BY <1>1, <1>2, <1>3
<1>5. QED
  BY <1>4 DEF MultipleOf

\* Of two different multiples the greater is one or more steps ahead.
LEMMA MultipleGap ==
  ASSUME NEW k \in Nat, NEW p \in Nat, MultipleOf(p, k)
  PROVE  /\ MultipleOf(p + 2^k, k)
         /\ \A r \in Nat : MultipleOf(r, k) /\ p < r => p + 2^k <= r
<1> DEFINE P == 2^k
<1>1. P \in Nat /\ P > 0
  BY PowerFacts
<1>2. PICK c \in Nat : p = c * P
  BY DEF MultipleOf
<1> HIDE DEF P
<1>3. p + P = (c + 1) * P /\ c + 1 \in Nat
  BY <1>1, <1>2
<1>4. ASSUME NEW r \in Nat, NEW d \in Nat, r = d * P, p < r
      PROVE  p + P <= r
  <2>1. CASE d <= c
    <3>1. P * d <= P * c
      BY <1>1, <2>1, Times
    <3>2. QED
      BY <1>1, <1>2, <1>4, <3>1
  <2>2. CASE c + 1 <= d
    <3>1. P * (c + 1) <= P * d
      BY <1>1, <2>2, Times
    <3>2. QED
      BY <1>1, <1>2, <1>3, <1>4, <3>1
  <2>3. QED
    BY <2>1, <2>2
<1>5. QED
  BY <1>3, <1>4 DEF MultipleOf, P

LEMMA AlignUpFacts ==
  ASSUME NEW s \in Nat, NEW k \in Nat
  PROVE  LET D == AlignUp(s, 2^k) IN
         D \in Nat /\ MultipleOf(D, k) /\ s <= D /\ D < s + 2^k
<1> DEFINE P == 2^k
           d == (s + P - 1) \div P
<1>1. P \in Nat /\ P > 0
  BY PowerFacts
<1>2. AlignUp(s, 2^k) = d * P
  BY DEF AlignUp
<1> HIDE DEF P
<1>3. s + P - 1 \in Nat
  BY <1>1
<1>4. d \in Nat /\ P * d <= s + P - 1 /\ s + P - 1 < P * d + P
  BY <1>1, <1>3, Quotient
<1> HIDE DEF d
<1>5. d * P = P * d /\ d * P \in Nat
  BY <1>1, <1>4
<1>6. s <= d * P /\ d * P < s + P
  BY <1>1, <1>4, <1>5
<1>7. QED
  BY <1>2, <1>4, <1>5, <1>6 DEF MultipleOf, P

LEMMA CappedFacts ==
  ASSUME NEW k \in Nat
  PROVE  /\ Capped(k) \in Orders /\ Capped(k) \in Nat /\ Capped(k) <= k
         /\ \A j \in Nat : j <= k => Capped(j) <= Capped(k)
BY PageAssumption DEF Capped, Orders

LEMMA SmallerLog ==
  ASSUME NEW n \in Nat, n > 0, NEW k \in Nat, n < 2^(k + 1)
  PROVE  FloorLog2(n) <= k
<1> DEFINE m == FloorLog2(n)
<1>1. m \in Nat /\ 2^m <= n
  BY FloorLog2Facts
<1> HIDE DEF m
<1>2. ASSUME k < m
      PROVE  FALSE
  <2>1. k + 1 <= m /\ k + 1 \in Nat
    BY <1>1, <1>2
  <2>2. 2^(k + 1) <= 2^m /\ 2^(k + 1) \in Nat /\ 2^m \in Nat
    BY <1>1, <2>1, PowerOrder, PowerFacts
  <2>3. QED
    BY <1>1, <2>2
<1>3. QED
  BY <1>1, <1>2 DEF m

LEMMA DivideFacts ==
  ASSUME NEW s \in Nat, NEW e \in Nat, s < e
  PROVE  /\ Divide(s, e) \in Nat /\ s <= Divide(s, e) /\ Divide(s, e) < e
         /\ FloorLog2(e - s) \in Nat /\ e - s < 2^(FloorLog2(e - s) + 1)
         /\ Divide(s, e) < s + 2^FloorLog2(e - s)
         /\ MultipleOf(Divide(s, e), FloorLog2(e - s))
<1> DEFINE L == FloorLog2(e - s)
           D == Divide(s, e)
<1>1. e - s \in Nat /\ e - s > 0
  OBVIOUS
<1>2. L \in Nat /\ 2^L <= e - s /\ e - s < 2^(L + 1)
  BY <1>1, FloorLog2Facts
<1>3. D = AlignUp(s, 2^L)
  BY DEF Divide
<1> HIDE DEF L, D
<1>4. D \in Nat /\ MultipleOf(D, L) /\ s <= D /\ D < s + 2^L
  BY <1>2, <1>3, AlignUpFacts
<1>5. 2^L \in Nat
  BY <1>2, PowerFacts
<1>6. D < e
  BY <1>2, <1>4, <1>5
<1>7. QED
  BY <1>2, <1>4, <1>6 DEF L, D

\* At page p the loops are where the blocks they make are aligned.
Ready(s, e, p) ==
  \/ p < Divide(s, e)
  \/ MultipleOf(p, Capped(FloorLog2(e - p)))

\* From the point where the blocks cease to grow on.
LEMMA ReadyAtDivide ==
  ASSUME NEW s \in Nat, NEW e \in Nat, s < e
  PROVE  Ready(s, e, Divide(s, e))
<1> DEFINE D == Divide(s, e)
           L == FloorLog2(e - s)
           M == FloorLog2(e - D)
<1>1. D \in Nat /\ s <= D /\ D < e /\ L \in Nat /\ e - s < 2^(L + 1) /\ MultipleOf(D, L)
  BY DivideFacts
<1> HIDE DEF D, L
<1>2. e - D \in Nat /\ e - D > 0 /\ 2^(L + 1) \in Nat
  BY <1>1, PowerFacts
<1>3. e - D < 2^(L + 1)
  BY <1>1, <1>2
<1>4. M \in Nat /\ M <= L
  BY <1>1, <1>2, <1>3, SmallerLog, FloorLog2Facts
<1> HIDE DEF M
<1>5. Capped(M) \in Nat /\ Capped(M) <= L
  BY <1>1, <1>4, CappedFacts
<1>6. MultipleOf(D, Capped(M))
  BY <1>1, <1>5, MultipleDown
<1>7. QED
  BY <1>6 DEF Ready, M, D

LEMMA StepUp ==
  ASSUME NEW s \in Nat, NEW e \in Nat, s < e, NEW p \in Nat, s <= p, p < Divide(s, e)
  PROVE  LET k == OrderAt(s, e, p) IN
         /\ k \in Orders /\ k \in Nat /\ MultipleOf(p, k) /\ p + 2^k <= Divide(s, e)
<1> DEFINE D == Divide(s, e)
           L == FloorLog2(e - s)
           t == TrailingZeros(p)
           k == Capped(t)
<1>1. /\ D \in Nat /\ L \in Nat /\ MultipleOf(D, L) /\ D < s + 2^L /\ s <= D /\ D < e
  BY DivideFacts
<1>2. OrderAt(s, e, p) = k
  BY DEF OrderAt
<1>3. p < D
  OBVIOUS
<1> HIDE DEF D, L
<1>4. 2^L \in Nat
  BY <1>1, PowerFacts
<1>5. ~MultipleOf(p, L)
  <2>1. MultipleOf(p, L) => p + 2^L <= D
    BY <1>1, <1>3, MultipleGap
  <2>2. QED
    BY <1>1, <1>4, <2>1
<1>6. p > 0
  <2>1. 0 = 0 * 2^L
    BY <1>4
  <2>2. QED
    BY <1>5, <2>1 DEF MultipleOf
<1>7. t \in Nat /\ MultipleOf(p, t)
  BY <1>6, TrailingZerosFacts DEF MultipleOf
<1> HIDE DEF t
<1>8. t < L
  BY <1>1, <1>5, <1>7, MultipleDown
<1>9. k \in Orders /\ k \in Nat /\ k <= t
  BY <1>7, CappedFacts
<1> HIDE DEF k
<1>10. MultipleOf(p, k) /\ MultipleOf(D, k)
  BY <1>1, <1>7, <1>8, <1>9, MultipleDown
<1>11. p + 2^k <= D
  BY <1>1, <1>3, <1>9, <1>10, MultipleGap
<1>12. QED
  BY <1>2, <1>9, <1>10, <1>11 DEF D

LEMMA StepDown ==
  ASSUME NEW s \in Nat, NEW e \in Nat, s < e, NEW p \in Nat, p < e, Divide(s, e) <= p
  PROVE  LET k == OrderAt(s, e, p) IN
         /\ k \in Orders /\ k \in Nat /\ p + 2^k <= e
         /\ Ready(s, e, p) => /\ MultipleOf(p, k)
                              /\ p + 2^k < e => Ready(s, e, p + 2^k)
<1> DEFINE M == FloorLog2(e - p)
           k == Capped(M)
<1>1. Divide(s, e) \in Nat
  BY DivideFacts
<1>2. OrderAt(s, e, p) = k /\ (Ready(s, e, p) => MultipleOf(p, k))
  BY <1>1 DEF OrderAt, Ready
<1>3. e - p \in Nat /\ e - p > 0
  OBVIOUS
<1>4. M \in Nat /\ 2^M <= e - p /\ e - p < 2^(M + 1)
  BY <1>3, FloorLog2Facts
<1> HIDE DEF M
<1>5. k \in Orders /\ k \in Nat /\ k <= M /\ \A j \in Nat : j <= M => Capped(j) <= k
  BY <1>4, CappedFacts
<1> HIDE DEF k
<1>6. 2^k \in Nat /\ 2^M \in Nat /\ 2^k <= 2^M /\ 2^k > 0
  BY <1>4, <1>5, PowerFacts, PowerOrder
<1>7. p + 2^k <= e
  BY <1>4, <1>6
<1>8. ASSUME MultipleOf(p, k), p + 2^k < e
      PROVE  Ready(s, e, p + 2^k)
  <2> DEFINE r == p + 2^k
             N == FloorLog2(e - r)
  <2>1. r \in Nat /\ e - r \in Nat /\ e - r > 0 /\ e - r < e - p /\ 2^(M + 1) \in Nat
    BY <1>4, <1>6, <1>8, PowerFacts
  <2>2. MultipleOf(r, k)
    BY <1>5, <1>8, MultipleGap
  <2> HIDE DEF r
  <2>3. e - r < 2^(M + 1)
    BY <1>3, <1>4, <2>1
  <2>4. N \in Nat /\ N <= M
    BY <1>4, <2>1, <2>3, SmallerLog, FloorLog2Facts
  <2> HIDE DEF N
  <2>5. Capped(N) \in Nat /\ Capped(N) <= k
    BY <1>5, <2>4, CappedFacts
  <2>6. MultipleOf(r, Capped(N))
    BY <1>5, <2>1, <2>2, <2>5, MultipleDown
  <2>7. QED
    BY <2>6 DEF Ready, N, r
<1>9. QED
  BY <1>2, <1>5, <1>7, <1>8

\* Either loop takes one step and stays within the range.
LEMMA StepFacts ==
  ASSUME NEW s \in Nat, NEW e \in Nat, s < e, NEW p \in s .. e, p # e
  PROVE  LET k == OrderAt(s, e, p) IN
         /\ k \in Orders /\ k \in Nat /\ p + 2^k \in (p + 1) .. e
         /\ Ready(s, e, p) => /\ MultipleOf(p, k)
                              /\ p + 2^k # e => Ready(s, e, p + 2^k)
<1> DEFINE k == OrderAt(s, e, p)
           D == Divide(s, e)
<1>1. D \in Nat /\ D < e /\ Ready(s, e, D)
  BY DivideFacts, ReadyAtDivide
<1>2. p \in Nat /\ s <= p /\ p < e
  OBVIOUS
<1>3. CASE p < D
  <2>1. k \in Orders /\ k \in Nat /\ MultipleOf(p, k) /\ p + 2^k <= D
    BY <1>2, <1>3, StepUp
  <2> HIDE DEF k
  <2>2. 2^k \in Nat /\ 2^k > 0
    BY <2>1, PowerFacts
  <2>3. p + 2^k \in (p + 1) .. e
    BY <1>1, <1>2, <2>1, <2>2
  <2>4. p + 2^k < D \/ p + 2^k = D
    BY <1>1, <1>2, <2>1, <2>2
  <2>5. Ready(s, e, p + 2^k)
    BY <1>1, <2>4 DEF Ready, D
  <2>6. QED
    BY <2>1, <2>3, <2>5 DEF k
<1>4. CASE D <= p
  <2>1. /\ k \in Orders /\ k \in Nat /\ p + 2^k <= e
        /\ Ready(s, e, p) => MultipleOf(p, k) /\ (p + 2^k < e => Ready(s, e, p + 2^k))
    BY <1>2, <1>4, StepDown
  <2> HIDE DEF k
  <2>2. 2^k \in Nat /\ 2^k > 0
    BY <2>1, PowerFacts
  <2>3. p + 2^k \in (p + 1) .. e /\ (p + 2^k # e => p + 2^k < e)
    BY <1>1, <1>2, <2>1, <2>2
  <2>4. QED
    BY <2>1, <2>3 DEF k
<1>5. QED
  BY <1>1, <1>2, <1>3, <1>4

\* The equation of the function SplitRange is defined by.
Splits(f, s, e, from) ==
  f = [p \in from .. e |-> IF p = e THEN {}
         ELSE LET k == OrderAt(s, e, p) IN {Block(p, k)} \cup f[p + 2^k]]

LEMMA SplitsExists ==
  ASSUME NEW s \in Nat, NEW e \in Nat, s < e
  PROVE  \E f : Splits(f, s, e, s)
<1> DEFINE T == {n \in Nat : n <= e - s /\ ~ \E f : Splits(f, s, e, e - n)}
<1> SUFFICES ASSUME T # {} PROVE FALSE
  <2>1. e - s \in Nat /\ e - s \notin T
    OBVIOUS
  <2>2. \E f : Splits(f, s, e, e - (e - s))
    BY <2>1
  <2>3. e - (e - s) = s
    OBVIOUS
  <2>4. QED
    BY <2>2, <2>3
<1>1. PICK n \in T : \A u \in T : n <= u
  BY Least
<1>2. n \in Nat /\ n <= e - s /\ ~ \E f : Splits(f, s, e, e - n)
  OBVIOUS
<1>3. CASE n = 0
  <2> DEFINE g == [p \in e .. e |-> {}]
  <2>1. Splits(g, s, e, e)
    BY DEF Splits
  <2>2. e - n = e
    BY <1>3
  <2>3. QED
    BY <1>2, <2>1, <2>2
<1>4. CASE n # 0
  <2>1. n - 1 \in Nat /\ n - 1 <= e - s /\ n - 1 \notin T
    <3>1. n - 1 \in Nat /\ n - 1 <= e - s /\ ~ (n <= n - 1)
      BY <1>2, <1>4
    <3> HIDE DEF T
    <3>2. QED
      BY <1>1, <3>1
  <2>2. PICK f : Splits(f, s, e, e - (n - 1))
    BY <2>1
  <2> DEFINE a == e - n
             k(p) == OrderAt(s, e, p)
             g == [p \in a .. e |-> IF p = a THEN {Block(a, k(a))} \cup f[a + 2^k(a)] ELSE f[p]]
  <2>3. a \in Nat /\ a \in s .. e /\ a # e /\ e - (n - 1) = a + 1
    BY <1>2, <1>4
  <2>4. \A p \in a .. e : p # e => p + 2^k(p) \in (p + 1) .. e
    <3> TAKE p \in a .. e
    <3> HAVE p # e
    <3>1. p \in s .. e
      BY <2>3
    <3>2. QED
      BY <3>1, StepFacts
  <2> HIDE DEF a, k
  <2>5. \A p \in (a + 1) .. e : f[p] = IF p = e THEN {} ELSE {Block(p, k(p))} \cup f[p + 2^k(p)]
    BY <2>2, <2>3 DEF Splits, k
  <2>6. \A p \in (a + 1) .. e : g[p] = f[p]
    BY <2>3
  <2>7. \A p \in a .. e : g[p] = IF p = e THEN {} ELSE {Block(p, k(p))} \cup g[p + 2^k(p)]
    <3> TAKE p \in a .. e
    <3>1. CASE p = a
      <4>1. a + 2^k(a) \in (a + 1) .. e /\ p # e
        BY <2>3, <2>4, <3>1
      <4>2. g[p] = {Block(a, k(a))} \cup f[a + 2^k(a)]
        BY <3>1
      <4>3. QED
        BY <2>6, <3>1, <4>1, <4>2
    <3>2. CASE p # a /\ p = e
      <4>1. p \in (a + 1) .. e
        BY <2>3, <3>2
      <4>2. QED
        BY <2>5, <2>6, <3>2, <4>1
    <3>3. CASE p # a /\ p # e
      <4>1. p \in (a + 1) .. e
        BY <2>3, <3>3
      <4>2. p + 2^k(p) \in (p + 1) .. e
        BY <2>4, <3>3
      <4>3. p + 2^k(p) \in (a + 1) .. e
        BY <2>3, <4>1, <4>2
      <4>4. QED
        BY <2>5, <2>6, <3>3, <4>1, <4>3
    <3>4. QED
      BY <3>1, <3>2, <3>3
  <2>8. g = [p \in a .. e |-> g[p]]
    OBVIOUS
  <2> HIDE DEF g
  <2>9. Splits(g, s, e, a)
    BY <2>7, <2>8 DEF Splits, k
  <2>10. QED
    BY <1>2, <2>9 DEF a
<1>5. QED
  BY <1>3, <1>4

\* SplitRange is the value of such a function.
LEMMA SplitRangeIs ==
  ASSUME NEW s \in Nat, NEW e \in Nat, s < e
  PROVE  \E f : Splits(f, s, e, s) /\ SplitRange(s, e) = f[s]
<1> DEFINE F == CHOOSE f : Splits(f, s, e, s)
<1>1. SplitRange(s, e) = F[s]
  BY DEF SplitRange, Splits, Block
<1>2. Splits(F, s, e, s)
  BY SplitsExists
<1>3. QED
  BY <1>1, <1>2

\* Some blocks that make up the pages from .. e - 1.
Chain(B, from, e) ==
  /\ B \subseteq Blocks
  /\ Apart(B)
  /\ \A q \in Nat : Covered(B, q) <=> from <= q /\ q < e

\* The pages of an aligned block.
LEMMA AlignedCovers ==
  ASSUME NEW k \in Nat, NEW p \in Nat, MultipleOf(p, k), NEW q \in Nat
  PROVE  Covers(Block(p, k), q) <=> p <= q /\ q < p + 2^k
<1> DEFINE P == 2^k
<1>1. P \in Nat /\ P > 0
  BY PowerFacts
<1>2. PICK c \in Nat : p = c * P
  BY DEF MultipleOf
<1>3. Covers(Block(p, k), q) <=> q \div P = p \div P
  BY BlockCovers DEF Nr
<1> HIDE DEF P
<1>4. P * c = p
  BY <1>1, <1>2
<1>5. c = p \div P
  BY <1>1, <1>4, Quotient
<1>6. q \div P = c <=> P * c <= q /\ q < P * c + P
  BY <1>1, Quotient
<1>7. QED
  BY <1>3, <1>4, <1>5, <1>6 DEF P

LEMMA ChainGrows ==
  ASSUME NEW e \in Nat, NEW p \in Pages, NEW k \in Orders, MultipleOf(p, k), p + 2^k <= e,
         NEW B, Chain(B, p + 2^k, e)
  PROVE  Chain({Block(p, k)} \cup B, p, e)
<1> DEFINE x == Block(p, k)
           P == 2^k
<1>1. p \in Nat /\ k \in Nat /\ P \in Nat /\ P > 0 /\ x \in Blocks
  BY OrderFacts, PowerFacts
<1>2. B \subseteq Blocks /\ Apart(B) /\ \A q \in Nat : Covered(B, q) <=> p + P <= q /\ q < e
  BY DEF Chain
<1>3. \A q \in Nat : Covers(x, q) <=> p <= q /\ q < p + P
  BY <1>1, AlignedCovers
<1>4. p + P <= e
  OBVIOUS
<1> HIDE DEF x, P
<1>5. \A q \in Nat, y \in B : ~ (Covers(x, q) /\ Covers(y, q))
  <2> SUFFICES ASSUME NEW q \in Nat, NEW y \in B, Covers(x, q), Covers(y, q) PROVE FALSE
    OBVIOUS
  <2>1. p + P <= q /\ q < p + P
    BY <1>2, <1>3 DEF Covered
  <2>2. QED
    BY <1>1, <2>1
<1>6. Apart({x} \cup B)
  BY <1>2, <1>5 DEF Apart
<1>7. ASSUME NEW q \in Nat
      PROVE  Covered({x} \cup B, q) <=> p <= q /\ q < e
  <2>1. Covered({x} \cup B, q) <=> Covers(x, q) \/ Covered(B, q)
    BY DEF Covered
  <2>2. QED
    BY <1>1, <1>2, <1>3, <1>4, <2>1
<1>8. QED
  BY <1>1, <1>2, <1>6, <1>7 DEF Chain, x

\* The blocks Init makes of a range are a partition of its pages.
LEMMA SplitRangeChain ==
  ASSUME NEW s \in Nat, NEW e \in Nat, s < e, e <= NumPages
  PROVE  Chain(SplitRange(s, e), s, e)
<1>1. PICK f : Splits(f, s, e, s) /\ SplitRange(s, e) = f[s]
  BY SplitRangeIs
<1>2. \A p \in s .. e : f[p] = IF p = e THEN {}
        ELSE {Block(p, OrderAt(s, e, p))} \cup f[p + 2^OrderAt(s, e, p)]
  BY <1>1 DEF Splits
<1> DEFINE T == {n \in Nat : n <= e - s /\ (n = 0 \/ Ready(s, e, e - n)) /\ ~Chain(f[e - n], e - n, e)}
<1>3. ASSUME T # {}
      PROVE  FALSE
  <2>1. T \in SUBSET Nat
    OBVIOUS
  <2>2. PICK n \in T : \A u \in T : n <= u
    BY <1>3, <2>1, Least
  <2>3. n \in Nat /\ n <= e - s /\ (n = 0 \/ Ready(s, e, e - n)) /\ ~Chain(f[e - n], e - n, e)
    OBVIOUS
  <2> DEFINE p == e - n
             k == OrderAt(s, e, p)
             r == p + 2^k
  <2>4. p \in s .. e /\ (p = e <=> n = 0)
    BY <2>3
  <2>5. CASE n = 0
    <3>1. f[e] = {} /\ p = e
      <4>1. p = e /\ e \in s .. e
        BY <2>4, <2>5
      <4>2. f[e] = {}
        BY <1>2, <4>1
      <4>3. QED
        BY <4>1, <4>2
    <3>2. Chain({}, e, e)
      BY DEF Chain, Apart, Covered
    <3>3. QED
      BY <2>3, <3>1, <3>2
  <2>6. CASE n # 0
    <3>1. Ready(s, e, p) /\ p # e
      BY <2>3, <2>6
    <3> HIDE DEF p
    <3>2. /\ k \in Orders /\ k \in Nat /\ r \in (p + 1) .. e
          /\ MultipleOf(p, k) /\ (r # e => Ready(s, e, r))
      BY <2>4, <3>1, StepFacts
    <3> HIDE DEF k
    <3>3. f[p] = {Block(p, k)} \cup f[r]
      BY <1>2, <2>4, <3>1 DEF k
    <3>4. p \in Pages
      BY <2>4, <3>1, PageAssumption DEF Pages
    <3> DEFINE i == e - r
    <3>5. i \in Nat /\ i <= e - s /\ i < n /\ e - i = r /\ (i = 0 <=> r = e)
      BY <2>3, <2>4, <3>2 DEF p
    <3> HIDE DEF i, r
    <3>6. i \notin T
      <4> HIDE DEF T
      <4>1. QED
        BY <2>2, <2>3, <3>5
    <3>7. Chain(f[r], r, e)
      BY <3>2, <3>5, <3>6
    <3>8. Chain({Block(p, k)} \cup f[r], p, e)
      <4>1. p + 2^k <= e
        BY <2>4, <3>2 DEF r
      <4>2. QED
        BY <3>2, <3>4, <3>7, <4>1, ChainGrows DEF r
    <3>9. QED
      BY <2>3, <3>3, <3>8 DEF p
  <2>7. QED
    BY <2>5, <2>6
<1>4. Ready(s, e, s)
  <2>1. Divide(s, e) \in Nat /\ s <= Divide(s, e) /\ Ready(s, e, Divide(s, e))
    BY DivideFacts, ReadyAtDivide
  <2>2. CASE s = Divide(s, e)
    BY <2>1, <2>2
  <2>3. CASE s # Divide(s, e)
    BY <2>1, <2>3 DEF Ready
  <2>4. QED
    BY <2>2, <2>3
<1>5. e - s \in Nat /\ e - (e - s) = s
  OBVIOUS
<1>6. e - s \notin T
  BY <1>3
<1>7. Chain(f[s], s, e)
  BY <1>4, <1>5, <1>6
<1>8. QED
  BY <1>1, <1>7

-----------------------------------------------------------------------------
(* Init *)

\* A list ranked from its highest page downwards has each page once.
LEMMA EarlyListFacts ==
  ASSUME NEW B \in SUBSET Blocks, NEW k \in Orders
  PROVE  /\ EarlyList(B, k) \in Seq(Pages) /\ Once(EarlyList(B, k))
         /\ \A p \in Pages : On(EarlyList(B, k), p) <=> Block(p, k) \in B
<1> DEFINE S == {b.pfn : b \in {x \in B : x.order = k}}
           Above(p) == {q \in S : q >= p}
           N == Cardinality(S)
           rank == [p \in S |-> Cardinality(Above(p))]
           list == [i \in 1 .. N |-> CHOOSE p \in S : Cardinality(Above(p)) = i]
<1>1. EarlyList(B, k) = list
  BY DEF EarlyList
<1>2. S \subseteq Pages /\ \A p \in Pages : p \in S <=> Block(p, k) \in B
  BY OrderFacts DEF Block
<1>3. Pages \subseteq Nat
  BY OrderFacts
<1> HIDE DEF S
<1>4. IsFiniteSet(S)
  <2>1. IsFiniteSet(Pages)
    BY PageAssumption, FS_Interval DEF Pages
  <2>2. QED
    BY <1>2, <2>1, FS_Subset
<1>5. N \in Nat
  BY <1>4, FS_CardinalityType
<1>6. \A p \in S : rank[p] \in 1 .. N /\ rank[p] = Cardinality(Above(p))
  <2> TAKE p \in S
  <2>1. Above(p) \subseteq S /\ p \in Above(p)
    BY <1>2, <1>3
  <2>2. IsFiniteSet(Above(p)) /\ Cardinality(Above(p)) <= N
    BY <1>4, <2>1, FS_Subset
  <2>3. Cardinality(Above(p)) \in Nat /\ Cardinality(Above(p)) # 0
    BY <2>1, <2>2, FS_CardinalityType, FS_EmptySet
  <2>4. rank[p] = Cardinality(Above(p))
    OBVIOUS
  <2> HIDE DEF rank, N, Above
  <2>5. QED
    BY <1>5, <2>2, <2>3, <2>4
<1>7. \A p, q \in S : p < q => rank[q] < rank[p]
  <2> SUFFICES ASSUME NEW p \in S, NEW q \in S, p < q PROVE rank[q] < rank[p]
    OBVIOUS
  <2>1. Above(q) \subseteq Above(p) /\ p \in Above(p) /\ p \notin Above(q)
    <3>1. S \subseteq Nat /\ p \in Nat /\ q \in Nat
      BY <1>2, <1>3
    <3>2. \A u \in S : u >= q => u >= p
      BY <3>1
    <3>3. p >= p /\ ~ (p >= q)
      BY <3>1
    <3>4. QED
      BY <3>2, <3>3
  <2>2. Above(p) \subseteq S
    OBVIOUS
  <2>3. IsFiniteSet(Above(p))
    BY <1>4, <2>2, FS_Subset
  <2>4. Cardinality(Above(q)) < Cardinality(Above(p))
    BY <2>1, <2>3, FS_Subset, FS_CardinalityType
  <2>5. QED
    BY <2>4
<1> HIDE DEF N
<1>8. rank \in [S -> 1 .. N]
  <2>1. rank = [p \in S |-> rank[p]]
    OBVIOUS
  <2> HIDE DEF rank
  <2>2. QED
    BY <1>6, <2>1
<1> HIDE DEF rank
<1>9. \A p, q \in S : rank[p] = rank[q] => p = q
  <2> TAKE p \in S, q \in S
  <2>1. p \in Nat /\ q \in Nat /\ rank[p] \in Nat /\ rank[q] \in Nat
    <3>1. p \in Nat /\ q \in Nat
      BY <1>2, <1>3
    <3>2. rank[p] \in 1 .. N /\ rank[q] \in 1 .. N
      BY <1>6
    <3>3. QED
      BY <1>5, <3>1, <3>2
  <2>2. p = q \/ p < q \/ q < p
    BY <2>1
  <2>3. QED
    BY <1>7, <2>1, <2>2
<1>10. \A i \in 1 .. N : \E p \in S : rank[p] = i
  <2>1. rank \in Injection(S, 1 .. N)
    BY <1>8, <1>9 DEF Injection, IsInjective
  <2>2. IsFiniteSet(1 .. N) /\ Cardinality(1 .. N) = N
    BY <1>5, FS_Interval
  <2>3. Cardinality(S) = Cardinality(1 .. N)
    BY <2>2 DEF N
  <2>4. rank \in Surjection(S, 1 .. N)
    BY <2>1, <2>2, <2>3, FS_Injection
  <2>5. QED
    BY <2>4 DEF Surjection
<1>11. \A i \in 1 .. N : list[i] \in S /\ rank[list[i]] = i
  <2> TAKE i \in 1 .. N
  <2>1. \E p \in S : Cardinality(Above(p)) = i
    BY <1>6, <1>10
  <2>2. list[i] = CHOOSE p \in S : Cardinality(Above(p)) = i
    OBVIOUS
  <2> HIDE DEF Above, list
  <2>3. list[i] \in S /\ Cardinality(Above(list[i])) = i
    BY <2>1, <2>2
  <2>4. QED
    BY <1>6, <2>3
<1>12. list = [i \in 1 .. N |-> list[i]]
  BY SMTT(30)
<1> HIDE DEF list, Above
<1>13. list \in Seq(Pages) /\ Len(list) = N
  BY <1>2, <1>5, <1>11, <1>12
<1>14. Once(list)
  BY <1>11, <1>13 DEF Once
<1>15. \A p \in Pages : On(list, p) <=> p \in S
  <2> TAKE p \in Pages
  <2>1. ASSUME p \in S
        PROVE  On(list, p)
    <3>1. rank[p] \in 1 .. N
      BY <1>6, <2>1
    <3>2. list[rank[p]] = p
      BY <1>9, <1>11, <2>1, <3>1
    <3>3. QED
      BY <1>13, <3>1, <3>2 DEF On
  <2>2. On(list, p) => p \in S
    BY <1>11, <1>13 DEF On
  <2>3. QED
    BY <2>1, <2>2
<1>16. QED
  BY <1>1, <1>2, <1>13, <1>14, <1>15

\* The blocks made of all the ranges, and those of one node.
LEMMA EarlyBlocksFacts ==
  ASSUME NEW l, GoodLayout(l)
  PROVE  /\ EarlyBlocks(l) \subseteq Blocks
         /\ Apart(EarlyBlocks(l))
         /\ \A q \in Nat : Covered(EarlyBlocks(l), q) <=> \E r \in l : q \in r.start .. (r.end - 1)
         /\ \A n \in Nodes : BlocksOf(n, l) \subseteq EarlyBlocks(l)
         /\ \A x \in EarlyBlocks(l) : Covers(x, x.pfn) /\ \E n \in Nodes : x \in BlocksOf(n, l)
         /\ \A m, n \in Nodes : \A x : x \in BlocksOf(m, l) /\ x \in BlocksOf(n, l) => m = n
<1> DEFINE Of(r) == SplitRange(r.start, r.end)
<1>1. \A r \in l : r.start \in Nat /\ r.end \in Nat /\ r.start < r.end /\ r.end <= NumPages /\ r.nid \in Nodes
  BY OrderFacts DEF GoodLayout, Pages
<1>2. \A r, s \in l : r # s => r.end <= s.start \/ s.end <= r.start
  BY DEF GoodLayout
<1>3. \A r \in l : Chain(Of(r), r.start, r.end)
  BY <1>1, SplitRangeChain
<1>4. \A n, x : x \in BlocksOf(n, l) <=> \E r \in l : r.nid = n /\ x \in Of(r)
  BY DEF BlocksOf
<1> HIDE DEF Of
<1>5. \A x : x \in EarlyBlocks(l) <=> \E r \in l : x \in Of(r)
  BY <1>1, <1>4 DEF EarlyBlocks
<1>6. \A r \in l : \A x \in Of(r) : x \in Blocks /\ x.pfn \in Nat /\ Covers(x, x.pfn)
  <2> TAKE r \in l
  <2>1. Of(r) \subseteq Blocks
    BY <1>3 DEF Chain
  <2>2. QED
    BY <2>1, OrderFacts DEF Covers
<1>7. \A r \in l : \A x \in Of(r), q \in Nat : Covers(x, q) => r.start <= q /\ q < r.end
  BY <1>3 DEF Chain, Covered
<1>8. \A r, s \in l : \A x \in Of(r), y \in Of(s), q \in Nat : Covers(x, q) /\ Covers(y, q) => r = s
  <2> SUFFICES ASSUME NEW r \in l, NEW s \in l, NEW x \in Of(r), NEW y \in Of(s), NEW q \in Nat,
                      Covers(x, q), Covers(y, q)
               PROVE  r = s
    OBVIOUS
  <2>1. r.start <= q /\ q < r.end /\ s.start <= q /\ q < s.end
    BY <1>7
  <2>2. QED
    BY <1>1, <1>2, <2>1
<1>9. EarlyBlocks(l) \subseteq Blocks
  BY <1>5, <1>6
<1>10. Apart(EarlyBlocks(l))
  <2> SUFFICES ASSUME NEW x \in EarlyBlocks(l), NEW y \in EarlyBlocks(l), NEW q \in Nat,
                      Covers(x, q), Covers(y, q)
               PROVE  x = y
    BY DEF Apart
  <2>1. PICK r \in l : x \in Of(r)
    BY <1>5
  <2>2. PICK s \in l : y \in Of(s)
    BY <1>5
  <2>3. r = s
    BY <1>8, <2>1, <2>2
  <2>4. Apart(Of(r))
    BY <1>3 DEF Chain
  <2>5. QED
    BY <2>1, <2>2, <2>3, <2>4 DEF Apart
<1>11. ASSUME NEW q \in Nat
       PROVE  Covered(EarlyBlocks(l), q) <=> \E r \in l : q \in r.start .. (r.end - 1)
  <2>1. Covered(EarlyBlocks(l), q) <=> \E r \in l : Covered(Of(r), q)
    BY <1>5 DEF Covered
  <2>2. \A r \in l : Covered(Of(r), q) <=> q \in r.start .. (r.end - 1)
    <3> TAKE r \in l
    <3>1. Covered(Of(r), q) <=> r.start <= q /\ q < r.end
      BY <1>3 DEF Chain
    <3>2. QED
      BY <1>1, <3>1
  <2>3. QED
    BY <2>1, <2>2
<1>12. \A n \in Nodes : BlocksOf(n, l) \subseteq EarlyBlocks(l)
  BY <1>4, <1>5
<1>13. \A x \in EarlyBlocks(l) : Covers(x, x.pfn) /\ \E n \in Nodes : x \in BlocksOf(n, l)
  BY <1>1, <1>4, <1>5, <1>6
<1>14. ASSUME NEW m \in Nodes, NEW n \in Nodes, NEW x, x \in BlocksOf(m, l), x \in BlocksOf(n, l)
       PROVE  m = n
  <2>1. PICK r \in l : r.nid = m /\ x \in Of(r)
    BY <1>4, <1>14
  <2>2. PICK s \in l : s.nid = n /\ x \in Of(s)
    BY <1>4, <1>14
  <2>3. x.pfn \in Nat /\ Covers(x, x.pfn)
    BY <1>6, <2>1
  <2>4. r = s
    BY <1>8, <2>1, <2>2, <2>3
  <2>5. QED
    BY <2>1, <2>2, <2>4
<1>15. QED
  BY <1>9, <1>10, <1>11, <1>12, <1>13, <1>14

\* What PageAllocator::Init leaves, alone or after the early allocator.
PageStart ==
  /\ GoodLayout(layout)
  /\ free_page_lists = EarlyLists(layout)
  /\ usage = EarlyUsage(layout)
  /\ order = EarlyOrder(layout)
  /\ op = [n \in Nodes |-> Idle]
  /\ held = {}

LEMMA StartInv == PageStart => PageInv
<1> SUFFICES ASSUME PageStart PROVE PageInv
  OBVIOUS
<1> DEFINE B == EarlyBlocks(layout)
<1>1. /\ GoodLayout(layout) /\ held = {}
      /\ free_page_lists = [n \in Nodes |-> [k \in Orders |-> EarlyList(BlocksOf(n, layout), k)]]
      /\ usage = EarlyUsage(layout) /\ order = EarlyOrder(layout)
  BY DEF PageStart, EarlyLists
<1>2. /\ B \subseteq Blocks /\ Apart(B)
      /\ \A q \in Nat : Covered(B, q) <=> \E r \in layout : q \in r.start .. (r.end - 1)
      /\ \A n \in Nodes : BlocksOf(n, layout) \subseteq B
      /\ \A x \in B : Covers(x, x.pfn) /\ \E n \in Nodes : x \in BlocksOf(n, layout)
      /\ \A m, n \in Nodes : \A x : x \in BlocksOf(m, layout) /\ x \in BlocksOf(n, layout) => m = n
  BY <1>1, EarlyBlocksFacts
<1>3. usage = [p \in Pages |-> IF \E b \in B : b.pfn = p THEN "PAGE_ALLOCATOR" ELSE "RESERVED"]
  BY <1>1 DEF EarlyUsage
<1>4. order = [p \in Pages |-> IF \E b \in B : b.pfn = p
                               THEN (CHOOSE b \in B : b.pfn = p).order ELSE 0]
  BY <1>1 DEF EarlyOrder
<1> HIDE DEF B
<1>5. \A n \in Nodes, k \in Orders :
        LET s == free_page_lists[n][k] IN
        /\ s \in Seq(Pages) /\ Once(s)
        /\ \A p \in Pages : On(s, p) <=> Block(p, k) \in BlocksOf(n, layout)
  <2> TAKE n \in Nodes, k \in Orders
  <2>1. BlocksOf(n, layout) \in SUBSET Blocks
    BY <1>2
  <2>2. free_page_lists[n][k] = EarlyList(BlocksOf(n, layout), k)
    BY <1>1
  <2>3. QED
    BY <2>1, <2>2, EarlyListFacts
<1>6. \A n \in Nodes, x \in Blocks : Listed(n, x) <=> x \in BlocksOf(n, layout)
  BY <1>5, OrderFacts DEF Listed
<1>7. FreeBlocks = B /\ AllBlocks = B
  <2>1. FreeBlocks = B
    BY <1>2, <1>6 DEF FreeBlocks
  <2>2. QED
    BY <1>1, <2>1 DEF AllBlocks
<1>8. \A q : q \in Memory <=> \E r \in layout : q \in r.start .. (r.end - 1)
  BY DEF Memory
<1>9. Memory \subseteq Pages
  <2> SUFFICES ASSUME NEW q \in Memory PROVE q \in Pages
    OBVIOUS
  <2>1. PICK r \in layout : q \in r.start .. (r.end - 1)
    BY <1>8
  <2>2. r.start \in Nat /\ r.end \in Nat /\ r.end <= NumPages
    BY <1>1, OrderFacts DEF GoodLayout, Pages
  <2>3. QED
    BY <2>1, <2>2, PageAssumption DEF Pages
<1>10. PartitionInv
  BY <1>2, <1>7, <1>8 DEF PartitionInv
<1>11. PlacesInv
  BY <1>1, <1>2, <1>5, <1>6 DEF PlacesInv
<1>12. \A x, y \in B : x.pfn = y.pfn => x = y
  <2> TAKE x \in B, y \in B
  <2> HAVE x.pfn = y.pfn
  <2>1. x.pfn \in Nat /\ Covers(x, x.pfn) /\ Covers(y, x.pfn)
    BY <1>2, OrderFacts
  <2>2. QED
    BY <1>2, <2>1 DEF Apart
<1>13. \A x \in B : usage[x.pfn] = "PAGE_ALLOCATOR" /\ order[x.pfn] = x.order
  <2> TAKE x \in B
  <2>1. x.pfn \in Pages
    BY <1>2, OrderFacts
  <2>2. (CHOOSE b \in B : b.pfn = x.pfn) = x
    BY <1>12
  <2>3. QED
    BY <1>3, <1>4, <2>1, <2>2
<1>14. \A q \in Pages : usage[q] = "PAGE_ALLOCATOR" => \E x \in B : x.pfn = q
  BY <1>3
<1>15. MarksInv
  BY <1>1, <1>2, <1>7, <1>13, <1>14 DEF MarksInv
<1>16. usage \in [Pages -> Usages]
  BY <1>3 DEF Usages
<1>17. order \in [Pages -> Orders]
  <2>1. 0 \in Orders
    BY OrderFacts DEF Orders
  <2>2. \A p \in Pages : order[p] \in Orders
    <3> TAKE p \in Pages
    <3>1. CASE \E b \in B : b.pfn = p
      <4>1. PICK b \in B : b.pfn = p
        BY <3>1
      <4>2. order[p] = b.order /\ b.order \in Orders
        BY <1>2, <1>13, <4>1, OrderFacts
      <4>3. QED
        BY <4>2
    <3>2. CASE ~ \E b \in B : b.pfn = p
      BY <1>4, <2>1, <3>2
    <3>3. QED
      BY <3>1, <3>2
  <2>3. QED
    BY <1>4, <2>2
<1>18. free_page_lists \in [Nodes -> [Orders -> Seq(Pages)]]
  <2>1. \A n \in Nodes, k \in Orders : EarlyList(BlocksOf(n, layout), k) \in Seq(Pages)
    BY <1>1, <1>5
  <2>2. QED
    BY <1>1, <2>1
<1>19. op \in [Nodes -> Operations] /\ \A n \in Nodes : op[n].step = "idle"
  BY IdleFacts DEF PageStart
<1>20. StateInv
  BY <1>1, <1>9, <1>16, <1>17, <1>18, <1>19 DEF StateInv
<1>21. OpInv
  BY <1>19 DEF OpInv, Has
<1>22. QED
  BY <1>10, <1>11, <1>15, <1>20, <1>21 DEF PageInv

-----------------------------------------------------------------------------
(* One node *)

\* With one node, the buddy that passed the test is still on its list.
AloneInv ==
  PagesInv /\ ~raced /\ \A n \in Nodes : op[n].step = "erase" => BuddyOn(n, op[n].block)

LEMMA AloneNext ==
  ASSUME AloneInv, \A m, n \in Nodes : m = n, [Next]_paVars
  PROVE  AloneInv'
<1>1. PageInv /\ op \in [Nodes -> Operations] /\ PagesInv'
  BY PageNext DEF AloneInv, PagesInv, PageInv, StateInv
<1>2. SUFFICES ~raced' /\ \A n \in Nodes : op'[n].step = "erase" => BuddyOn(n, op[n].block)'
  BY <1>1 DEF AloneInv
<1>3. ASSUME NEW n \in Nodes, NEW o \in Operations, op' = [op EXCEPT ![n] = o],
             o.step # "erase", raced' = raced
      PROVE  ~raced' /\ \A m \in Nodes : op'[m].step = "erase" => BuddyOn(m, op[m].block)'
  <2>1. \A m \in Nodes : m = n /\ op'[m] = o
    BY <1>1, <1>3
  <2>2. QED
    BY <1>3, <2>1 DEF AloneInv
<1>4. ASSUME NEW nid \in Nodes, NEW k \in Orders, Alloc(nid, k)
      PROVE  op'[nid].step = "split" /\ raced' = raced
  BY <1>1, <1>4 DEF Alloc
<1>5. ASSUME NEW n \in Nodes, \/ Split(n) \/ Push(n) \/ \E b \in Blocks : Free(n, b)
      PROVE  op'[n].step \in {"idle", "test"} /\ raced' = raced
  BY <1>1, <1>5 DEF Split, Push, Free, Idle
<1>6. ASSUME NEW n \in Nodes, Test(n)
      PROVE  raced' = raced /\ (op'[n].step = "erase" => BuddyOn(n, op[n].block)')
  <2> DEFINE b == op[n].block
  <2>1. /\ op[n].step = "test" /\ Has(n, b) /\ op'[n].block = b /\ raced' = raced
        /\ op'[n].step = "erase" => Passes(b)
        /\ free_page_lists' = free_page_lists
    BY <1>1, <1>6 DEF Test, OpAt, Has, Operations
  <2>2. Passes(b) => BuddyOn(n, b)
    <3> SUFFICES ASSUME Passes(b) PROVE BuddyOn(n, b)
      OBVIOUS
    <3>1. CoalescesOnlyFreeBlocks /\ ~raced
      BY <1>1, FreesWhatIsFree DEF AloneInv
    <3>2. \/ \E d \in Nodes : BuddyOn(d, b)
          \/ Taking(n, pfn_to_buddy(b.pfn, b.order), b.order)
      BY <2>1, <3>1 DEF CoalescesOnlyFreeBlocks
    <3>3. QED
      BY <3>2 DEF Taking
  <2>3. BuddyOn(n, b) /\ op'[n].block = b => BuddyOn(n, op[n].block)'
    BY <2>1 DEF BuddyOn, On
  <2>4. QED
    BY <2>1, <2>2, <2>3
<1>7. ASSUME NEW n \in Nodes, Erase(n)
      PROVE  raced' = raced /\ op'[n].step = "test"
  <2>1. BuddyOn(n, op[n].block)
    BY <1>7 DEF AloneInv, Erase, OpAt
  <2>2. Undisturbed(n)
    BY <2>1 DEF Undisturbed
  <2>3. Merge(n, op[n].block) /\ raced' = FALSE /\ raced = FALSE
    BY <1>7, <2>2 DEF Erase, AloneInv, PagesInv, TypeOK
  <2>4. QED
    BY <1>1, <2>3 DEF Merge
<1>8. CASE UNCHANGED paVars
  BY <1>8 DEF paVars, AloneInv, BuddyOn, On
<1>9. ASSUME NEW n \in Nodes, raced' = raced, op'[n].step = "erase" => BuddyOn(n, op[n].block)'
      PROVE  ~raced' /\ \A m \in Nodes : op'[m].step = "erase" => BuddyOn(m, op[m].block)'
  <2>1. \A m \in Nodes : m = n
    OBVIOUS
  <2>2. QED
    BY <1>9, <2>1 DEF AloneInv
<1>10. QED
  BY <1>4, <1>5, <1>6, <1>7, <1>8, <1>9 DEF Next

-----------------------------------------------------------------------------
(* Theorems *)

\* The inductive invariant: until two nodes meet in a list, a partition, every
\* block in one place, and every mark within its block; and always the types
\* (Init, Alloc, Free).
THEOREM PageInvariant == Spec => []PagesInv
<1>1. Init => PagesInv
  <2>1. Init => PageStart /\ raced = FALSE
    BY PageAssumption DEF Init, PageStart
  <2>2. QED
    BY <2>1, StartInv, PageInvTypes DEF PagesInv
<1>2. PagesInv /\ [Next]_paVars => PagesInv'
  BY PageNext
<1>3. QED
  BY <1>1, <1>2, PTL DEF Spec

\* No page is in two blocks, none is lost, and no block is on two lists, on one
\* twice or in two hands, in the middle of the operations of all the nodes and
\* through merges across nodes, until two nodes meet in a list (Init,
\* AllocLocal, FreePageNoCoalesce, Free).
THEOREM AlwaysPartitioned == Spec => []PagesPartitioned
<1>1. PagesInv => PagesPartitioned
  BY PageInvPartitions DEF PagesInv, PagesPartitioned
<1>2. QED
  BY <1>1, PageInvariant, PTL

\* Whatever marks earlier merges and requests have left in the memory map, a
\* buddy that passes Free's test is on a list of its order or has just been
\* taken from one by another node.
THEOREM AlwaysCoalescesFreeBlocks == Spec => []CoalescesOnlyFreeBlocks
<1>1. PagesInv => CoalescesOnlyFreeBlocks
  BY FreesWhatIsFree DEF PagesInv, CoalescesOnlyFreeBlocks
<1>2. QED
  BY <1>1, PageInvariant, PTL

\* On a machine with one node Free never erases a buddy that is not free, and
\* what the other theorems say holds for ever (Free).
THEOREM OneNodeNeverRaces ==
  ASSUME \A m, n \in Nodes : m = n
  PROVE  Spec => [](BuddyIsFree /\ ~raced)
<1>1. Init => AloneInv
  <2>1. Init => PagesInv /\ ~raced /\ \A n \in Nodes : op[n].step # "erase"
    <3>1. Init => PageStart /\ raced = FALSE
      BY PageAssumption DEF Init, PageStart
    <3>2. Init => \A n \in Nodes : op[n].step = "idle"
      BY IdleFacts DEF Init
    <3>3. QED
      BY <3>1, <3>2, StartInv, PageInvTypes DEF PagesInv
  <2>2. QED
    BY <2>1 DEF AloneInv
<1>2. AloneInv /\ [Next]_paVars => AloneInv'
  BY AloneNext
<1>3. AloneInv => BuddyIsFree /\ ~raced
  BY DEF AloneInv, BuddyIsFree
<1>4. QED
  BY <1>1, <1>2, <1>3, PTL DEF Spec

\* The lists, the memory map, the operations and the blocks off the lists have
\* their types, the step of a race included.
THEOREM PageTypes == Spec => []TypeOK
<1>1. PagesInv => TypeOK
  BY DEF PagesInv
<1>2. QED
  BY <1>1, PageInvariant, PTL
=============================================================================
