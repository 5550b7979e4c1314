----------------------------- MODULE HostProofs -----------------------------
(***************************************************************************)
(* What the kernel shares with the host, proved for any number of          *)
(* descriptors, messages, timers, fields and updates: a virtio ring that   *)
(* the driver and the device use beside each other (Vring), the timers on  *)
(* the one-shot APIC timer (ApicTimer), and the clock page the hypervisor  *)
(* writes while the kernel reads it (Clock).                               *)
(*                                                                         *)
(* The used ring is read at an index that is not reduced modulo its size   *)
(* (virtio.hpp:247), so the theorems about the ring hold while the device  *)
(* has gone round it at most once (OneLap).                                *)
(***************************************************************************)
EXTENDS Vring, ApicTimer, Clock, TLAPS, FiniteSetTheorems, WellFoundedInduction

\* The rings are gone round at most once (virtio.hpp:246 reads
\* used_->ring[used_index] without reducing the index).
OneLap == MaxReceived <= qsize /\ MaxSent <= qsize

\* The n-th descriptor from d along a function f of the descriptors.
Walk(f, d, n) ==
  LET Step[i \in 0 .. n] == IF i = 0 THEN d ELSE f[Step[i - 1]] IN Step[n]

\* Of the descriptors, the walks are functions.
Steps(f, d, n, g) ==
  /\ g \in [0 .. n -> Descs] /\ g[0] = d
  /\ \A i \in 1 .. n : g[i] = f[g[i - 1]]

\* The first c descriptors from h.
Nodes(f, h, c) == {Walk(f, h, i) : i \in 0 .. c - 1}

Injective(f, h, c) ==
  \A i, j \in 0 .. c - 1 : Walk(f, h, i) = Walk(f, h, j) => i = j

\* From d on there are n links, and no descriptor twice.
IsChain(f, m, d, n) ==
  /\ n \in 0 .. qsize - 1
  /\ \A i \in 0 .. n - 1 : m[Walk(f, d, i)]
  /\ ~ m[Walk(f, d, n)]
  /\ Injective(f, d, n + 1)

LinksIn(f, m, d) ==
  CHOOSE n \in 0 .. qsize :
    /\ \A i \in 0 .. n - 1 : m[Walk(f, d, i)]
    /\ n = qsize \/ ~ m[Walk(f, d, n)]

Chain(f, m, d) == Nodes(f, d, LinksIn(f, m, d) + 1)

\* With the links f and the flags m, each descriptor is once among the c free
\* ones from h on or in one of the chains that begin with a member of O.
Partition(f, m, h, c, O) ==
  /\ f \in [Descs -> Descs] /\ m \in [Descs -> BOOLEAN]
  /\ h \in Descs /\ c \in Nat /\ O \subseteq Descs
  /\ Injective(f, h, c)
  /\ \A d \in O : IsChain(f, m, d, LinksIn(f, m, d))
  /\ \A d \in O : Chain(f, m, d) \cap Nodes(f, h, c) = {}
  /\ \A d, e \in O : d # e => Chain(f, m, d) \cap Chain(f, m, e) = {}
  /\ \A x \in Descs : x \in Nodes(f, h, c) \/ \E d \in O : x \in Chain(f, m, d)

-----------------------------------------------------------------------------
(* Walks *)

LEMMA Least ==
  ASSUME NEW T \in SUBSET Nat, T # {}
  PROVE  \E t \in T : \A u \in T : t <= u
<1>1. PICK t \in T : \A u \in T : ~ (<<u, t>> \in OpToRel(<, Nat))
  BY WFMin, NatLessThanWellFounded
<1>2. ASSUME NEW u \in T, ~ (t <= u)
      PROVE  FALSE
  <2>1. <<u, t>> \in OpToRel(<, Nat)
    BY <1>2 DEF OpToRel
  <2> QED BY <1>1, <2>1
<1> QED BY <1>2

LEMMA StepsExist ==
  ASSUME NEW f \in [Descs -> Descs], NEW d \in Descs, NEW n \in Nat
  PROVE  \E g : Steps(f, d, n, g)
<1> DEFINE T == {k \in Nat : ~ \E g : Steps(f, d, k, g)}
<1> SUFFICES ASSUME T # {} PROVE FALSE
  OBVIOUS
<1>1. PICK t \in T : \A u \in T : t <= u
  BY Least
<1>2. t # 0
  <2>1. Steps(f, d, 0, [i \in 0 .. 0 |-> d])
    BY DEF Steps
  <2> QED BY <2>1, <1>1
<1>3. t \in Nat /\ t - 1 \in Nat /\ t - 1 \notin T
  BY <1>1, <1>2
<1>4. PICK g : Steps(f, d, t - 1, g)
  BY <1>3
<1> DEFINE h == [i \in 0 .. t |-> IF i < t THEN g[i] ELSE f[g[t - 1]]]
<1>5. h \in [0 .. t -> Descs]
  BY <1>3, <1>4 DEF Steps
<1>6. h[0] = d
  BY <1>3, <1>2, <1>4 DEF Steps
<1>7. ASSUME NEW i \in 1 .. t PROVE h[i] = f[h[i - 1]]
  BY <1>3, <1>4 DEF Steps
<1>8. Steps(f, d, t, h)
  BY <1>5, <1>6, <1>7 DEF Steps
<1> QED BY <1>1, <1>8

LEMMA StepsAgree ==
  ASSUME NEW f, NEW d, NEW n \in Nat, NEW k \in Nat, NEW g, NEW h,
         Steps(f, d, n, g), Steps(f, d, k, h), NEW i \in Nat, i <= n, i <= k
  PROVE  g[i] = h[i]
<1> DEFINE T == {j \in Nat : j <= n /\ j <= k /\ g[j] # h[j]}
<1> SUFFICES ASSUME T # {} PROVE FALSE
  OBVIOUS
<1>1. PICK t \in T : \A u \in T : t <= u
  BY Least
<1>2. t # 0
  BY <1>1 DEF Steps
<1>3. t \in 1 .. n /\ t \in 1 .. k /\ t - 1 \in Nat /\ t - 1 \notin T
  BY <1>1, <1>2
<1>4. g[t - 1] = h[t - 1]
  BY <1>3
<1> QED BY <1>1, <1>3, <1>4 DEF Steps

LEMMA WalkSteps ==
  ASSUME NEW f \in [Descs -> Descs], NEW d \in Descs, NEW n \in Nat
  PROVE  \E g : Steps(f, d, n, g) /\ Walk(f, d, n) = g[n]
<1> DEFINE Is(g) == g = [i \in 0 .. n |-> IF i = 0 THEN d ELSE f[g[i - 1]]]
           Step == CHOOSE g : Is(g)
<1>1. PICK g : Steps(f, d, n, g)
  BY StepsExist
<1>2. Is(g)
  <2>1. g = [i \in 0 .. n |-> g[i]]
    BY <1>1 DEF Steps
  <2>2. ASSUME NEW i \in 0 .. n PROVE g[i] = IF i = 0 THEN d ELSE f[g[i - 1]]
    BY <1>1 DEF Steps
  <2> QED BY <2>1, <2>2
<1>3. Is(Step)
  BY <1>2
<1>4. Steps(f, d, n, Step)
  <2>0. Step = [i \in 0 .. n |-> IF i = 0 THEN d ELSE f[Step[i - 1]]]
    BY <1>3
  <2> HIDE DEF Step
  <2>1. Step[0] = d
    BY <2>0
  <2>2. ASSUME NEW i \in 1 .. n PROVE Step[i] = f[Step[i - 1]]
    BY <2>0
  <2>3. \A i \in 0 .. n : Step[i] \in Descs
    <3> DEFINE T == {j \in Nat : j <= n /\ Step[j] \notin Descs}
    <3> SUFFICES ASSUME T # {} PROVE FALSE
      OBVIOUS
    <3>1. PICK t \in T : \A u \in T : t <= u
      BY Least
    <3>2. t # 0
      BY <3>1, <2>1
    <3>3. t \in 1 .. n /\ t - 1 \in Nat /\ t - 1 \notin T
      BY <3>1, <3>2
    <3>4. Step[t - 1] \in Descs
      BY <3>3
    <3> QED BY <3>1, <3>3, <3>4, <2>2
  <2>4. Step \in [0 .. n -> Descs]
    <3>1. Step = [i \in 0 .. n |-> Step[i]]
      BY <2>0
    <3> QED BY <2>3, <3>1
  <2> QED BY <2>1, <2>2, <2>4 DEF Steps
<1>5. Walk(f, d, n) = Step[n]
  BY DEF Walk
<1> HIDE DEF Step
<1> QED BY <1>4, <1>5

\* A walk begins with its first descriptor and follows f.
LEMMA WalkFacts ==
  ASSUME NEW f \in [Descs -> Descs], NEW d \in Descs, NEW n \in Nat
  PROVE  /\ Walk(f, d, n) \in Descs /\ Walk(f, d, 0) = d
         /\ Walk(f, d, n + 1) = f[Walk(f, d, n)]
<1>1. PICK g : Steps(f, d, n, g) /\ Walk(f, d, n) = g[n]
  BY WalkSteps
<1>2. PICK h : Steps(f, d, n + 1, h) /\ Walk(f, d, n + 1) = h[n + 1]
  BY WalkSteps
<1>3. PICK e : Steps(f, d, 0, e) /\ Walk(f, d, 0) = e[0]
  BY WalkSteps
<1>4. h[n] = g[n]
  BY <1>1, <1>2, StepsAgree
<1>5. h[n + 1] = f[h[n]]
  <2>1. n + 1 \in 1 .. n + 1 /\ (n + 1) - 1 = n
    OBVIOUS
  <2> QED BY <1>2, <2>1 DEF Steps
<1>6. g[n] \in Descs
  BY <1>1 DEF Steps
<1> QED BY <1>1, <1>2, <1>3, <1>4, <1>5, <1>6 DEF Steps

\* A walk that only meets links that did not change is the same walk.
LEMMA WalkSame ==
  ASSUME NEW f \in [Descs -> Descs], NEW g \in [Descs -> Descs], NEW d \in Descs,
         NEW n \in Nat, \A i \in 0 .. n - 1 : g[Walk(f, d, i)] = f[Walk(f, d, i)],
         NEW k \in 0 .. n
  PROVE  Walk(g, d, k) = Walk(f, d, k)
<1> DEFINE T == {j \in Nat : j <= n /\ Walk(g, d, j) # Walk(f, d, j)}
<1> SUFFICES ASSUME T # {} PROVE FALSE
  OBVIOUS
<1>1. PICK t \in T : \A u \in T : t <= u
  BY Least
<1>2. t # 0
  <2>1. 0 \in Nat
    OBVIOUS
  <2>2. Walk(g, d, 0) = d /\ Walk(f, d, 0) = d
    BY <2>1, WalkFacts
  <2> QED BY <1>1, <2>2
<1>3. t - 1 \in Nat /\ t - 1 \in 0 .. n - 1 /\ t - 1 \notin T
  BY <1>1, <1>2
<1>4. Walk(g, d, t - 1) = Walk(f, d, t - 1)
  BY <1>3
<1>5. (t - 1) + 1 = t
  BY <1>1
<1>6. Walk(g, d, (t - 1) + 1) = g[Walk(g, d, t - 1)]
      /\ Walk(f, d, (t - 1) + 1) = f[Walk(f, d, t - 1)]
  BY <1>3, WalkFacts
<1> QED BY <1>1, <1>3, <1>4, <1>5, <1>6

\* A walk goes on where it was.
LEMMA WalkOn ==
  ASSUME NEW f \in [Descs -> Descs], NEW d \in Descs, NEW k \in Nat, NEW n \in Nat
  PROVE  Walk(f, Walk(f, d, k), n) = Walk(f, d, k + n)
<1> DEFINE T == {j \in Nat : Walk(f, Walk(f, d, k), j) # Walk(f, d, k + j)}
<1> SUFFICES ASSUME T # {} PROVE FALSE
  OBVIOUS
<1>1. PICK t \in T : \A u \in T : t <= u
  BY Least
<1>0. Walk(f, d, k) \in Descs
  BY WalkFacts
<1>2. t # 0
  <2>1. Walk(f, Walk(f, d, k), 0) = Walk(f, d, k) /\ k + 0 = k
    BY <1>0, WalkFacts
  <2> QED BY <1>1, <2>1
<1>3. t - 1 \in Nat /\ t - 1 \notin T /\ k + (t - 1) \in Nat
  BY <1>1, <1>2
<1>4. Walk(f, Walk(f, d, k), t - 1) = Walk(f, d, k + (t - 1))
  BY <1>3
<1>5. (t - 1) + 1 = t /\ (k + (t - 1)) + 1 = k + t
  BY <1>1
<1>6. /\ Walk(f, Walk(f, d, k), (t - 1) + 1) = f[Walk(f, Walk(f, d, k), t - 1)]
      /\ Walk(f, d, (k + (t - 1)) + 1) = f[Walk(f, d, k + (t - 1))]
  BY <1>0, <1>3, WalkFacts
<1> QED BY <1>1, <1>4, <1>5, <1>6

LEMMA InNodes ==
  ASSUME NEW f, NEW h, NEW c, NEW i \in 0 .. c - 1
  PROVE  Walk(f, h, i) \in Nodes(f, h, c)
BY DEF Nodes

LEMMA NodesInDescs ==
  ASSUME NEW f \in [Descs -> Descs], NEW h \in Descs, NEW c \in Nat
  PROVE  Nodes(f, h, c) \subseteq Descs
BY WalkFacts DEF Nodes

\* A list is its first n descriptors and the rest.
LEMMA NodesSplit ==
  ASSUME NEW f \in [Descs -> Descs], NEW h \in Descs, NEW c \in Nat,
         NEW n \in 0 .. c
  PROVE  Nodes(f, h, c) = Nodes(f, h, n) \cup Nodes(f, Walk(f, h, n), c - n)
<1>1. n \in Nat /\ c - n \in Nat
  OBVIOUS
<1>2. ASSUME NEW i \in 0 .. c - 1
      PROVE  Walk(f, h, i) \in Nodes(f, h, n) \cup Nodes(f, Walk(f, h, n), c - n)
  <2>1. CASE i < n
    BY <2>1, <1>1, InNodes
  <2>2. CASE ~ (i < n)
    <3>1. i - n \in 0 .. (c - n) - 1 /\ i - n \in Nat /\ n + (i - n) = i
      BY <2>2, <1>1
    <3>2. Walk(f, Walk(f, h, n), i - n) = Walk(f, h, n + (i - n))
      BY <3>1, <1>1, WalkOn
    <3>3. Walk(f, Walk(f, h, n), i - n) \in Nodes(f, Walk(f, h, n), c - n)
      BY <3>1, InNodes
    <3> QED BY <3>1, <3>2, <3>3
  <2> QED BY <2>1, <2>2
<1>3. ASSUME NEW i \in 0 .. n - 1
      PROVE  Walk(f, h, i) \in Nodes(f, h, c)
  BY <1>1, InNodes
<1>4. ASSUME NEW i \in 0 .. (c - n) - 1
      PROVE  Walk(f, Walk(f, h, n), i) \in Nodes(f, h, c)
  <2>1. i \in Nat /\ n + i \in 0 .. c - 1
    BY <1>1
  <2>2. Walk(f, Walk(f, h, n), i) = Walk(f, h, n + i)
    BY <2>1, <1>1, WalkOn
  <2> QED BY <2>1, <2>2, InNodes
<1> QED BY <1>2, <1>3, <1>4 DEF Nodes

LEMMA InjectiveSplit ==
  ASSUME NEW f \in [Descs -> Descs], NEW h \in Descs, NEW c \in Nat,
         NEW n \in 0 .. c, Injective(f, h, c)
  PROVE  /\ Injective(f, h, n) /\ Injective(f, Walk(f, h, n), c - n)
         /\ Nodes(f, h, n) \cap Nodes(f, Walk(f, h, n), c - n) = {}
<1>0. n \in Nat
  OBVIOUS
<1>1. Injective(f, h, n)
  BY DEF Injective
<1>2. ASSUME NEW i \in 0 .. (c - n) - 1
      PROVE  /\ Walk(f, Walk(f, h, n), i) = Walk(f, h, n + i)
             /\ n + i \in 0 .. c - 1
  <2>1. i \in Nat
    OBVIOUS
  <2> QED BY <1>0, <2>1, WalkOn
<1>3. Injective(f, Walk(f, h, n), c - n)
  <2> SUFFICES ASSUME NEW i \in 0 .. (c - n) - 1, NEW j \in 0 .. (c - n) - 1,
                      Walk(f, Walk(f, h, n), i) = Walk(f, Walk(f, h, n), j)
               PROVE  i = j
    BY DEF Injective
  <2>1. Walk(f, h, n + i) = Walk(f, h, n + j)
    BY <1>2
  <2>2. n + i = n + j
    BY <1>2, <2>1 DEF Injective
  <2> QED BY <2>2, <1>0
<1>4. ASSUME NEW i \in 0 .. n - 1, NEW j \in 0 .. (c - n) - 1
      PROVE  Walk(f, h, i) # Walk(f, Walk(f, h, n), j)
  <2>1. i \in 0 .. c - 1 /\ i # n + j
    BY <1>0
  <2> QED BY <1>2, <2>1 DEF Injective
<1> QED BY <1>1, <1>3, <1>4 DEF Nodes

LEMMA LinksIs ==
  ASSUME NEW f, NEW m, NEW d, NEW n, IsChain(f, m, d, n)
  PROVE  LinksIn(f, m, d) = n
<1> DEFINE Ends(k) == /\ \A i \in 0 .. k - 1 : m[Walk(f, d, i)]
                      /\ k = qsize \/ ~ m[Walk(f, d, k)]
<1>1. n \in 0 .. qsize /\ Ends(n) /\ n # qsize
  BY VringAssumption DEF IsChain
<1>2. ASSUME NEW k \in 0 .. qsize, Ends(k)
      PROVE  k = n
  <2>1. CASE k < n
    <3>1. k # qsize /\ k \in 0 .. n - 1
      BY <2>1, <1>1, VringAssumption
    <3> QED BY <3>1, <1>2, <1>1
  <2>2. CASE n < k
    <3>1. n \in 0 .. k - 1
      BY <2>2, <1>1
    <3>2. ~ m[Walk(f, d, n)]
      BY <1>1
    <3> QED BY <3>1, <3>2, <1>2
  <2> QED BY <2>1, <2>2, <1>1, VringAssumption
<1>3. LinksIn(f, m, d) = CHOOSE k \in 0 .. qsize : Ends(k)
  BY DEF LinksIn
<1> HIDE DEF Ends
<1> QED BY <1>1, <1>2, <1>3

\* A chain whose links and flags did not change is the same chain.
LEMMA ChainSame ==
  ASSUME NEW f \in [Descs -> Descs], NEW g \in [Descs -> Descs], NEW m, NEW p,
         NEW d \in Descs, IsChain(f, m, d, LinksIn(f, m, d)),
         \A x \in Chain(f, m, d) : g[x] = f[x] /\ p[x] = m[x]
  PROVE  /\ IsChain(g, p, d, LinksIn(g, p, d))
         /\ Chain(g, p, d) = Chain(f, m, d)
<1> DEFINE n == LinksIn(f, m, d)
<1>1. n \in Nat
  BY VringAssumption DEF IsChain
<1>2. ASSUME NEW i \in 0 .. n
      PROVE  Walk(f, d, i) \in Chain(f, m, d)
  BY <1>1, InNodes DEF Chain
<1>3. ASSUME NEW i \in 0 .. n
      PROVE  Walk(g, d, i) = Walk(f, d, i)
  BY <1>1, <1>2, WalkSame
<1>4. IsChain(g, p, d, n)
  <2>1. n \in 0 .. qsize - 1
    BY DEF IsChain
  <2>2. ASSUME NEW i \in 0 .. n - 1
        PROVE  p[Walk(g, d, i)]
    BY <1>1, <1>2, <1>3 DEF IsChain
  <2>3. ~ p[Walk(g, d, n)]
    BY <1>1, <1>2, <1>3 DEF IsChain
  <2>4. Injective(g, d, n + 1)
    <3>1. \A i \in 0 .. (n + 1) - 1 : Walk(g, d, i) = Walk(f, d, i)
      BY <1>1, <1>3
    <3>2. Injective(f, d, n + 1)
      BY DEF IsChain
    <3> QED BY <3>1, <3>2 DEF Injective
  <2> QED BY <2>1, <2>2, <2>3, <2>4 DEF IsChain
<1>5. LinksIn(g, p, d) = n
  BY <1>4, LinksIs
<1>6. Nodes(g, d, n + 1) = Nodes(f, d, n + 1)
  <2>1. \A i \in 0 .. (n + 1) - 1 : Walk(g, d, i) = Walk(f, d, i)
    BY <1>1, <1>3
  <2> QED BY <2>1 DEF Nodes
<1> QED BY <1>4, <1>5, <1>6 DEF Chain

\* The head of a chain is in it.
LEMMA HeadInChain ==
  ASSUME NEW f \in [Descs -> Descs], NEW m, NEW d \in Descs,
         IsChain(f, m, d, LinksIn(f, m, d))
  PROVE  d \in Chain(f, m, d)
<1>1. LinksIn(f, m, d) \in Nat /\ 0 \in 0 .. (LinksIn(f, m, d) + 1) - 1
  BY VringAssumption DEF IsChain
<1>2. Walk(f, d, 0) = d
  BY WalkFacts
<1> QED BY <1>1, <1>2, InNodes DEF Chain

\* A list of one: a descriptor whose flag is not set.
LEMMA ChainOfOne ==
  ASSUME NEW f \in [Descs -> Descs], NEW m, NEW d \in Descs, ~ m[d]
  PROVE  IsChain(f, m, d, LinksIn(f, m, d)) /\ Chain(f, m, d) = {d}
<1>1. Walk(f, d, 0) = d
  BY WalkFacts
<1>2. IsChain(f, m, d, 0)
  BY <1>1, VringAssumption DEF IsChain, Injective
<1>3. LinksIn(f, m, d) = 0
  BY <1>2, LinksIs
<1>4. Nodes(f, d, 0 + 1) = {d}
  <2>1. 0 .. (0 + 1) - 1 = {0}
    OBVIOUS
  <2> QED BY <1>1, <2>1 DEF Nodes
<1> QED BY <1>2, <1>3, <1>4 DEF Chain

-----------------------------------------------------------------------------
(* Partitions *)

LEMMA ChainInDescs ==
  ASSUME NEW f \in [Descs -> Descs], NEW m, NEW d \in Descs,
         IsChain(f, m, d, LinksIn(f, m, d))
  PROVE  Chain(f, m, d) \subseteq Descs /\ LinksIn(f, m, d) \in Nat
<1>1. LinksIn(f, m, d) \in Nat
  BY VringAssumption DEF IsChain
<1> QED BY <1>1, NodesInDescs DEF Chain

\* A free descriptor is not the head of a chain that is given away.
LEMMA HeadsAreNotFree ==
  ASSUME NEW f, NEW m, NEW h, NEW c, NEW O, Partition(f, m, h, c, O)
  PROVE  O \cap Nodes(f, h, c) = {}
<1>1. f \in [Descs -> Descs] /\ O \subseteq Descs
  BY DEF Partition
<1>2. ASSUME NEW d \in O
      PROVE  d \notin Nodes(f, h, c)
  <2>1. d \in Chain(f, m, d)
    BY <1>1, HeadInChain DEF Partition
  <2> QED BY <2>1 DEF Partition
<1> QED BY <1>2

LEMMA HeadIsFree ==
  ASSUME NEW f, NEW m, NEW h, NEW c, NEW O, Partition(f, m, h, c, O), 0 < c
  PROVE  h \notin O
<1>1. /\ f \in [Descs -> Descs] /\ h \in Descs /\ c \in Nat
      /\ 0 \in 0 .. c - 1
  BY DEF Partition
<1>2. h \in Nodes(f, h, c)
  <2>1. Walk(f, h, 0) = h
    BY <1>1, WalkFacts
  <2> QED BY <2>1, <1>1, InNodes
<1> QED BY <1>2, HeadsAreNotFree

\* add_readable_buffer: the first n free descriptors become a chain.
LEMMA TakeOne ==
  ASSUME NEW f, NEW m, NEW h, NEW c, NEW O, Partition(f, m, h, c, O),
         NEW n \in 1 .. c, c <= qsize, NEW p \in [Descs -> BOOLEAN],
         ~ p[Walk(f, h, n - 1)], \A i \in 0 .. n - 2 : p[Walk(f, h, i)],
         \A d \in Descs \ Nodes(f, h, n) : p[d] = m[d]
  PROVE  Partition(f, p, Walk(f, h, n), c - n, O \cup {h})
<1>1. /\ f \in [Descs -> Descs] /\ m \in [Descs -> BOOLEAN] /\ h \in Descs
      /\ c \in Nat /\ O \subseteq Descs /\ Injective(f, h, c)
  BY DEF Partition
<1>2. n \in Nat /\ c - n \in Nat /\ n \in 0 .. c /\ n - 1 \in 0 .. n - 1
      /\ n - 1 \in Nat /\ 0 \in 0 .. c - 1
  BY <1>1
<1>3. /\ Injective(f, h, n) /\ Injective(f, Walk(f, h, n), c - n)
      /\ Nodes(f, h, n) \cap Nodes(f, Walk(f, h, n), c - n) = {}
  BY <1>1, <1>2, InjectiveSplit
<1>4. Nodes(f, h, c) = Nodes(f, h, n) \cup Nodes(f, Walk(f, h, n), c - n)
  BY <1>1, <1>2, NodesSplit
<1>5. ASSUME NEW i \in 0 .. n - 1
      PROVE  Walk(f, h, i) \in Descs /\ Walk(f, h, i) \in Nodes(f, h, n)
             /\ i \in Nat
  <2>1. i \in Nat
    BY <1>2
  <2> QED BY <2>1, <1>1, InNodes, WalkFacts
<1>6. IsChain(f, p, h, n - 1)
  <2>1. n - 1 \in 0 .. qsize - 1
    BY <1>1, <1>2, VringAssumption
  <2>2. ASSUME NEW i \in 0 .. (n - 1) - 1
        PROVE  p[Walk(f, h, i)]
    <3>1. i \in 0 .. n - 2
      BY <1>2
    <3> QED BY <3>1
  <2>3. ~ p[Walk(f, h, n - 1)]
    BY <1>2, <1>5
  <2>4. Injective(f, h, (n - 1) + 1)
    <3>1. (n - 1) + 1 = n
      BY <1>2
    <3> QED BY <3>1, <1>3
  <2> QED BY <2>1, <2>2, <2>3, <2>4 DEF IsChain
<1>7. LinksIn(f, p, h) = n - 1
  BY <1>6, LinksIs
<1>8. Chain(f, p, h) = Nodes(f, h, n)
  <2>1. (n - 1) + 1 = n
    BY <1>2
  <2> QED BY <1>7, <2>1 DEF Chain
<1>9. ASSUME NEW d \in O
      PROVE  /\ IsChain(f, p, d, LinksIn(f, p, d))
             /\ Chain(f, p, d) = Chain(f, m, d)
             /\ Chain(f, m, d) \cap Nodes(f, h, c) = {}
  <2>1. IsChain(f, m, d, LinksIn(f, m, d)) /\ Chain(f, m, d) \cap Nodes(f, h, c) = {}
        /\ d \in Descs
    BY <1>1 DEF Partition
  <2>2. Chain(f, m, d) \subseteq Descs
    BY <1>1, <2>1, ChainInDescs
  <2>3. ASSUME NEW x \in Chain(f, m, d)
        PROVE  p[x] = m[x]
    <3>1. x \in Descs /\ x \notin Nodes(f, h, n)
      BY <2>1, <2>2, <1>4
    <3> QED BY <3>1
  <2> QED BY <1>1, <2>1, <2>3, ChainSame
<1>10. Walk(f, h, n) \in Descs
  BY <1>1, <1>2, WalkFacts
<1>11. \A d \in O \cup {h} : IsChain(f, p, d, LinksIn(f, p, d))
  BY <1>6, <1>7, <1>9
<1>12. \A d \in O \cup {h} :
         Chain(f, p, d) \cap Nodes(f, Walk(f, h, n), c - n) = {}
  BY <1>3, <1>4, <1>8, <1>9
<1>13. ASSUME NEW d \in O \cup {h}, NEW e \in O \cup {h}, d # e
       PROVE  Chain(f, p, d) \cap Chain(f, p, e) = {}
  <2>1. CASE d \in O /\ e \in O
    BY <1>13, <2>1, <1>9 DEF Partition
  <2>2. CASE d = h \/ e = h
    BY <1>13, <2>2, <1>4, <1>8, <1>9
  <2> QED BY <2>1, <2>2
<1>14. \A x \in Descs : x \in Nodes(f, Walk(f, h, n), c - n)
                        \/ \E d \in O \cup {h} : x \in Chain(f, p, d)
  BY <1>4, <1>8, <1>9 DEF Partition
<1>15. O \cup {h} \subseteq Descs
  BY <1>1
<1> QED BY <1>1, <1>2, <1>3, <1>10, <1>11, <1>12, <1>13, <1>14, <1>15 DEF Partition

\* add_writable_buffers: every free descriptor becomes a chain of its own.
LEMMA TakeAll ==
  ASSUME NEW f, NEW m, NEW h, NEW c, NEW O, Partition(f, m, h, c, O),
         NEW p \in [Descs -> BOOLEAN],
         \A d \in Descs :
           p[d] = (m[d] /\ \A i \in 0 .. c - 1 : Walk(f, h, i) # d)
  PROVE  Partition(f, p, Walk(f, h, c), 0, O \cup Nodes(f, h, c))
<1>1. /\ f \in [Descs -> Descs] /\ m \in [Descs -> BOOLEAN] /\ h \in Descs
      /\ c \in Nat /\ O \subseteq Descs /\ Injective(f, h, c)
  BY DEF Partition
<1> DEFINE N == Nodes(f, h, c)
<1>2. N \subseteq Descs
  BY <1>1, NodesInDescs
<1>3. ASSUME NEW d \in N
      PROVE  IsChain(f, p, d, LinksIn(f, p, d)) /\ Chain(f, p, d) = {d}
  <2>1. d \in Descs /\ ~ p[d]
    BY <1>2 DEF Nodes
  <2> QED BY <1>1, <2>1, ChainOfOne
<1>4. ASSUME NEW d \in O
      PROVE  /\ IsChain(f, p, d, LinksIn(f, p, d))
             /\ Chain(f, p, d) = Chain(f, m, d)
             /\ Chain(f, m, d) \cap N = {}
             /\ d \in Chain(f, m, d)
  <2>1. IsChain(f, m, d, LinksIn(f, m, d)) /\ Chain(f, m, d) \cap N = {}
        /\ d \in Descs
    BY <1>1 DEF Partition
  <2>2. Chain(f, m, d) \subseteq Descs
    BY <1>1, <2>1, ChainInDescs
  <2>3. ASSUME NEW x \in Chain(f, m, d)
        PROVE  p[x] = m[x]
    <3>1. x \in Descs /\ x \notin N
      BY <2>1, <2>2
    <3>3. \A i \in 0 .. c - 1 : Walk(f, h, i) # x
      BY <3>1, InNodes
    <3> QED BY <3>1, <3>3, <1>1
  <2>4. d \in Chain(f, m, d)
    BY <1>1, <2>1, HeadInChain
  <2> HIDE DEF N
  <2> QED BY <1>1, <2>1, <2>3, <2>4, ChainSame
<1>5. Nodes(f, Walk(f, h, c), 0) = {} /\ Injective(f, Walk(f, h, c), 0)
  BY DEF Nodes, Injective
<1>6. Walk(f, h, c) \in Descs
  BY <1>1, WalkFacts
<1> HIDE DEF N
<1>7. \A d \in O \cup N : IsChain(f, p, d, LinksIn(f, p, d))
  BY <1>3, <1>4
<1>8. ASSUME NEW d \in O \cup N, NEW e \in O \cup N, d # e
      PROVE  Chain(f, p, d) \cap Chain(f, p, e) = {}
  <2>1. CASE d \in O /\ e \in O
    BY <1>8, <2>1, <1>4 DEF Partition
  <2>2. CASE d \in O /\ e \in N
    BY <2>2, <1>3, <1>4
  <2>3. CASE d \in N /\ e \in O
    BY <2>3, <1>3, <1>4
  <2>4. CASE d \in N /\ e \in N
    BY <1>8, <2>4, <1>3
  <2> QED BY <2>1, <2>2, <2>3, <2>4
<1>9. \A x \in Descs : x \in Nodes(f, Walk(f, h, c), 0)
                        \/ \E d \in O \cup N : x \in Chain(f, p, d)
  <2>1. \A x \in Descs : x \in N \/ \E d \in O : x \in Chain(f, m, d)
    BY DEF Partition, N
  <2> QED BY <2>1, <1>3, <1>4
<1>10. O \cup N \subseteq Descs /\ 0 \in Nat
  BY <1>1, <1>2
<1>11. Partition(f, p, Walk(f, h, c), 0, O \cup N)
  BY <1>1, <1>5, <1>6, <1>7, <1>8, <1>9, <1>10 DEF Partition
<1> QED BY <1>11 DEF N

\* process_used_buffers: the chain at id goes back in front of the free list.
LEMMA PutBack ==
  ASSUME NEW f, NEW m, NEW h, NEW c, NEW O, Partition(f, m, h, c, O),
         NEW id \in O
  PROVE  Partition([f EXCEPT ![Walk(f, id, LinksIn(f, m, id))] = h], m, id,
                   c + LinksIn(f, m, id) + 1, O \ {id})
<1> DEFINE L == LinksIn(f, m, id)
           last == Walk(f, id, L)
           g == [f EXCEPT ![last] = h]
           a == c + L + 1
<1>1. /\ f \in [Descs -> Descs] /\ m \in [Descs -> BOOLEAN] /\ h \in Descs
      /\ c \in Nat /\ O \subseteq Descs /\ Injective(f, h, c) /\ id \in Descs
  BY DEF Partition
<1>2. IsChain(f, m, id, L) /\ Chain(f, m, id) \cap Nodes(f, h, c) = {}
  BY DEF Partition
<1>3. L \in Nat /\ L \in 0 .. (L + 1) - 1 /\ a \in Nat /\ Injective(f, id, L + 1)
  BY <1>1, <1>2, VringAssumption DEF IsChain
<1>4. last \in Descs /\ g \in [Descs -> Descs] /\ g[last] = h
      /\ \A x \in Descs : x # last => g[x] = f[x]
  BY <1>1, <1>3, WalkFacts
<1>5. last \in Chain(f, m, id)
  BY <1>3, InNodes DEF Chain
<1>0. last = Walk(f, id, L) /\ a = c + L + 1
  OBVIOUS
<1> HIDE DEF g, a, last, L
<1>6. ASSUME NEW i \in 0 .. L
      PROVE  Walk(g, id, i) = Walk(f, id, i)
  <2>1. ASSUME NEW j \in 0 .. L - 1
        PROVE  g[Walk(f, id, j)] = f[Walk(f, id, j)]
    <3>1. j \in Nat /\ j \in 0 .. (L + 1) - 1 /\ j # L
      BY <1>3
    <3>2. Walk(f, id, j) # last
      BY <3>1, <1>3, <1>0 DEF Injective
    <3>3. Walk(f, id, j) \in Descs
      BY <3>1, <1>1, WalkFacts
    <3> QED BY <3>2, <3>3, <1>4
  <2> QED BY <2>1, <1>1, <1>3, <1>4, WalkSame
<1>7. Walk(g, id, L + 1) = h
  <2>1. Walk(g, id, L + 1) = g[Walk(g, id, L)]
    BY <1>1, <1>3, <1>4, WalkFacts
  <2> QED BY <2>1, <1>0, <1>3, <1>4, <1>6
<1>8. ASSUME NEW i \in 0 .. c
      PROVE  Walk(g, h, i) = Walk(f, h, i)
  <2>1. ASSUME NEW j \in 0 .. c - 1
        PROVE  g[Walk(f, h, j)] = f[Walk(f, h, j)]
    <3>1. Walk(f, h, j) # last
      BY <1>2, <1>5, InNodes
    <3>2. j \in Nat
      BY <1>1
    <3>3. Walk(f, h, j) \in Descs
      BY <3>2, <1>1, WalkFacts
    <3> QED BY <3>1, <3>3, <1>4
  <2> QED BY <2>1, <1>1, <1>4, WalkSame
<1>9. ASSUME NEW j \in 0 .. c - 1
      PROVE  Walk(g, id, (L + 1) + j) = Walk(f, h, j)
  <2>1. j \in Nat /\ L + 1 \in Nat /\ j \in 0 .. c
    BY <1>1, <1>3
  <2>2. Walk(g, Walk(g, id, L + 1), j) = Walk(g, id, (L + 1) + j)
    BY <2>1, <1>1, <1>4, WalkOn
  <2> QED BY <2>1, <2>2, <1>7, <1>8
<1>10. Nodes(f, id, L + 1) = Chain(f, m, id)
  BY DEF Chain, L
<1>11. Nodes(g, id, a) = Chain(f, m, id) \cup Nodes(f, h, c)
  <2>1. L + 1 \in 0 .. a /\ a - (L + 1) = c
    BY <1>0, <1>1, <1>3
  <2>2. Nodes(g, id, a) = Nodes(g, id, L + 1) \cup Nodes(g, h, c)
    BY <2>1, <1>1, <1>3, <1>4, <1>7, NodesSplit
  <2>3. \A i \in 0 .. (L + 1) - 1 : Walk(g, id, i) = Walk(f, id, i)
    BY <1>3, <1>6
  <2>4. \A i \in 0 .. c - 1 : Walk(g, h, i) = Walk(f, h, i)
    BY <1>1, <1>8
  <2>5. Nodes(g, id, L + 1) = Nodes(f, id, L + 1)
    BY <2>3 DEF Nodes
  <2>6. Nodes(g, h, c) = Nodes(f, h, c)
    BY <2>4 DEF Nodes
  <2> QED BY <2>2, <2>5, <2>6, <1>10
<1>12. Injective(g, id, a)
  <2> SUFFICES ASSUME NEW i \in 0 .. a - 1, NEW j \in 0 .. a - 1,
                      Walk(g, id, i) = Walk(g, id, j)
               PROVE  i = j
    BY DEF Injective
  <2>1. ASSUME NEW k \in 0 .. a - 1, k <= L
        PROVE  /\ Walk(g, id, k) = Walk(f, id, k) /\ k \in 0 .. (L + 1) - 1
               /\ Walk(g, id, k) \in Chain(f, m, id)
    <3>1. k \in 0 .. L /\ k \in 0 .. (L + 1) - 1
      BY <2>1, <1>3
    <3> QED BY <3>1, <1>6, <1>10, InNodes
  <2>2. ASSUME NEW k \in 0 .. a - 1, ~ (k <= L)
        PROVE  /\ Walk(g, id, k) = Walk(f, h, k - (L + 1))
               /\ k - (L + 1) \in 0 .. c - 1
               /\ Walk(g, id, k) \in Nodes(f, h, c)
    <3>1. k - (L + 1) \in 0 .. c - 1 /\ (L + 1) + (k - (L + 1)) = k
      BY <2>2, <1>0, <1>1, <1>3
    <3>2. Walk(g, id, (L + 1) + (k - (L + 1))) = Walk(f, h, k - (L + 1))
      BY <3>1, <1>9
    <3> QED BY <3>1, <3>2, InNodes
  <2>3. CASE i <= L /\ j <= L
    BY <2>1, <2>3, <1>3 DEF Injective
  <2>4. CASE ~ (i <= L) /\ ~ (j <= L)
    <3>1. i - (L + 1) = j - (L + 1)
      BY <2>2, <2>4, <1>1 DEF Injective
    <3> QED BY <3>1, <1>3
  <2>5. CASE ~ (i <= L <=> j <= L)
    BY <2>1, <2>2, <2>5, <1>2
  <2> QED BY <2>3, <2>4, <2>5
<1>13. ASSUME NEW d \in O \ {id}
       PROVE  /\ IsChain(g, m, d, LinksIn(g, m, d))
              /\ Chain(g, m, d) = Chain(f, m, d)
  <2>1. IsChain(f, m, d, LinksIn(f, m, d)) /\ d \in Descs
        /\ Chain(f, m, d) \cap Chain(f, m, id) = {}
    BY <1>1 DEF Partition
  <2>2. \A x \in Chain(f, m, d) : g[x] = f[x]
    <3>1. Chain(f, m, d) \subseteq Descs
      BY <2>1, <1>1, ChainInDescs
    <3> QED BY <3>1, <2>1, <1>4, <1>5
  <2> QED BY <2>1, <2>2, <1>1, <1>4, ChainSame
<1>14. \A d \in O \ {id} : Chain(g, m, d) \cap Nodes(g, id, a) = {}
  BY <1>11, <1>13 DEF Partition
<1>15. \A d, e \in O \ {id} : d # e => Chain(g, m, d) \cap Chain(g, m, e) = {}
  BY <1>13 DEF Partition
<1>16. \A x \in Descs : x \in Nodes(g, id, a)
                        \/ \E d \in O \ {id} : x \in Chain(g, m, d)
  BY <1>11, <1>13 DEF Partition
<1>17. O \ {id} \subseteq Descs
  BY <1>1
<1>18. Partition(g, m, id, a, O \ {id})
  BY <1>1, <1>3, <1>4, <1>12, <1>13, <1>14, <1>15, <1>16, <1>17 DEF Partition
<1> QED BY <1>18 DEF g, a, last, L

-----------------------------------------------------------------------------
(* Counting descriptors *)

\* A list of c different descriptors has c.
LEMMA CountNodes ==
  ASSUME NEW f, NEW h, NEW c \in Nat, Injective(f, h, c)
  PROVE  IsFiniteSet(Nodes(f, h, c)) /\ Cardinality(Nodes(f, h, c)) = c
<1> DEFINE b == [i \in 0 .. c - 1 |-> Walk(f, h, i)]
<1>1. b \in Bijection(0 .. c - 1, Nodes(f, h, c))
  BY DEF Bijection, Surjection, Injection, Nodes, Injective, IsInjective
<1>2. IsFiniteSet(0 .. c - 1) /\ Cardinality(0 .. c - 1) = c
  BY FS_Interval
<1> QED BY <1>1, <1>2, FS_Bijection DEF ExistsBijection

LEMMA CountDescs == IsFiniteSet(Descs) /\ Cardinality(Descs) = qsize
BY FS_Interval, VringAssumption DEF Descs

\* The free descriptors and the heads of chains are not more than there are
\* descriptors.
LEMMA Room ==
  ASSUME NEW f, NEW m, NEW h, NEW c, NEW O, Partition(f, m, h, c, O),
         NEW S, S \subseteq O
  PROVE  IsFiniteSet(S) /\ Cardinality(S) + c <= qsize
<1>1. /\ f \in [Descs -> Descs] /\ h \in Descs
      /\ c \in Nat /\ O \subseteq Descs /\ Injective(f, h, c)
  BY DEF Partition
<1> DEFINE N == Nodes(f, h, c)
<1>2. N \subseteq Descs /\ IsFiniteSet(N) /\ Cardinality(N) = c
  BY <1>1, NodesInDescs, CountNodes
<1>3. S \subseteq Descs /\ IsFiniteSet(S) /\ Cardinality(S) \in Nat
  BY <1>1, CountDescs, FS_Subset, FS_CardinalityType
<1>4. S \cap N = {}
  <2> SUFFICES ASSUME NEW x \in S, x \in N PROVE FALSE
    OBVIOUS
  <2>1. x \in O /\ x \in Descs /\ IsChain(f, m, x, LinksIn(f, m, x))
        /\ Chain(f, m, x) \cap N = {}
    BY <1>1 DEF Partition
  <2>2. x \in Chain(f, m, x)
    BY <1>1, <2>1, HeadInChain
  <2> QED BY <2>1, <2>2
<1>5. Cardinality(S \cup N) = Cardinality(S) + Cardinality(N) - Cardinality(S \cap N)
      /\ IsFiniteSet(S \cup N)
  BY <1>2, <1>3, FS_Union
<1>6. Cardinality(S \cap N) = 0
  BY <1>4, FS_EmptySet
<1>7. Cardinality(S \cup N) <= Cardinality(Descs)
  BY <1>2, <1>3, CountDescs, FS_Subset
<1> HIDE DEF N
<1> QED BY <1>1, <1>2, <1>3, <1>5, <1>6, <1>7, CountDescs

-----------------------------------------------------------------------------
(* Indices and the entries of the rings *)

LEMMA Division ==
  ASSUME NEW a \in Nat, NEW q \in Nat \ {0}
  PROVE  /\ a \div q \in Nat /\ a % q \in 0 .. q - 1
         /\ a = q * (a \div q) + (a % q)
OBVIOUS

LEMMA DivisionIsUnique ==
  ASSUME NEW q \in Nat \ {0}, NEW j \in Int, NEW k \in Int,
         NEW r \in 0 .. q - 1, NEW s \in 0 .. q - 1, q * j + r = q * k + s
  PROVE  j = k /\ r = s
<1>1. ASSUME NEW x \in Int, NEW y \in Int, x < y
      PROVE  q * x + q <= q * y
  <2>1. y - (x + 1) \in Nat
    BY <1>1
  <2>2. q * (y - (x + 1)) >= 0
    BY <2>1
  <2>3. q * (y - (x + 1)) = q * y - q * x - q
    OBVIOUS
  <2> QED BY <2>2, <2>3
<1>2. ~ (j < k)
  <2> SUFFICES ASSUME j < k PROVE FALSE
    OBVIOUS
  <2>1. q * j + q <= q * k
    BY <1>1
  <2>2. q * j \in Int /\ q * k \in Int
    OBVIOUS
  <2> QED BY <2>1, <2>2
<1>3. ~ (k < j)
  <2> SUFFICES ASSUME k < j PROVE FALSE
    OBVIOUS
  <2>1. q * k + q <= q * j
    BY <1>1
  <2>2. q * j \in Int /\ q * k \in Int
    OBVIOUS
  <2> QED BY <2>1, <2>2
<1>4. j = k
  BY <1>2, <1>3
<1> QED BY <1>4

LEMMA RemainderIs ==
  ASSUME NEW a \in Nat, NEW q \in Nat \ {0}, NEW k \in Int, NEW r \in 0 .. q - 1,
         a = q * k + r
  PROVE  a % q = r
<1>1. PICK j \in Int : j = a \div q
  BY Division
<1>2. PICK s \in 0 .. q - 1 : s = a % q
  BY Division
<1>3. a = q * j + s
  BY <1>1, <1>2, Division
<1>4. q * j + s = q * k + r
  BY <1>3, Zenon
<1>5. j = k /\ s = r
  BY <1>4, DivisionIsUnique
<1> QED BY <1>2, <1>5

LEMMA Bounds ==
  /\ qsize \in Nat \ {0} /\ IndexRange \in Nat \ {0} /\ qsize < IndexRange
  /\ 2 * qsize <= IndexRange
BY VringAssumption

\* Indices go round once.
LEMMA PlusIs ==
  ASSUME NEW i \in Indices, NEW n \in 0 .. IndexRange - 1
  PROVE  /\ Plus(i, n) = IF i + n < IndexRange THEN i + n ELSE i + n - IndexRange
         /\ Plus(i, n) \in Indices
<1>1. i + n \in Nat /\ i \in Nat /\ n \in Nat /\ i < IndexRange /\ n < IndexRange
  BY Bounds DEF Indices
<1>2. CASE i + n < IndexRange
  <2>1. i + n = IndexRange * 0 + (i + n) /\ i + n \in 0 .. IndexRange - 1
    BY <1>1, <1>2, Bounds
  <2>2. (i + n) % IndexRange = i + n
    BY <1>1, <2>1, Bounds, RemainderIs
  <2> QED BY <1>1, <1>2, <2>1, <2>2 DEF Plus, Indices
<1>3. CASE ~ (i + n < IndexRange)
  <2>1. i + n = IndexRange * 1 + (i + n - IndexRange)
        /\ i + n - IndexRange \in 0 .. IndexRange - 1
    BY <1>1, <1>3, Bounds
  <2>2. (i + n) % IndexRange = i + n - IndexRange
    BY <1>1, <2>1, Bounds, RemainderIs
  <2> QED BY <1>1, <1>3, <2>1, <2>2 DEF Plus, Indices
<1> QED BY <1>2, <1>3

LEMMA MinusIs ==
  ASSUME NEW i \in Indices, NEW j \in Indices
  PROVE  /\ Minus(i, j) = IF j <= i THEN i - j ELSE i + IndexRange - j
         /\ Minus(i, j) \in 0 .. IndexRange - 1
<1>1. i \in Nat /\ j \in Nat /\ i < IndexRange /\ j < IndexRange
      /\ i + IndexRange - j \in Nat
  BY Bounds DEF Indices
<1>2. CASE j <= i
  <2>1. i + IndexRange - j = IndexRange * 1 + (i - j) /\ i - j \in 0 .. IndexRange - 1
    BY <1>1, <1>2, Bounds
  <2>2. (i + IndexRange - j) % IndexRange = i - j
    BY <1>1, <2>1, Bounds, RemainderIs
  <2> QED BY <1>1, <1>2, <2>1, <2>2 DEF Minus
<1>3. CASE ~ (j <= i)
  <2>1. i + IndexRange - j = IndexRange * 0 + (i + IndexRange - j)
        /\ i + IndexRange - j \in 0 .. IndexRange - 1
    BY <1>1, <1>3, Bounds
  <2>2. (i + IndexRange - j) % IndexRange = i + IndexRange - j
    BY <1>1, <2>1, Bounds, RemainderIs
  <2> QED BY <1>1, <1>3, <2>1, <2>2 DEF Minus
<1> QED BY <1>2, <1>3

\* An index is as far from another as it is.
LEMMA PlusMinus ==
  ASSUME NEW i \in Indices, NEW j \in Indices
  PROVE  Plus(j, Minus(i, j)) = i
<1>1. Minus(i, j) \in 0 .. IndexRange - 1
      /\ Minus(i, j) = IF j <= i THEN i - j ELSE i + IndexRange - j
  BY MinusIs
<1>2. Plus(j, Minus(i, j)) = IF j + Minus(i, j) < IndexRange THEN j + Minus(i, j)
                             ELSE j + Minus(i, j) - IndexRange
  BY <1>1, PlusIs
<1> QED BY <1>1, <1>2, Bounds DEF Indices

LEMMA PlusPlus ==
  ASSUME NEW i \in Indices, NEW k \in Nat, NEW n \in Nat, k + n < IndexRange
  PROVE  Plus(Plus(i, k), n) = Plus(i, k + n)
<1>1. k \in 0 .. IndexRange - 1 /\ n \in 0 .. IndexRange - 1
      /\ k + n \in 0 .. IndexRange - 1
  BY Bounds
<1>2. /\ Plus(i, k) = IF i + k < IndexRange THEN i + k ELSE i + k - IndexRange
      /\ Plus(i, k) \in Indices
  BY <1>1, PlusIs
<1>3. Plus(i, k + n) = IF i + (k + n) < IndexRange THEN i + (k + n)
                       ELSE i + (k + n) - IndexRange
  BY <1>1, PlusIs
<1>4. Plus(Plus(i, k), n) = IF Plus(i, k) + n < IndexRange THEN Plus(i, k) + n
                            ELSE Plus(i, k) + n - IndexRange
  BY <1>1, <1>2, PlusIs
<1> QED BY <1>2, <1>3, <1>4, Bounds DEF Indices

\* Moving the front index on by n moves it away from the other by n.
LEMMA MinusPlus ==
  ASSUME NEW i \in Indices, NEW j \in Indices, NEW n \in Nat,
         Minus(i, j) + n < IndexRange
  PROVE  Minus(Plus(i, n), j) = Minus(i, j) + n
<1>1. Minus(i, j) \in 0 .. IndexRange - 1
      /\ Minus(i, j) = IF j <= i THEN i - j ELSE i + IndexRange - j
  BY MinusIs
<1>2. n \in 0 .. IndexRange - 1
  BY <1>1, Bounds
<1>3. /\ Plus(i, n) = IF i + n < IndexRange THEN i + n ELSE i + n - IndexRange
      /\ Plus(i, n) \in Indices
  BY <1>2, PlusIs
<1>4. Minus(Plus(i, n), j) = IF j <= Plus(i, n) THEN Plus(i, n) - j
                             ELSE Plus(i, n) + IndexRange - j
  BY <1>3, MinusIs
<1> QED BY <1>1, <1>3, <1>4, Bounds DEF Indices

\* Moving the back index on by one moves it nearer by one.
LEMMA MinusNext ==
  ASSUME NEW i \in Indices, NEW j \in Indices
  PROVE  /\ Plus(j, 1) \in Indices
         /\ i # j => Minus(i, Plus(j, 1)) = Minus(i, j) - 1 /\ Minus(i, j) # 0
         /\ i = j => Minus(i, Plus(j, 1)) = IndexRange - 1 /\ Minus(i, j) = 0
<1>1. Minus(i, j) \in 0 .. IndexRange - 1
      /\ Minus(i, j) = IF j <= i THEN i - j ELSE i + IndexRange - j
  BY MinusIs
<1>2. 1 \in 0 .. IndexRange - 1
  BY Bounds
<1>3. /\ Plus(j, 1) = IF j + 1 < IndexRange THEN j + 1 ELSE j + 1 - IndexRange
      /\ Plus(j, 1) \in Indices
  BY <1>2, PlusIs
<1>4. Minus(i, Plus(j, 1)) = IF Plus(j, 1) <= i THEN i - Plus(j, 1)
                             ELSE i + IndexRange - Plus(j, 1)
  BY <1>3, MinusIs
<1> QED BY <1>1, <1>3, <1>4, Bounds DEF Indices

\* The range of the indices is a whole number of rings: an entry is the same
\* whether the index has wrapped or not.
LEMMA EntryIs ==
  ASSUME NEW i \in Indices, NEW n \in 0 .. IndexRange - 1
  PROVE  /\ Plus(i, n) % qsize = (i + n) % qsize
         /\ Plus(i, n) % qsize \in Descs
<1>1. i \in Nat /\ n \in Nat /\ i + n \in Nat
  BY Bounds DEF Indices
<1>2. Plus(i, n) = (IF i + n < IndexRange THEN i + n ELSE i + n - IndexRange)
      /\ Plus(i, n) \in Nat
  BY PlusIs, Bounds DEF Indices
<1>3. Plus(i, n) % qsize \in Descs
  BY <1>2, Bounds, Division DEF Descs
<1>4. CASE Plus(i, n) = i + n - IndexRange
  <2> DEFINE a == Plus(i, n)
             K == IndexRange \div qsize
             k == a \div qsize
             r == a % qsize
  <2>1. K \in Nat /\ IndexRange = qsize * K + (IndexRange % qsize)
    BY Bounds, Division
  <2>2. IndexRange % qsize = 0
    BY VringAssumption
  <2>3. k \in Nat /\ r \in 0 .. qsize - 1 /\ a = qsize * k + r /\ a \in Nat
    BY <1>2, Bounds, Division
  <2>4. i + n = a + IndexRange
    BY <1>1, <1>4, Bounds
  <2> HIDE DEF a, K, k, r
  <2>5. i + n = qsize * (k + K) + r
    <3>1. qsize * (k + K) = qsize * k + qsize * K
      BY <2>1, <2>3, Bounds
    <3>2. qsize * k \in Nat /\ qsize * K \in Nat
      BY <2>1, <2>3, Bounds
    <3> QED BY <2>1, <2>2, <2>3, <2>4, <3>1, <3>2, Bounds
  <2>6. k + K \in Int
    BY <2>1, <2>3
  <2>7. (i + n) % qsize = r
    BY <1>1, <2>3, <2>5, <2>6, Bounds, RemainderIs
  <2> QED BY <2>7, <1>3 DEF a, r
<1> QED BY <1>2, <1>3, <1>4

\* qsize indices in a row are for different entries.
LEMMA EntriesDiffer ==
  ASSUME NEW i \in Indices, NEW m \in 0 .. qsize - 1, NEW n \in 0 .. qsize - 1,
         Plus(i, m) % qsize = Plus(i, n) % qsize
  PROVE  m = n
<1>1. i \in Nat /\ m \in 0 .. IndexRange - 1 /\ n \in 0 .. IndexRange - 1
  BY Bounds DEF Indices
<1>2. (i + m) % qsize = (i + n) % qsize
  BY <1>1, EntryIs
<1> DEFINE a == i + m
           b == i + n
           j == a \div qsize
           k == b \div qsize
           r == a % qsize
<1>3. j \in Nat /\ r \in 0 .. qsize - 1 /\ a = qsize * j + r /\ a \in Nat
  <2>1. a \in Nat
    BY <1>1
  <2> QED BY <2>1, Bounds, Division
<1>4. k \in Nat /\ b % qsize = r /\ b = qsize * k + r /\ b \in Nat
  <2>1. b \in Nat
    BY <1>1
  <2> QED BY <1>2, <2>1, Bounds, Division
<1> SUFFICES ASSUME m # n PROVE FALSE
  OBVIOUS
<1>5. a - b = m - n
  BY <1>1
<1>6. m - n < qsize /\ n - m < qsize /\ m - n # 0 /\ m - n \in Int
  BY <1>1, Bounds
<1> HIDE DEF a, b, j, k, r
<1>7. CASE n < m
  <2>1. m - n \in 0 .. qsize - 1
    BY <1>6, <1>7, <1>1, Bounds
  <2>2. qsize * j + 0 = qsize * k + (m - n)
    <3>1. qsize * j \in Nat /\ qsize * k \in Nat
      BY <1>3, <1>4, Bounds
    <3> QED BY <3>1, <1>3, <1>4, <1>5, <1>6, Bounds
  <2>3. 0 \in 0 .. qsize - 1 /\ j \in Int /\ k \in Int
    BY <1>3, <1>4, Bounds
  <2>4. 0 = m - n
    BY <2>1, <2>2, <2>3, Bounds, DivisionIsUnique
  <2> QED BY <2>4, <1>6
<1>8. CASE m < n
  <2>1. n - m \in 0 .. qsize - 1 /\ n - m # 0
    BY <1>6, <1>8, <1>1, Bounds
  <2>2. qsize * k + 0 = qsize * j + (n - m)
    <3>1. qsize * j \in Nat /\ qsize * k \in Nat
      BY <1>3, <1>4, Bounds
    <3> QED BY <3>1, <1>1, <1>3, <1>4, <1>5, <1>6, Bounds
  <2>3. 0 \in 0 .. qsize - 1 /\ j \in Int /\ k \in Int
    BY <1>3, <1>4, Bounds
  <2>4. 0 = n - m
    BY <2>1, <2>2, <2>3, Bounds, DivisionIsUnique
  <2> QED BY <2>4, <2>1
<1> QED BY <1>6, <1>7, <1>8, <1>1

-----------------------------------------------------------------------------
(* The inductive invariant *)

\* The entries of the available ring the device has not taken, in order.
Pending == Minus(avail_idx, last_avail)
Ahead(i) == avail_ring[Plus(last_avail, i) % qsize]

\* The heads of the chains that are given away: in the available ring, with
\* the device, in the used ring.
Out == {Ahead(i) : i \in 0 .. Pending - 1} \cup inflight
         \cup {used_ring[k] : k \in Processed .. used_idx - 1}

PartitionInv == Partition(next, more, free_head_, free_count_, Out)

\* A head is in one place only.
HeadsInv ==
  /\ Pending <= qsize
  /\ \A i, j \in 0 .. Pending - 1 : Ahead(i) = Ahead(j) => i = j
  /\ \A k, l \in Processed .. used_idx - 1 : used_ring[k] = used_ring[l] => k = l
  /\ \A i \in 0 .. Pending - 1 : Ahead(i) \notin inflight
  /\ \A k \in Processed .. used_idx - 1 : used_ring[k] \notin inflight
  /\ \A i \in 0 .. Pending - 1, k \in Processed .. used_idx - 1 :
       Ahead(i) # used_ring[k]

\* The indices of the used ring have not wrapped.
RingInv ==
  /\ used_idx = gave /\ used_idx <= qsize
  /\ used_event <= used_index /\ used_index <= used_idx
  /\ signalled <= used_idx
  /\ pc = "consume" => used_index < used_idx
  /\ pc = "recheck" => used_event = used_index

\* Between the store of avail_idx and the load of avail_event the device can
\* be asleep only at the entry the driver wrote first, or past the last.
NotifyInv ==
  /\ device \in {"arming", "asleep"} => avail_event = last_avail
  /\ pc = "notify" => orig_idx # avail_idx
  /\ device = "asleep" /\ ~kick /\ pc = "notify" =>
       last_avail \in {orig_idx, avail_idx}
  /\ device = "asleep" /\ ~kick /\ pc # "notify" => last_avail = avail_idx

\* Out of the handler, what is signalled without an interrupt is processed.
WakeInv == ~irq /\ pc \in {"idle", "refill", "notify"} => signalled <= used_event

\* The message being sent is kept last.
Sent == avail_ring[orig_idx % qsize]

BuffersInv ==
  ~receive =>
    /\ pc # "refill"
    /\ pc = "notify" => Sent \in Out /\ buf_references_ = Out \ {Sent}
    /\ pc # "notify" => buf_references_ = Out

VringInv == TypeOK /\ PartitionInv /\ HeadsInv /\ RingInv /\ NotifyInv
              /\ WakeInv /\ BuffersInv

\* The module's walks, chains and heads are these ones.
LEMMA SameWalks ==
  /\ \A d, n : Along(d, n) = Walk(next, d, n)
  /\ \A d : Links(d) = LinksIn(next, more, d)
  /\ FreeDescs = Nodes(next, free_head_, free_count_)
<1>1. \A d, n : Along(d, n) = Walk(next, d, n)
  BY DEF Along, Walk
<1>2. \A d : Links(d) = LinksIn(next, more, d)
  BY <1>1 DEF Links, LinksIn
<1>3. FreeDescs = Nodes(next, free_head_, free_count_)
  BY <1>1 DEF FreeDescs, Nodes
<1> QED BY <1>1, <1>2, <1>3

LEMMA SameChains ==
  ASSUME NEW d, IsChain(next, more, d, LinksIn(next, more, d))
  PROVE  ChainOf(d) = Chain(next, more, d)
<1> DEFINE n == LinksIn(next, more, d)
<1>1. n \in Nat
  BY VringAssumption DEF IsChain
<1> HIDE DEF n
<1>2. (n + 1) - 1 = n
  BY <1>1
<1>3. Chain(next, more, d) = {Walk(next, d, i) : i \in 0 .. n}
  BY <1>2 DEF Chain, Nodes, n
<1>4. ChainOf(d) = {Along(d, i) : i \in 0 .. n}
  BY SameWalks DEF ChainOf, n
<1> QED BY <1>3, <1>4, SameWalks

\* The indices of the used ring are the entries.
LEMMA UsedEntry ==
  ASSUME TypeOK, RingInv, NEW k \in 0 .. used_idx - 1
  PROVE  k % qsize = k /\ k \in Descs
<1>1. used_idx \in Nat /\ used_idx <= qsize
  BY Bounds DEF TypeOK, RingInv, Indices
<1>2. k \in Nat /\ k \in 0 .. qsize - 1 /\ k = qsize * 0 + k /\ 0 \in Int
  BY <1>1, Bounds
<1> QED BY <1>2, Bounds, RemainderIs DEF Descs

LEMMA OutIsOutstanding ==
  ASSUME TypeOK, RingInv
  PROVE  Out = Outstanding
<1>1. used_idx \in Indices /\ Processed \in Indices /\ Processed \in Nat
      /\ used_idx \in Nat /\ Processed <= used_idx /\ used_idx <= qsize
  BY Bounds DEF TypeOK, RingInv, Processed, Indices
<1>2. Minus(used_idx, Processed) = used_idx - Processed
  BY <1>1, MinusIs
<1>3. ASSUME NEW n \in 0 .. (used_idx - Processed) - 1
      PROVE  /\ Plus(Processed, n) % qsize = Processed + n
             /\ Processed + n \in Processed .. used_idx - 1
  <2>1. n \in 0 .. IndexRange - 1 /\ Processed + n < IndexRange
    BY <1>1, Bounds
  <2>2. Plus(Processed, n) = Processed + n
    BY <1>1, <2>1, PlusIs
  <2>3. Processed + n \in 0 .. used_idx - 1
    BY <1>1
  <2>4. (Processed + n) % qsize = Processed + n
    BY <2>3, UsedEntry
  <2> QED BY <1>1, <2>2, <2>4
<1>4. Span(Processed, used_idx)
        = {Plus(Processed, n) % qsize : n \in 0 .. (used_idx - Processed) - 1}
  BY <1>2 DEF Span
<1>5. Span(Processed, used_idx) = Processed .. used_idx - 1
  <2>1. ASSUME NEW k \in Processed .. used_idx - 1
        PROVE  k \in Span(Processed, used_idx)
    <3>1. k - Processed \in 0 .. (used_idx - Processed) - 1
          /\ Processed + (k - Processed) = k
      BY <1>1
    <3>2. Plus(Processed, k - Processed) % qsize = k
      BY <1>3, <3>1
    <3> QED BY <1>4, <3>1, <3>2
  <2>2. ASSUME NEW k \in Span(Processed, used_idx)
        PROVE  k \in Processed .. used_idx - 1
    BY <1>3, <1>4, <2>2
  <2> QED BY <2>1, <2>2
<1>6. {avail_ring[e] : e \in Span(last_avail, avail_idx)}
        = {Ahead(i) : i \in 0 .. Pending - 1}
  BY DEF Span, Ahead, Pending
<1> QED BY <1>5, <1>6 DEF Out, Outstanding

\* What the inductive invariant says is what the properties say.
LEMMA InvImpliesPartitioned == VringInv => DescriptorsPartitioned
<1> SUFFICES ASSUME VringInv PROVE DescriptorsPartitioned
  OBVIOUS
<1>1. TypeOK /\ RingInv /\ PartitionInv /\ BuffersInv
  BY DEF VringInv
<1>2. Out = Outstanding
  BY <1>1, OutIsOutstanding
<1>3. FreeDescs = Nodes(next, free_head_, free_count_)
  BY SameWalks
<1>4. ASSUME NEW d \in Outstanding
      PROVE  ChainOf(d) = Chain(next, more, d) /\ Chain(next, more, d) \subseteq Descs
  <2>1. IsChain(next, more, d, LinksIn(next, more, d)) /\ d \in Descs
        /\ next \in [Descs -> Descs]
    BY <1>1, <1>2 DEF PartitionInv, Partition
  <2> QED BY <2>1, SameChains, ChainInDescs
<1>5. Cardinality(FreeDescs) = free_count_
  BY <1>1, <1>3, CountNodes DEF PartitionInv, Partition
<1>6. \A d \in Outstanding : ChainOf(d) \cap FreeDescs = {}
  BY <1>1, <1>2, <1>3, <1>4 DEF PartitionInv, Partition
<1>7. \A d, e \in Outstanding : d # e => ChainOf(d) \cap ChainOf(e) = {}
  BY <1>1, <1>2, <1>4 DEF PartitionInv, Partition
<1>8. FreeDescs \cup UNION {ChainOf(d) : d \in Outstanding} = Descs
  <2>1. FreeDescs \subseteq Descs
    BY <1>1, <1>3, NodesInDescs DEF PartitionInv, Partition
  <2>2. UNION {ChainOf(d) : d \in Outstanding} \subseteq Descs
    BY <1>4
  <2>3. ASSUME NEW x \in Descs
        PROVE  x \in FreeDescs \/ \E d \in Outstanding : x \in ChainOf(d)
    BY <1>1, <1>2, <1>3, <1>4 DEF PartitionInv, Partition
  <2> QED BY <2>1, <2>2, <2>3
<1>9. ~receive /\ pc # "notify" => buf_references_ = Outstanding
  BY <1>1, <1>2 DEF BuffersInv
<1> QED BY <1>1, <1>5, <1>6, <1>7, <1>8, <1>9 DEF DescriptorsPartitioned

LEMMA InvImpliesNoLostWakeup == VringInv => NoLostWakeup
<1> SUFFICES ASSUME VringInv PROVE NoLostWakeup
  OBVIOUS
<1>1. device = "asleep" /\ ~kick /\ pc # "notify" => last_avail = avail_idx
  BY DEF VringInv, NotifyInv
<1>2. ASSUME pc = "idle", ~irq, signalled = used_idx
      PROVE  used_event = used_idx
  <2>1. signalled <= used_event /\ used_event <= used_index /\ used_index <= used_idx
    BY <1>2 DEF VringInv, WakeInv, RingInv
  <2>2. {used_event, used_index, used_idx} \subseteq Nat
    BY Bounds DEF VringInv, TypeOK, Indices
  <2> QED BY <1>2, <2>1, <2>2
<1> QED BY <1>1, <1>2 DEF NoLostWakeup

-----------------------------------------------------------------------------
(* Giving chains away *)

LEMMA Types ==
  ASSUME TypeOK
  PROVE  /\ {avail_idx, avail_event, used_idx, used_event, used_index, orig_idx,
             last_avail, signalled} \subseteq Nat
         /\ avail_idx \in Indices /\ last_avail \in Indices /\ orig_idx \in Indices
         /\ used_idx \in Indices /\ used_event \in Indices /\ used_index \in Indices
         /\ signalled \in Indices /\ avail_event \in Indices
         /\ free_count_ \in Nat /\ free_count_ <= qsize
         /\ Processed \in Nat /\ Pending \in Nat
<1>1. Pending \in 0 .. IndexRange - 1
  BY MinusIs DEF TypeOK, Pending
<1> QED BY <1>1, Bounds DEF TypeOK, Indices, Processed

\* What has not been taken fits into the ring with what is still free.
LEMMA PendingRoom ==
  ASSUME VringInv
  PROVE  Pending \in Nat /\ Pending + free_count_ <= qsize
<1>1. Pending \in Nat
  BY Types DEF VringInv
<1> DEFINE S == {Ahead(i) : i \in 0 .. Pending - 1}
           b == [i \in 0 .. Pending - 1 |-> Ahead(i)]
<1>2. b \in Bijection(0 .. Pending - 1, S)
  BY DEF VringInv, HeadsInv, Bijection, Surjection, Injection, IsInjective
<1>3. IsFiniteSet(0 .. Pending - 1) /\ Cardinality(0 .. Pending - 1) = Pending
  BY <1>1, FS_Interval
<1>4. Cardinality(S) = Pending
  BY <1>2, <1>3, FS_Bijection DEF ExistsBijection
<1>5. S \subseteq Out
  BY DEF Out
<1> HIDE DEF S
<1>6. Cardinality(S) + free_count_ <= qsize
  BY <1>5, Room DEF VringInv, PartitionInv
<1> QED BY <1>1, <1>4, <1>6

\* Heads a[0], ... a[n - 1] are appended to the available ring: what was there
\* and has not been taken stays, because there was room.
LEMMA AppendHeads ==
  ASSUME VringInv, NEW P, P = Pending, NEW n \in Nat, P + n <= qsize, NEW a,
         avail_idx' = Plus(avail_idx, n), last_avail' = last_avail,
         \A j \in 0 .. n - 1 : avail_ring'[Plus(avail_idx, j) % qsize] = a[j],
         \A e \in Descs : (\A j \in 0 .. n - 1 : Plus(avail_idx, j) % qsize # e)
                            => avail_ring'[e] = avail_ring[e]
  PROVE  /\ Pending' = P + n
         /\ \A i \in 0 .. P - 1 : Ahead(i)' = Ahead(i)
         /\ \A j \in 0 .. n - 1 : Ahead(P + j)' = a[j]
<1>1. avail_idx \in Indices /\ last_avail \in Indices /\ P \in Nat
  BY Types DEF VringInv
<1>2. avail_idx = Plus(last_avail, P)
  BY <1>1, PlusMinus DEF Pending
<1>3. Pending' = P + n
  BY <1>1, Bounds, MinusPlus DEF Pending
<1>4. ASSUME NEW j \in 0 .. n - 1
      PROVE  /\ Plus(avail_idx, j) = Plus(last_avail, P + j)
             /\ P + j \in 0 .. qsize - 1 /\ P + j \in 0 .. IndexRange - 1
  <2>1. j \in Nat /\ P + j < IndexRange /\ P + j \in 0 .. qsize - 1
        /\ P + j \in 0 .. IndexRange - 1
    BY <1>1, Bounds
  <2> QED BY <2>1, <1>1, <1>2, PlusPlus
<1>5. ASSUME NEW i \in 0 .. P - 1
      PROVE  Ahead(i)' = Ahead(i)
  <2>1. i \in 0 .. qsize - 1 /\ i \in 0 .. IndexRange - 1
    BY <1>1, Bounds
  <2> DEFINE s == Plus(last_avail, i) % qsize
  <2>2. s \in Descs
    BY <2>1, <1>1, EntryIs
  <2>3. ASSUME NEW j \in 0 .. n - 1, Plus(avail_idx, j) % qsize = s
        PROVE  FALSE
    <3>1. P + j = i
      BY <2>1, <2>3, <1>1, <1>4, EntriesDiffer
    <3> QED BY <3>1, <1>1
  <2>4. avail_ring'[s] = avail_ring[s]
    BY <2>2, <2>3
  <2> QED BY <2>4 DEF Ahead
<1>6. ASSUME NEW j \in 0 .. n - 1
      PROVE  Ahead(P + j)' = a[j]
  <2>1. avail_ring'[Plus(last_avail, P + j) % qsize] = a[j]
    BY <1>4
  <2> QED BY <2>1 DEF Ahead
<1> QED BY <1>3, <1>5, <1>6

\* New heads that are nowhere else are given away.
LEMMA GiveAway ==
  ASSUME VringInv, NEW P, P = Pending, NEW n \in Nat, P + n <= qsize, NEW a,
         Pending' = P + n,
         \A i \in 0 .. P - 1 : Ahead(i)' = Ahead(i),
         \A j \in 0 .. n - 1 : Ahead(P + j)' = a[j],
         \A i, j \in 0 .. n - 1 : a[i] = a[j] => i = j,
         \A j \in 0 .. n - 1 : a[j] \notin Out,
         inflight' = inflight, used_ring' = used_ring, used_idx' = used_idx,
         Processed' = Processed
  PROVE  /\ HeadsInv'
         /\ Out' = Out \cup {a[j] : j \in 0 .. n - 1}
<1>1. P \in Nat
  BY Types DEF VringInv
<1> DEFINE Given == Processed .. used_idx - 1
<1>2. Given' = Given
  OBVIOUS
<1>3. ASSUME NEW i \in 0 .. (P + n) - 1
      PROVE  \/ i \in 0 .. P - 1 /\ Ahead(i)' = Ahead(i) /\ Ahead(i) \in Out
             \/ i - P \in 0 .. n - 1 /\ Ahead(i)' = a[i - P] /\ a[i - P] \notin Out
  <2>1. CASE i < P
    BY <2>1, <1>1 DEF Out
  <2>2. CASE ~ (i < P)
    <3>1. i - P \in 0 .. n - 1 /\ P + (i - P) = i
      BY <2>2, <1>1
    <3>2. Ahead(P + (i - P))' = a[i - P]
      BY <3>1
    <3> QED BY <3>1, <3>2
  <2> QED BY <2>1, <2>2
<1>4. inflight \subseteq Out /\ \A k \in Given : used_ring[k] \in Out
  BY DEF Out
<1>5. HeadsInv
  BY DEF VringInv
<1> DEFINE Waiting == 0 .. Pending - 1
<1>6. Waiting' = 0 .. (P + n) - 1 /\ Waiting = 0 .. P - 1
  OBVIOUS
<1>7. \A i, j \in Waiting' : Ahead(i)' = Ahead(j)' => i = j
  <2> SUFFICES ASSUME NEW i \in 0 .. (P + n) - 1, NEW j \in 0 .. (P + n) - 1,
                      Ahead(i)' = Ahead(j)'
               PROVE  i = j
    BY <1>6
  <2>1. CASE i \in 0 .. P - 1 /\ j \in 0 .. P - 1
    BY <2>1, <1>5 DEF HeadsInv
  <2>2. CASE ~ (i \in 0 .. P - 1) /\ ~ (j \in 0 .. P - 1)
    <3>1. i - P = j - P
      BY <2>2, <1>3
    <3> QED BY <3>1, <1>1
  <2>3. CASE i \in 0 .. P - 1 /\ ~ (j \in 0 .. P - 1)
    <3>1. Ahead(i) \in Out /\ Ahead(j)' \notin Out /\ Ahead(i)' = Ahead(i)
      BY <2>3, <1>1, <1>3
    <3> QED BY <3>1
  <2>4. CASE ~ (i \in 0 .. P - 1) /\ j \in 0 .. P - 1
    <3>1. Ahead(j) \in Out /\ Ahead(i)' \notin Out /\ Ahead(j)' = Ahead(j)
      BY <2>4, <1>1, <1>3
    <3> QED BY <3>1
  <2> QED BY <2>1, <2>2, <2>3, <2>4
<1>8. \A i \in Waiting' : Ahead(i)' \notin inflight'
  BY <1>3, <1>4, <1>5, <1>6 DEF HeadsInv
<1>9. \A i \in Waiting', k \in Given' : Ahead(i)' # used_ring'[k]
  BY <1>3, <1>4, <1>5, <1>6 DEF HeadsInv
<1>10. HeadsInv'
  <2>1. \A k, l \in Given' : used_ring'[k] = used_ring'[l] => k = l
    BY <1>5 DEF HeadsInv
  <2>2. \A k \in Given' : used_ring'[k] \notin inflight'
    BY <1>5 DEF HeadsInv
  <2>3. Pending' <= qsize
    OBVIOUS
  <2> QED BY <2>1, <2>2, <2>3, <1>7, <1>8, <1>9 DEF HeadsInv
<1>11. {Ahead(i)' : i \in Waiting'}
         = {Ahead(i) : i \in 0 .. P - 1} \cup {a[j] : j \in 0 .. n - 1}
  <2>1. ASSUME NEW i \in Waiting'
        PROVE  Ahead(i)' \in {Ahead(k) : k \in 0 .. P - 1} \cup {a[j] : j \in 0 .. n - 1}
    BY <1>3, <1>6
  <2>2. ASSUME NEW i \in 0 .. P - 1
        PROVE  Ahead(i) = Ahead(i)' /\ i \in Waiting'
    BY <1>1, <1>6
  <2>3. ASSUME NEW j \in 0 .. n - 1
        PROVE  a[j] = Ahead(P + j)' /\ P + j \in Waiting'
    BY <1>1, <1>6
  <2> QED BY <2>1, <2>2, <2>3
<1>12. Out' = {Ahead(i)' : i \in Waiting'} \cup inflight' \cup {used_ring'[k] : k \in Given'}
  BY DEF Out
<1>13. Out = {Ahead(i) : i \in 0 .. P - 1} \cup inflight \cup {used_ring[k] : k \in Given}
  BY DEF Out
<1> QED BY <1>2, <1>10, <1>11, <1>12, <1>13

-----------------------------------------------------------------------------
(* What a step does to the descriptors *)

LEMMA SmallEntry ==
  ASSUME NEW k \in 0 .. qsize - 1
  PROVE  k % qsize = k /\ k \in Descs
<1>1. k \in Nat /\ k = qsize * 0 + k /\ 0 \in Int
  BY Bounds
<1> QED BY <1>1, Bounds, RemainderIs DEF Descs

LEMMA SendStep ==
  ASSUME VringInv, NEW n \in 1 .. MaxChain, Send(n)
  PROVE  PartitionInv' /\ HeadsInv' /\ BuffersInv'
<1>0. PICK P, c, u : P = Pending /\ c = free_count_ /\ u = 1
  OBVIOUS
<1> DEFINE h == free_head_
           a == [j \in 0 .. u - 1 |-> free_head_]
<1>1. /\ n \in 1 .. c /\ c \in Nat /\ c <= qsize
      /\ P \in Nat /\ P + u <= qsize /\ avail_idx \in Indices /\ avail_idx \in Nat
      /\ Processed' = Processed
  <2>1. n \in Nat /\ 1 <= n /\ n <= free_count_
    BY VringAssumption, Types DEF Send, VringInv
  <2>2. Processed' = Processed
    BY DEF Send, Processed
  <2>3. P + free_count_ <= qsize /\ P \in Nat
    BY <1>0, PendingRoom
  <2>4. free_count_ \in Nat /\ free_count_ <= qsize /\ avail_idx \in Indices
        /\ avail_idx \in Nat
    BY Types DEF VringInv
  <2> QED BY <2>1, <2>2, <2>3, <2>4, <1>0, Bounds
<1>2. /\ Partition(next, more', Walk(next, h, n), c - n, Out \cup {h})
      /\ h \notin Out
  <2>1. more' = [d \in Descs |-> IF d = Walk(next, h, n - 1) THEN FALSE
                 ELSE more[d] \/ \E i \in 0 .. (n - 2) : Walk(next, h, i) = d]
    BY SameWalks DEF Send
  <2>2. more' \in [Descs -> BOOLEAN]
    BY <2>1 DEF VringInv, TypeOK
  <2>3. Partition(next, more, h, c, Out)
    BY <1>0 DEF VringInv, PartitionInv
  <2>4. ASSUME NEW i \in 0 .. n - 1
        PROVE  Walk(next, h, i) \in Descs /\ i \in 0 .. c - 1
    <3>1. i \in Nat /\ i \in 0 .. c - 1
      BY <1>1
    <3> QED BY <3>1, <2>3, WalkFacts DEF Partition
  <2>5. ~ more'[Walk(next, h, n - 1)]
    <3>1. n - 1 \in 0 .. n - 1
      BY <1>1
    <3> QED BY <3>1, <2>1, <2>4
  <2>6. ASSUME NEW i \in 0 .. n - 2
        PROVE  more'[Walk(next, h, i)]
    <3>1. i \in 0 .. n - 1 /\ n - 1 \in 0 .. n - 1 /\ i # n - 1
      BY <1>1
    <3>2. Walk(next, h, i) # Walk(next, h, n - 1) /\ Walk(next, h, i) \in Descs
      BY <2>3, <2>4, <3>1 DEF Partition, Injective
    <3> QED BY <3>2, <2>1
  <2>7. ASSUME NEW d \in Descs \ Nodes(next, h, n)
        PROVE  more'[d] = more[d]
    <3>1. n - 1 \in 0 .. n - 1 /\ \A i \in 0 .. n - 2 : i \in 0 .. n - 1
      BY <1>1
    <3>2. d # Walk(next, h, n - 1) /\ \A i \in 0 .. n - 2 : Walk(next, h, i) # d
      BY <3>1, InNodes
    <3> QED BY <3>2, <2>1 DEF VringInv, TypeOK
  <2>8. h \notin Out
    BY <1>1, <2>3, HeadIsFree
  <2> HIDE DEF h
  <2>9. Partition(next, more', Walk(next, h, n), c - n, Out \cup {h})
    BY <1>1, <2>2, <2>3, <2>5, <2>6, <2>7, TakeOne
  <2> QED BY <2>8, <2>9
<1>3. avail_idx % qsize \in Descs /\ avail_idx \in Nat /\ Plus(avail_idx, 0) = avail_idx
  <2>1. Plus(avail_idx, 0) = avail_idx
    BY <1>1, PlusIs, Bounds DEF Indices
  <2> QED BY <1>1, <2>1, Bounds, Division DEF Descs
<1>4. /\ avail_idx' = Plus(avail_idx, u) /\ last_avail' = last_avail
      /\ avail_ring' = [avail_ring EXCEPT ![avail_idx % qsize] = h]
  BY <1>0 DEF Send, deviceVars
<1>5. \A j \in 0 .. u - 1 : avail_ring'[Plus(avail_idx, j) % qsize] = a[j]
  BY <1>0, <1>3, <1>4 DEF VringInv, TypeOK
<1>6. \A e \in Descs : (\A j \in 0 .. u - 1 : Plus(avail_idx, j) % qsize # e)
                            => avail_ring'[e] = avail_ring[e]
  BY <1>0, <1>3, <1>4 DEF VringInv, TypeOK
<1>7. /\ Pending' = P + u
      /\ \A i \in 0 .. P - 1 : Ahead(i)' = Ahead(i)
      /\ \A j \in 0 .. u - 1 : Ahead(P + j)' = a[j]
  <2> HIDE DEF a
  <2> QED BY <1>0, <1>1, <1>4, <1>5, <1>6, AppendHeads
<1>8. /\ inflight' = inflight /\ used_ring' = used_ring /\ used_idx' = used_idx
      /\ buf_references_' = buf_references_ /\ receive' = receive /\ ~receive
      /\ next' = next /\ free_head_' = Walk(next, h, n)
      /\ free_count_' = c - n /\ pc' = "notify" /\ pc = "idle"
      /\ orig_idx' = avail_idx
  BY <1>0, SameWalks DEF Send, HeadAfter, deviceVars
<1>9. HeadsInv' /\ Out' = Out \cup {a[j] : j \in 0 .. u - 1}
  <2>1. \A i, j \in 0 .. u - 1 : a[i] = a[j] => i = j
    BY <1>0
  <2>2. \A j \in 0 .. u - 1 : a[j] \notin Out
    BY <1>2
  <2>3. /\ P + u <= qsize /\ inflight' = inflight /\ used_ring' = used_ring
        /\ used_idx' = used_idx /\ Processed' = Processed
    BY <1>1, <1>8
  <2> HIDE DEF a
  <2> QED BY <1>0, <1>7, <2>1, <2>2, <2>3, GiveAway
<1>10. Out' = Out \cup {h}
  <2>1. {a[j] : j \in 0 .. u - 1} = {h}
    BY <1>0
  <2> QED BY <1>9, <2>1
<1>11. PartitionInv'
  BY <1>2, <1>8, <1>10 DEF PartitionInv
<1>12. BuffersInv'
  <2>1. Sent' = h
    BY <1>3, <1>4, <1>8 DEF Sent, VringInv, TypeOK
  <2>2. buf_references_ = Out
    BY <1>8 DEF VringInv, BuffersInv
  <2> QED BY <1>2, <1>8, <1>10, <2>1, <2>2 DEF BuffersInv
<1> QED BY <1>9, <1>11, <1>12

LEMMA FillStep ==
  ASSUME VringInv, FillRxRing, free_count_ * 2 >= qsize
  PROVE  PartitionInv' /\ HeadsInv' /\ BuffersInv' /\ orig_idx' # avail_idx'
<1>0. PICK P, c : P = Pending /\ c = free_count_
  OBVIOUS
<1> DEFINE h == free_head_
           a == [j \in 0 .. c - 1 |-> Walk(next, h, j)]
<1>1. /\ c \in Nat /\ 0 < c /\ c <= qsize /\ P \in Nat /\ P + c <= qsize
      /\ avail_idx \in Indices /\ receive /\ Processed' = Processed
  <2>1. free_count_ \in Nat /\ free_count_ <= qsize /\ avail_idx \in Indices
    BY Types DEF VringInv
  <2>2. 0 < free_count_
    BY <2>1, Bounds
  <2>3. P + free_count_ <= qsize /\ P \in Nat
    BY <1>0, PendingRoom
  <2>4. Processed' = Processed
    BY DEF FillRxRing, AddWritableBuffers, Processed
  <2>5. receive
    BY DEF FillRxRing, VringInv, BuffersInv, TypeOK
  <2> QED BY <1>0, <2>1, <2>2, <2>3, <2>4, <2>5
<1>2. AddWritableBuffers /\ pc' = "notify"
      /\ UNCHANGED <<receive, next, used_event, used_index, buf_references_,
                     deviceVars, irq, kick>>
  BY DEF FillRxRing
<1>3. Partition(next, more, h, c, Out)
  BY <1>0 DEF VringInv, PartitionInv
<1>4. /\ Partition(next, more', Walk(next, h, c), 0, Out \cup Nodes(next, h, c))
      /\ Out \cap Nodes(next, h, c) = {}
  <2>1. more' \in [Descs -> BOOLEAN]
    <3>1. more' = [d \in Descs |-> more[d] /\ \A i \in 0 .. (free_count_ - 1) :
                                                Along(free_head_, i) # d]
      BY <1>2 DEF AddWritableBuffers
    <3> QED BY <3>1 DEF VringInv, TypeOK
  <2>2. ASSUME NEW d \in Descs
        PROVE  more'[d] = (more[d] /\ \A i \in 0 .. c - 1 : Walk(next, h, i) # d)
    BY <1>2, <1>0, SameWalks DEF AddWritableBuffers
  <2>3. Out \cap Nodes(next, h, c) = {}
    BY <1>3, HeadsAreNotFree
  <2> HIDE DEF h
  <2>4. Partition(next, more', Walk(next, h, c), 0, Out \cup Nodes(next, h, c))
    BY <2>1, <2>2, <1>3, TakeAll
  <2> QED BY <2>3, <2>4
<1>5. ASSUME NEW j \in 0 .. c - 1
      PROVE  /\ Plus(avail_idx, j) % qsize \in Descs
             /\ \A i \in 0 .. c - 1 :
                  Plus(avail_idx, i) % qsize = Plus(avail_idx, j) % qsize => i = j
  <2>1. j \in 0 .. IndexRange - 1 /\ j \in 0 .. qsize - 1
        /\ \A i \in 0 .. c - 1 : i \in 0 .. qsize - 1
    BY <1>1, Bounds
  <2>2. Plus(avail_idx, j) % qsize \in Descs
    BY <1>1, <2>1, EntryIs
  <2>3. ASSUME NEW i \in 0 .. c - 1,
               Plus(avail_idx, i) % qsize = Plus(avail_idx, j) % qsize
        PROVE  i = j
    BY <1>1, <2>1, <2>3, EntriesDiffer
  <2> QED BY <2>2, <2>3
<1> DEFINE At(e) == CHOOSE i \in 0 .. c - 1 : Plus(avail_idx, i) % qsize = e
<1>6. avail_ring' = [e \in Descs |->
        IF \E i \in 0 .. c - 1 : Plus(avail_idx, i) % qsize = e
        THEN Walk(next, h, At(e)) ELSE avail_ring[e]]
  BY <1>2, <1>0, SameWalks DEF AddWritableBuffers
<1>7. \A j \in 0 .. c - 1 : avail_ring'[Plus(avail_idx, j) % qsize] = a[j]
  <2> SUFFICES ASSUME NEW j \in 0 .. c - 1
               PROVE  avail_ring'[Plus(avail_idx, j) % qsize] = a[j]
    OBVIOUS
  <2> DEFINE s == Plus(avail_idx, j) % qsize
  <2>1. At(s) = j
    BY <1>5
  <2>2. s \in Descs
    BY <1>5
  <2> HIDE DEF At
  <2>3. avail_ring'[s] = Walk(next, h, At(s))
    BY <1>6, <2>2
  <2> QED BY <2>1, <2>3
<1>8. \A e \in Descs : (\A j \in 0 .. c - 1 : Plus(avail_idx, j) % qsize # e)
                            => avail_ring'[e] = avail_ring[e]
  <2> HIDE DEF At
  <2> QED BY <1>6
<1>9. /\ inflight' = inflight /\ used_ring' = used_ring /\ used_idx' = used_idx
      /\ next' = next /\ free_head_' = Walk(next, h, c) /\ receive' = receive
      /\ free_count_' = 0 /\ avail_idx' = Plus(avail_idx, c)
      /\ last_avail' = last_avail /\ orig_idx' = avail_idx
  BY <1>2, <1>0, SameWalks DEF AddWritableBuffers, HeadAfter, deviceVars
<1>10. /\ Pending' = P + c
       /\ \A i \in 0 .. P - 1 : Ahead(i)' = Ahead(i)
       /\ \A j \in 0 .. c - 1 : Ahead(P + j)' = a[j]
  <2> HIDE DEF a
  <2> QED BY <1>0, <1>1, <1>7, <1>8, <1>9, AppendHeads
<1>11. {a[j] : j \in 0 .. c - 1} = Nodes(next, h, c)
  BY DEF Nodes
<1>12. HeadsInv' /\ Out' = Out \cup {a[j] : j \in 0 .. c - 1}
  <2>1. \A i, j \in 0 .. c - 1 : a[i] = a[j] => i = j
    BY <1>3 DEF Partition, Injective
  <2>2. \A j \in 0 .. c - 1 : a[j] \notin Out
    BY <1>4, <1>11
  <2> HIDE DEF a
  <2> QED BY <1>0, <1>1, <1>9, <1>10, <2>1, <2>2, GiveAway
<1>13. PartitionInv'
  <2> HIDE DEF a
  <2> QED BY <1>4, <1>9, <1>11, <1>12 DEF PartitionInv
<1>14. BuffersInv'
  BY <1>1, <1>9 DEF BuffersInv
<1>15. orig_idx' # avail_idx'
  <2>1. c \in 0 .. IndexRange - 1
    BY <1>1, Bounds
  <2>2. Plus(avail_idx, c) = IF avail_idx + c < IndexRange THEN avail_idx + c
                             ELSE avail_idx + c - IndexRange
    BY <1>1, <2>1, PlusIs
  <2> QED BY <1>1, <1>9, <2>1, <2>2, Bounds DEF Indices
<1> QED BY <1>12, <1>13, <1>14, <1>15

\* The device takes the first entry: its head is with the device instead.
LEMMA TakeStep ==
  ASSUME VringInv, DeviceTake
  PROVE  PartitionInv' /\ HeadsInv' /\ BuffersInv'
<1>0. PICK P : P = Pending
  OBVIOUS
<1> DEFINE Given == Processed .. used_idx - 1
<1>1. /\ last_avail # avail_idx /\ last_avail' = Plus(last_avail, 1)
      /\ inflight' = inflight \cup {avail_ring[last_avail % qsize]}
      /\ avail_idx' = avail_idx /\ avail_ring' = avail_ring
      /\ used_ring' = used_ring /\ used_idx' = used_idx
      /\ Processed' = Processed /\ Given' = Given
      /\ UNCHANGED <<next, more, free_head_, free_count_, receive, pc,
                     buf_references_, orig_idx>>
  BY DEF DeviceTake, driverVars, descVars, Processed
<1>2. avail_idx \in Indices /\ last_avail \in Indices /\ P \in Nat /\ P <= qsize
  BY <1>0, Types DEF VringInv, HeadsInv
<1>3. Pending' = P - 1 /\ P # 0
  BY <1>0, <1>1, <1>2, MinusNext DEF Pending
<1>4. ASSUME NEW i \in 0 .. (P - 1) - 1
      PROVE  Ahead(i)' = Ahead(i + 1) /\ i + 1 \in 0 .. P - 1 /\ i + 1 # 0
  <2>1. i \in Nat /\ 1 \in Nat /\ 1 + i < IndexRange /\ 1 + i = i + 1
        /\ i + 1 \in 0 .. P - 1 /\ i + 1 # 0
    BY <1>2, Bounds
  <2>2. Plus(Plus(last_avail, 1), i) = Plus(last_avail, i + 1)
    BY <2>1, <1>2, PlusPlus
  <2> QED BY <2>1, <2>2, <1>1 DEF Ahead
<1>5. Ahead(0) = avail_ring[last_avail % qsize] /\ 0 \in 0 .. P - 1
  <2>1. Plus(last_avail, 0) = last_avail
    BY <1>2, PlusIs, Bounds DEF Indices
  <2> QED BY <2>1, <1>2, <1>3 DEF Ahead
<1>6. HeadsInv
  BY DEF VringInv
<1>7. ASSUME NEW i \in 0 .. P - 1, i # 0
      PROVE  /\ i - 1 \in 0 .. (P - 1) - 1 /\ Ahead(i - 1)' = Ahead(i)
  <2>1. i - 1 \in 0 .. (P - 1) - 1 /\ (i - 1) + 1 = i
    BY <1>2, <1>7
  <2> QED BY <2>1, <1>4
<1> DEFINE Waiting == 0 .. Pending - 1
<1>8. Waiting' = 0 .. (P - 1) - 1 /\ Waiting = 0 .. P - 1
  BY <1>0, <1>3
<1>9. \A i, j \in Waiting' : Ahead(i)' = Ahead(j)' => i = j
  <2> SUFFICES ASSUME NEW i \in 0 .. (P - 1) - 1, NEW j \in 0 .. (P - 1) - 1,
                      Ahead(i)' = Ahead(j)'
               PROVE  i = j
    BY <1>8
  <2>1. Ahead(i + 1) = Ahead(j + 1) /\ i + 1 \in Waiting /\ j + 1 \in Waiting
    BY <1>4, <1>8
  <2>2. i + 1 = j + 1
    BY <2>1, <1>6 DEF HeadsInv
  <2> QED BY <2>2, <1>2
<1>10. \A i \in Waiting' : Ahead(i)' \notin inflight'
  <2> SUFFICES ASSUME NEW i \in 0 .. (P - 1) - 1
               PROVE  Ahead(i)' \notin inflight'
    BY <1>8
  <2>1. Ahead(i)' = Ahead(i + 1) /\ i + 1 \in Waiting /\ i + 1 # 0 /\ 0 \in Waiting
    BY <1>4, <1>5, <1>8
  <2>2. Ahead(i + 1) # Ahead(0) /\ Ahead(i + 1) \notin inflight
    BY <2>1, <1>6 DEF HeadsInv
  <2> QED BY <2>1, <2>2, <1>1, <1>5
<1>11. \A k \in Given' : used_ring'[k] \notin inflight'
  <2>1. \A k \in Given : used_ring[k] \notin inflight /\ used_ring[k] # Ahead(0)
    BY <1>5, <1>6, <1>8 DEF HeadsInv
  <2> QED BY <2>1, <1>1, <1>5
<1>12. \A i \in Waiting', k \in Given' : Ahead(i)' # used_ring'[k]
  <2> SUFFICES ASSUME NEW i \in 0 .. (P - 1) - 1, NEW k \in Given
               PROVE  Ahead(i)' # used_ring[k]
    BY <1>1, <1>8
  <2> QED BY <1>4, <1>6, <1>8 DEF HeadsInv
<1>13. HeadsInv'
  <2>1. Pending' <= qsize
    BY <1>2, <1>3, Bounds
  <2>2. \A k, l \in Given' : used_ring'[k] = used_ring'[l] => k = l
    BY <1>1, <1>6 DEF HeadsInv
  <2> QED BY <2>1, <2>2, <1>9, <1>10, <1>11, <1>12 DEF HeadsInv
<1>14. Out' = Out
  <2>1. {Ahead(i)' : i \in Waiting'} \cup {Ahead(0)} = {Ahead(i) : i \in Waiting}
    <3>1. ASSUME NEW i \in Waiting'
          PROVE  Ahead(i)' \in {Ahead(k) : k \in Waiting}
      BY <1>4, <1>8
    <3>2. ASSUME NEW i \in Waiting
          PROVE  Ahead(i) \in {Ahead(k)' : k \in Waiting'} \cup {Ahead(0)}
      BY <1>7, <1>8
    <3> QED BY <3>1, <3>2, <1>5, <1>8
  <2>2. Out' = {Ahead(i)' : i \in Waiting'} \cup inflight' \cup {used_ring'[k] : k \in Given'}
    BY DEF Out
  <2>3. Out = {Ahead(i) : i \in Waiting} \cup inflight \cup {used_ring[k] : k \in Given}
    BY DEF Out
  <2> QED BY <2>1, <2>2, <2>3, <1>1, <1>5
<1>15. PartitionInv'
  BY <1>1, <1>14 DEF VringInv, PartitionInv
<1>16. BuffersInv'
  BY <1>1, <1>14 DEF VringInv, BuffersInv, Sent
<1> QED BY <1>13, <1>15, <1>16

\* The device gives a chain back: its head is in the used ring instead.
LEMMA UseStep ==
  ASSUME OneLap, VringInv, DeviceUse
  PROVE  PartitionInv' /\ HeadsInv' /\ BuffersInv'
<1>1. PICK h \in inflight :
        /\ inflight' = inflight \ {h}
        /\ used_ring' = [used_ring EXCEPT ![used_idx % qsize] = h]
  BY DEF DeviceUse
<1>2. /\ used_idx' = Plus(used_idx, 1) /\ gave < MaxUsed
      /\ avail_idx' = avail_idx /\ avail_ring' = avail_ring
      /\ last_avail' = last_avail /\ Processed' = Processed
      /\ UNCHANGED <<next, more, free_head_, free_count_, receive, pc,
                     buf_references_, orig_idx>>
  BY DEF DeviceUse, driverVars, descVars, Processed
<1>3. /\ used_idx \in 0 .. qsize - 1 /\ used_idx \in Nat /\ Processed \in Nat
      /\ Processed <= used_idx /\ used_idx \in Indices
  <2>1. used_idx = gave /\ gave \in Nat /\ MaxUsed <= qsize /\ MaxUsed \in Nat
    BY VringAssumption DEF VringInv, RingInv, TypeOK, OneLap, MaxUsed
  <2>2. Processed <= used_idx /\ Processed \in Nat /\ used_idx \in Indices
    BY Types DEF VringInv, RingInv, Processed
  <2> QED BY <2>1, <2>2, <1>2, Bounds
<1>4. used_idx % qsize = used_idx /\ used_idx \in Descs /\ used_idx' = used_idx + 1
  <2>1. used_idx % qsize = used_idx /\ used_idx \in Descs
    BY <1>3, SmallEntry
  <2>2. used_idx' = used_idx + 1
    BY <1>2, <1>3, PlusIs, Bounds
  <2> QED BY <2>1, <2>2
<1> DEFINE Given == Processed .. used_idx - 1
           Waiting == 0 .. Pending - 1
<1>5. ASSUME NEW k \in Given'
      PROVE  \/ k = used_idx /\ used_ring'[k] = h
             \/ k \in Given /\ used_ring'[k] = used_ring[k]
  <2>0. k \in Nat /\ Processed <= k /\ k <= used_idx
    BY <1>2, <1>3, <1>4
  <2>1. k = used_idx \/ (k \in Given /\ k # used_idx /\ k \in 0 .. qsize - 1)
    BY <2>0, <1>3, Bounds
  <2>2. k \in Descs
    BY <2>1, <1>4, SmallEntry
  <2> QED BY <2>1, <2>2, <1>1, <1>4 DEF VringInv, TypeOK
<1>6. \A k \in Given : k \in Given' /\ used_ring'[k] = used_ring[k]
  <2> SUFFICES ASSUME NEW k \in Given
               PROVE  k \in Given' /\ used_ring'[k] = used_ring[k]
    OBVIOUS
  <2>1. k \in Given' /\ k # used_idx
    BY <1>2, <1>3, <1>4
  <2> QED BY <2>1, <1>5
<1>7. used_idx \in Given' /\ used_ring'[used_idx] = h
  BY <1>1, <1>2, <1>3, <1>4 DEF VringInv, TypeOK
<1>8. /\ Pending' = Pending /\ Waiting' = Waiting /\ \A i : Ahead(i)' = Ahead(i)
  BY <1>2 DEF Pending, Ahead
<1>9. HeadsInv
  BY DEF VringInv
<1>10. HeadsInv'
  <2>1. \A k, l \in Given' : used_ring'[k] = used_ring'[l] => k = l
    <3> SUFFICES ASSUME NEW k \in Given', NEW l \in Given',
                        used_ring'[k] = used_ring'[l]
                 PROVE  k = l
      OBVIOUS
    <3>1. \A x \in Given : used_ring[x] # h
      BY <1>9 DEF HeadsInv
    <3> HIDE DEF Given
    <3>2. CASE k \in Given /\ l \in Given
      <4>1. used_ring[k] = used_ring[l]
        BY <3>2, <1>6
      <4> QED BY <3>2, <4>1, <1>9 DEF HeadsInv, Given
    <3>3. CASE k \in Given /\ l \notin Given
      BY <3>1, <3>3, <1>5
    <3>4. CASE k \notin Given /\ l \in Given
      BY <3>1, <3>4, <1>5
    <3>5. CASE k \notin Given /\ l \notin Given
      BY <3>5, <1>5
    <3> QED BY <3>2, <3>3, <3>4, <3>5
  <2>2. \A k \in Given' : used_ring'[k] \notin inflight'
    <3> SUFFICES ASSUME NEW k \in Given'
                 PROVE  used_ring'[k] \notin inflight'
      OBVIOUS
    <3> QED BY <1>1, <1>5, <1>9 DEF HeadsInv
  <2>3. \A i \in Waiting', k \in Given' : Ahead(i)' # used_ring'[k]
    <3> SUFFICES ASSUME NEW i \in Waiting, NEW k \in Given'
                 PROVE  Ahead(i) # used_ring'[k]
      BY <1>8
    <3> QED BY <1>5, <1>9 DEF HeadsInv
  <2>4. /\ Pending' <= qsize
        /\ \A i, j \in Waiting' : Ahead(i)' = Ahead(j)' => i = j
        /\ \A i \in Waiting' : Ahead(i)' \notin inflight'
    BY <1>1, <1>8, <1>9 DEF HeadsInv
  <2> QED BY <2>1, <2>2, <2>3, <2>4 DEF HeadsInv
<1>11. Out' = Out
  <2>1. {used_ring'[k] : k \in Given'} = {used_ring[k] : k \in Given} \cup {h}
    <3>1. ASSUME NEW k \in Given'
          PROVE  used_ring'[k] \in {used_ring[l] : l \in Given} \cup {h}
      BY <1>5
    <3>2. ASSUME NEW k \in Given
          PROVE  used_ring[k] \in {used_ring'[l] : l \in Given'}
      BY <1>6
    <3>3. h \in {used_ring'[l] : l \in Given'}
      BY <1>7
    <3> HIDE DEF Given
    <3> QED BY <3>1, <3>2, <3>3
  <2>2. Out' = {Ahead(i)' : i \in Waiting'} \cup inflight' \cup {used_ring'[k] : k \in Given'}
    BY DEF Out
  <2>3. Out = {Ahead(i) : i \in Waiting} \cup inflight \cup {used_ring[k] : k \in Given}
    BY DEF Out
  <2>4. {Ahead(i)' : i \in Waiting'} = {Ahead(i) : i \in Waiting}
    BY <1>8
  <2> HIDE DEF Given, Waiting
  <2> QED BY <2>1, <2>2, <2>3, <2>4, <1>1
<1>12. PartitionInv'
  BY <1>2, <1>11 DEF VringInv, PartitionInv
<1>13. BuffersInv'
  BY <1>2, <1>11 DEF VringInv, BuffersInv, Sent
<1> QED BY <1>10, <1>12, <1>13

\* A chain that came back goes to the free list.
LEMMA ConsumeStep ==
  ASSUME VringInv, Consume
  PROVE  /\ PartitionInv' /\ HeadsInv' /\ BuffersInv'
         /\ free_count_' \in 0 .. qsize /\ used_index' = used_index + 1
<1>1. /\ pc = "consume" /\ pc' = "poll" /\ used_index' = Plus(used_index, 1)
      /\ avail_idx' = avail_idx /\ avail_ring' = avail_ring
      /\ last_avail' = last_avail /\ used_ring' = used_ring /\ used_idx' = used_idx
      /\ inflight' = inflight /\ receive' = receive /\ more' = more
  BY DEF Consume, deviceVars
<1>2. /\ used_index \in 0 .. qsize - 1 /\ used_index \in Nat /\ used_idx \in Nat
      /\ used_index < used_idx /\ used_idx <= qsize /\ used_index \in Indices
  BY <1>1, Types, Bounds DEF VringInv, RingInv
<1> DEFINE id == used_ring[used_index]
<1>3. /\ used_index % qsize = used_index /\ used_index \in Descs
      /\ used_index' = used_index + 1
  <2>1. used_index % qsize = used_index /\ used_index \in Descs
    BY <1>2, SmallEntry
  <2>2. used_index' = used_index + 1
    BY <1>1, <1>2, PlusIs, Bounds
  <2> QED BY <2>1, <2>2
<1>4. /\ next' = [next EXCEPT ![Walk(next, id, LinksIn(next, more, id))] = free_head_]
      /\ free_head_' = id
      /\ free_count_' = free_count_ + LinksIn(next, more, id) + 1
      /\ buf_references_' = buf_references_ \ {id}
  <2>0. used_index < qsize
    BY <1>2, Bounds
  <2>1. UsedEntries = {id}
    BY <2>0 DEF UsedEntries
  <2> QED BY <2>1, SameWalks DEF Consume
<1> DEFINE Given == Processed .. used_idx - 1
           Waiting == 0 .. Pending - 1
<1>5. /\ Given = used_index .. used_idx - 1
      /\ Given' = (used_index + 1) .. used_idx - 1
      /\ used_index \in Given
      /\ \A k \in Given : k = used_index \/ k \in Given'
      /\ \A k \in Given' : k \in Given /\ k # used_index
  <2>1. Processed = used_index /\ Processed' = used_index'
    BY <1>1 DEF Processed
  <2>2. Given' = (used_index + 1) .. used_idx - 1 /\ Given = used_index .. used_idx - 1
    BY <2>1, <1>1, <1>3
  <2>3. used_index \in used_index .. used_idx - 1
    BY <1>2
  <2>4. ASSUME NEW k \in used_index .. used_idx - 1, k # used_index
        PROVE  k \in (used_index + 1) .. used_idx - 1
    BY <2>4, <1>2
  <2>5. ASSUME NEW k \in (used_index + 1) .. used_idx - 1
        PROVE  k \in used_index .. used_idx - 1 /\ k # used_index
    BY <1>2
  <2> HIDE DEF Given
  <2> QED BY <2>2, <2>3, <2>4, <2>5
<1>6. HeadsInv
  BY DEF VringInv
<1>7. /\ Pending' = Pending /\ Waiting' = Waiting /\ \A i : Ahead(i)' = Ahead(i)
  BY <1>1 DEF Pending, Ahead
<1>8. HeadsInv'
  <2>1. \A k, l \in Given' : used_ring'[k] = used_ring'[l] => k = l
    BY <1>1, <1>5, <1>6 DEF HeadsInv
  <2>2. \A k \in Given' : used_ring'[k] \notin inflight'
    BY <1>1, <1>5, <1>6 DEF HeadsInv
  <2>3. \A i \in Waiting', k \in Given' : Ahead(i)' # used_ring'[k]
    BY <1>1, <1>5, <1>6, <1>7 DEF HeadsInv
  <2>4. /\ Pending' <= qsize
        /\ \A i, j \in Waiting' : Ahead(i)' = Ahead(j)' => i = j
        /\ \A i \in Waiting' : Ahead(i)' \notin inflight'
    BY <1>1, <1>6, <1>7 DEF HeadsInv
  <2> QED BY <2>1, <2>2, <2>3, <2>4 DEF HeadsInv
<1>9. Out' = Out \ {id} /\ id \in Out
  <2>1. {used_ring'[k] : k \in Given'} = {used_ring[k] : k \in Given} \ {id}
    <3>1. ASSUME NEW k \in Given'
          PROVE  used_ring'[k] \in {used_ring[l] : l \in Given} \ {id}
      BY <1>1, <1>5, <1>6 DEF HeadsInv
    <3>2. ASSUME NEW k \in Given, used_ring[k] # id
          PROVE  used_ring[k] \in {used_ring'[l] : l \in Given'}
      BY <3>2, <1>1, <1>5
    <3> HIDE DEF Given
    <3> QED BY <3>1, <3>2
  <2>2. Out' = {Ahead(i)' : i \in Waiting'} \cup inflight' \cup {used_ring'[k] : k \in Given'}
    BY DEF Out
  <2>3. Out = {Ahead(i) : i \in Waiting} \cup inflight \cup {used_ring[k] : k \in Given}
    BY DEF Out
  <2>4. {Ahead(i)' : i \in Waiting'} = {Ahead(i) : i \in Waiting}
    BY <1>7
  <2>5. id \in {used_ring[k] : k \in Given}
    BY <1>5
  <2>6. id \notin inflight /\ id \notin {Ahead(i) : i \in Waiting}
    BY <1>5, <1>6 DEF HeadsInv
  <2> HIDE DEF Given, Waiting, id
  <2> QED BY <2>1, <2>2, <2>3, <2>4, <2>5, <2>6, <1>1
<1>10. PartitionInv'
  <2> HIDE DEF id
  <2>1. Partition(next, more, free_head_, free_count_, Out)
    BY DEF VringInv, PartitionInv
  <2>2. Partition([next EXCEPT ![Walk(next, id, LinksIn(next, more, id))] = free_head_],
                  more, id, free_count_ + LinksIn(next, more, id) + 1, Out \ {id})
    BY <2>1, <1>9, PutBack
  <2> QED BY <2>2, <1>1, <1>4, <1>9 DEF PartitionInv
<1>11. BuffersInv'
  <2> HIDE DEF id
  <2>1. ~receive => buf_references_ = Out
    BY <1>1 DEF VringInv, BuffersInv
  <2> QED BY <2>1, <1>1, <1>4, <1>9 DEF BuffersInv
<1>12. free_count_' \in 0 .. qsize
  <2> DEFINE c == free_count_'
             none == {}
  <2>1. Partition(next', more', free_head_', c, Out')
    BY <1>10 DEF PartitionInv
  <2>2. Cardinality(none) = 0 /\ none \subseteq Out'
    BY FS_EmptySet
  <2>3. c \in Nat
    BY <2>1 DEF Partition
  <2> HIDE DEF c, none
  <2>4. Cardinality(none) + c <= qsize
    BY <2>1, <2>2, Room
  <2>5. c \in 0 .. qsize
    BY <2>2, <2>3, <2>4, Bounds
  <2> QED BY <2>5 DEF c
<1> QED BY <1>3, <1>4, <1>8, <1>10, <1>11, <1>12

\* The other steps leave the descriptors and the heads where they are.
LEMMA Quiet ==
  ASSUME VringInv,
         UNCHANGED <<descVars, avail_ring, avail_idx, last_avail, inflight,
                     used_ring, used_idx>>,
         Processed' = Processed
  PROVE  PartitionInv' /\ HeadsInv' /\ Out' = Out
<1>1. Pending' = Pending /\ \A i : Ahead(i)' = Ahead(i)
  BY DEF Pending, Ahead
<1> DEFINE Waiting == 0 .. Pending - 1
           Given == Processed .. used_idx - 1
<1>2. Waiting' = Waiting /\ Given' = Given
  BY <1>1
<1>3. Out' = Out
  <2>1. {Ahead(i)' : i \in Waiting'} = {Ahead(i) : i \in Waiting}
    BY <1>1, <1>2
  <2>2. {used_ring'[k] : k \in Given'} = {used_ring[k] : k \in Given}
    BY <1>2
  <2>3. Out' = {Ahead(i)' : i \in Waiting'} \cup inflight' \cup {used_ring'[k] : k \in Given'}
    BY DEF Out
  <2>4. Out = {Ahead(i) : i \in Waiting} \cup inflight \cup {used_ring[k] : k \in Given}
    BY DEF Out
  <2> HIDE DEF Waiting, Given
  <2> QED BY <2>1, <2>2, <2>3, <2>4
<1>4. HeadsInv'
  <2>1. HeadsInv
    BY DEF VringInv
  <2>2. /\ Pending' <= qsize
        /\ \A i, j \in Waiting' : Ahead(i)' = Ahead(j)' => i = j
        /\ \A k, l \in Given' : used_ring'[k] = used_ring'[l] => k = l
        /\ \A i \in Waiting' : Ahead(i)' \notin inflight'
        /\ \A k \in Given' : used_ring'[k] \notin inflight'
        /\ \A i \in Waiting', k \in Given' : Ahead(i)' # used_ring'[k]
    BY <2>1, <1>1, <1>2 DEF HeadsInv
  <2> QED BY <2>2 DEF HeadsInv
<1>5. PartitionInv'
  BY <1>3 DEF VringInv, PartitionInv, descVars
<1> QED BY <1>3, <1>4, <1>5

-----------------------------------------------------------------------------
(* The invariant is inductive *)

LEMMA DescriptorsStep ==
  ASSUME OneLap, VringInv, [Next]_vringVars
  PROVE  PartitionInv' /\ HeadsInv' /\ BuffersInv'
<1>0. BuffersInv /\ RingInv /\ TypeOK
  BY DEF VringInv
<1>1. ASSUME NEW n \in 1 .. MaxChain, Send(n)
      PROVE  PartitionInv' /\ HeadsInv' /\ BuffersInv'
  BY <1>1, SendStep
<1>2. ASSUME NEW n \in 1 .. MaxChain, SendAborts(n)
      PROVE  PartitionInv' /\ HeadsInv' /\ BuffersInv'
  <2>1. UNCHANGED <<descVars, avail_ring, avail_idx, last_avail, inflight,
                    used_ring, used_idx>> /\ Processed' = Processed
    BY <1>2 DEF SendAborts, deviceVars, Processed
  <2>2. PartitionInv' /\ HeadsInv' /\ Out' = Out
    BY <2>1, Quiet
  <2> QED BY <1>0, <1>2, <2>2 DEF BuffersInv, SendAborts, descVars
<1>3. CASE FillRxRing
  <2>1. CASE free_count_ * 2 >= qsize
    BY <1>3, <2>1, FillStep
  <2>2. CASE ~ (free_count_ * 2 >= qsize)
    <3>1. UNCHANGED <<descVars, avail_ring, avail_idx, last_avail, inflight,
                      used_ring, used_idx>> /\ Processed' = Processed
      BY <1>3, <2>2 DEF FillRxRing, deviceVars, descVars, Processed
    <3>2. PartitionInv' /\ HeadsInv' /\ Out' = Out
      BY <3>1, Quiet
    <3> QED BY <1>0, <1>3, <2>2, <3>2 DEF BuffersInv, FillRxRing, descVars
  <2> QED BY <2>1, <2>2
<1>4. CASE Notify
  <2>1. UNCHANGED <<descVars, avail_ring, avail_idx, last_avail, inflight,
                    used_ring, used_idx>> /\ Processed' = Processed
    BY <1>4 DEF Notify, deviceVars, Processed
  <2>2. PartitionInv' /\ HeadsInv' /\ Out' = Out
    BY <2>1, Quiet
  <2>3. /\ pc = "notify" /\ pc' = "idle" /\ receive' = receive
        /\ ~receive => buf_references_' = buf_references_ \cup {Sent}
    BY <1>4 DEF Notify, descVars, Sent
  <2> QED BY <1>0, <2>2, <2>3 DEF BuffersInv
<1>5. CASE Interrupt
  <2>1. UNCHANGED <<descVars, avail_ring, avail_idx, last_avail, inflight,
                    used_ring, used_idx>> /\ Processed' = Processed
    BY <1>5 DEF Interrupt, deviceVars, Processed
  <2>2. PartitionInv' /\ HeadsInv' /\ Out' = Out
    BY <2>1, Quiet
  <2> QED BY <1>0, <1>5, <2>2 DEF BuffersInv, Interrupt, descVars
<1>6. CASE Poll
  <2>1. UNCHANGED <<descVars, avail_ring, avail_idx, last_avail, inflight,
                    used_ring, used_idx>> /\ Processed' = Processed
    BY <1>6 DEF Poll, deviceVars, Processed
  <2>2. PartitionInv' /\ HeadsInv' /\ Out' = Out
    BY <2>1, Quiet
  <2> QED BY <1>0, <1>6, <2>2 DEF BuffersInv, Poll, descVars
<1>7. CASE Rearm
  <2>1. UNCHANGED <<descVars, avail_ring, avail_idx, last_avail, inflight,
                    used_ring, used_idx>> /\ Processed' = Processed
    BY <1>7 DEF Rearm, deviceVars, Processed
  <2>2. PartitionInv' /\ HeadsInv' /\ Out' = Out
    BY <2>1, Quiet
  <2> QED BY <1>0, <1>7, <2>2 DEF BuffersInv, Rearm, descVars
<1>8. CASE Recheck
  <2>1. UNCHANGED <<descVars, avail_ring, avail_idx, last_avail, inflight,
                    used_ring, used_idx>> /\ Processed' = Processed
    BY <1>0, <1>8 DEF Recheck, deviceVars, Processed, RingInv, AfterLoop
  <2>2. PartitionInv' /\ HeadsInv' /\ Out' = Out
    BY <2>1, Quiet
  <2> QED BY <1>0, <1>8, <2>2 DEF BuffersInv, Recheck, AfterLoop, descVars
<1>9. CASE Consume
  BY <1>9, ConsumeStep
<1>10. CASE DeviceTake
  BY <1>10, TakeStep
<1>11. CASE DeviceDrained \/ DeviceArm \/ DeviceRecheck \/ DeviceKicked \/ DeviceSignal
             \/ UNCHANGED vringVars
  <2>1. /\ UNCHANGED <<descVars, avail_ring, avail_idx, last_avail, inflight,
                       used_ring, used_idx>>
        /\ UNCHANGED <<pc, used_event, used_index, receive, buf_references_, orig_idx>>
    BY <1>11 DEF DeviceDrained, DeviceArm, DeviceRecheck, DeviceKicked, DeviceSignal,
       vringVars, driverVars, deviceVars, descVars
  <2>2. Processed' = Processed
    BY <2>1 DEF Processed
  <2>3. PartitionInv' /\ HeadsInv' /\ Out' = Out
    BY <2>1, <2>2, Quiet
  <2> QED BY <1>0, <2>1, <2>3 DEF BuffersInv, Sent
<1>12. CASE DeviceUse
  BY <1>12, UseStep
<1> QED BY <1>1, <1>2, <1>3, <1>4, <1>5, <1>6, <1>7, <1>8, <1>9, <1>10, <1>11, <1>12
        DEF Next, DriverStep, DeviceStep

LEMMA TypeStep ==
  ASSUME OneLap, VringInv, [Next]_vringVars
  PROVE  TypeOK'
<1>0. TypeOK /\ PartitionInv'
  BY DescriptorsStep DEF VringInv
<1>1. /\ next' \in [Descs -> Descs] /\ more' \in [Descs -> BOOLEAN]
      /\ free_head_' \in Descs /\ free_count_' \in Nat
  BY <1>0 DEF PartitionInv, Partition
<1>2. /\ receive' = receive /\ receive' \in BOOLEAN /\ MaxUsed' = MaxUsed
  <2>1. CASE UNCHANGED descVars
    BY <1>0, <2>1 DEF descVars, TypeOK, MaxUsed
  <2>2. CASE \E n \in 1 .. MaxChain : Send(n)
    BY <1>0, <2>2 DEF Send, TypeOK, MaxUsed
  <2>3. CASE FillRxRing \/ Consume
    BY <1>0, <2>3 DEF FillRxRing, Consume, TypeOK, MaxUsed
  <2> QED BY <2>1, <2>2, <2>3 DEF Next, DriverStep, DeviceStep, SendAborts, Notify,
     Interrupt, Poll, Rearm, Recheck, DeviceTake, DeviceDrained, DeviceArm,
     DeviceRecheck, DeviceKicked, DeviceUse, DeviceSignal, vringVars, driverVars
<1>3. 1 \in 0 .. IndexRange - 1
  BY Bounds
<1>4. ASSUME NEW n \in 1 .. MaxChain, Send(n)
      PROVE  TypeOK'
  <2>1. free_count_' <= qsize
    BY <1>4, Types, Bounds, VringAssumption DEF VringInv, Send
  <2>2. avail_idx' \in Indices
    BY <1>3, <1>4, Types, PlusIs DEF VringInv, Send
  <2>3. avail_ring' \in [Descs -> Descs]
    BY <1>0, <1>4 DEF TypeOK, Send
  <2>4. orig_idx' \in Indices /\ free_count_' \in 0 .. qsize
    BY <1>1, <1>4, <2>1, Types, Bounds DEF VringInv, Send
  <2>5. pc' = "notify"
        /\ UNCHANGED <<receive, next, used_event, used_index, buf_references_,
                       deviceVars, irq, kick>>
    BY <1>4 DEF Send
  <2> QED BY <1>0, <1>1, <1>2, <2>2, <2>3, <2>4, <2>5 DEF TypeOK, deviceVars
<1>5. ASSUME NEW n \in 1 .. MaxChain, SendAborts(n)
      PROVE  TypeOK'
  BY <1>0, <1>1, <1>2, <1>5 DEF TypeOK, SendAborts, deviceVars, descVars
<1>6. CASE FillRxRing
  <2>1. CASE free_count_ * 2 >= qsize
    <3>1. /\ AddWritableBuffers /\ pc' = "notify"
          /\ UNCHANGED <<receive, next, used_event, used_index, buf_references_,
                         deviceVars, irq, kick>>
      BY <1>6, <2>1 DEF FillRxRing
    <3>2. free_count_ \in 0 .. IndexRange - 1 /\ avail_idx \in Indices
      BY Types, Bounds DEF VringInv
    <3>3. avail_idx' \in Indices /\ orig_idx' \in Indices /\ free_count_' = 0
      BY <3>1, <3>2, PlusIs DEF AddWritableBuffers
    <3>4. avail_ring' \in [Descs -> Descs]
      <4> DEFINE n == free_count_
                 At(e) == CHOOSE i \in 0 .. (n - 1) : Plus(avail_idx, i) % qsize = e
      <4>1. avail_ring' = [e \in Descs |->
              IF \E i \in 0 .. (n - 1) : Plus(avail_idx, i) % qsize = e
              THEN Walk(next, free_head_, At(e)) ELSE avail_ring[e]]
        BY <3>1, SameWalks DEF AddWritableBuffers
      <4>2. ASSUME NEW e \in Descs,
                   \E i \in 0 .. (n - 1) : Plus(avail_idx, i) % qsize = e
            PROVE  Walk(next, free_head_, At(e)) \in Descs
        <5>1. At(e) \in 0 .. (n - 1)
          BY <4>2
        <5> HIDE DEF At
        <5>2. At(e) \in Nat
          BY <5>1, <3>2
        <5> QED BY <5>2, <1>0, WalkFacts DEF TypeOK
      <4> HIDE DEF At, n
      <4> QED BY <1>0, <4>1, <4>2 DEF TypeOK
    <3> QED BY <1>0, <1>1, <1>2, <3>1, <3>3, <3>4, Bounds DEF TypeOK, deviceVars
  <2>2. CASE ~ (free_count_ * 2 >= qsize)
    BY <1>0, <1>1, <1>2, <1>6, <2>2 DEF TypeOK, FillRxRing, deviceVars
  <2> QED BY <2>1, <2>2
<1>7. CASE Notify
  <2>1. orig_idx % qsize \in Descs
    BY Types, Bounds, Division DEF VringInv, Descs
  <2>2. buf_references_' \subseteq Descs
    BY <1>0, <1>7, <2>1 DEF TypeOK, Notify
  <2>3. kick' \in BOOLEAN
    BY <1>0, <1>7 DEF TypeOK, Notify, MustKick
  <2> QED BY <1>0, <1>1, <1>2, <1>7, <2>2, <2>3 DEF TypeOK, Notify, deviceVars, descVars
<1>8. CASE Interrupt
  BY <1>0, <1>1, <1>2, <1>8 DEF TypeOK, Interrupt, deviceVars, descVars
<1>9. CASE Poll
  BY <1>0, <1>1, <1>2, <1>9 DEF TypeOK, Poll, deviceVars, descVars
<1>10. CASE Rearm
  BY <1>0, <1>1, <1>2, <1>10 DEF TypeOK, Rearm, deviceVars, descVars
<1>11. CASE Recheck
  BY <1>0, <1>1, <1>2, <1>11 DEF TypeOK, Recheck, AfterLoop, deviceVars, descVars
<1>12. CASE Consume
  <2>1. free_count_' \in 0 .. qsize /\ used_index' = used_index + 1
    BY <1>12, ConsumeStep
  <2>2. used_index' \in Indices
    BY <1>3, <1>12, Types, PlusIs DEF VringInv, Consume
  <2>3. buf_references_' \subseteq Descs
    BY <1>0, <1>12 DEF TypeOK, Consume
  <2> QED BY <1>0, <1>1, <1>2, <1>12, <2>1, <2>2, <2>3 DEF TypeOK, Consume, deviceVars
<1>13. CASE DeviceTake
  <2>1. last_avail % qsize \in Descs
    BY Types, Bounds, Division DEF VringInv, Descs
  <2>2. inflight' \subseteq Descs
    BY <1>0, <1>13, <2>1 DEF TypeOK, DeviceTake
  <2>3. last_avail' \in Indices
    BY <1>3, <1>13, Types, PlusIs DEF VringInv, DeviceTake
  <2> QED BY <1>0, <1>1, <1>2, <1>13, <2>2, <2>3 DEF TypeOK, DeviceTake, driverVars, descVars
<1>14. CASE DeviceDrained
  BY <1>0, <1>1, <1>2, <1>14 DEF TypeOK, DeviceDrained, driverVars, descVars
<1>15. CASE DeviceArm
  BY <1>0, <1>1, <1>2, <1>15 DEF TypeOK, DeviceArm, driverVars, descVars
<1>16. CASE DeviceRecheck
  BY <1>0, <1>1, <1>2, <1>16 DEF TypeOK, DeviceRecheck, driverVars, descVars
<1>17. CASE DeviceKicked
  BY <1>0, <1>1, <1>2, <1>17 DEF TypeOK, DeviceKicked, driverVars, descVars
<1>18. CASE DeviceUse
  <2>0. PICK h \in inflight :
          /\ inflight' = inflight \ {h}
          /\ used_ring' = [used_ring EXCEPT ![used_idx % qsize] = h]
    BY <1>18 DEF DeviceUse
  <2>1. used_ring' \in [Descs -> Descs] /\ inflight' \subseteq Descs
    BY <1>0, <2>0 DEF TypeOK
  <2>2. used_idx' \in Indices
    BY <1>3, <1>18, Types, PlusIs DEF VringInv, DeviceUse
  <2>3. gave' \in 0 .. MaxUsed
    BY <1>0, <1>18, VringAssumption DEF TypeOK, DeviceUse, MaxUsed
  <2> QED BY <1>0, <1>1, <1>2, <1>18, <2>1, <2>2, <2>3 DEF TypeOK, DeviceUse, driverVars, descVars
<1>19. CASE DeviceSignal
  <2>1. irq' \in BOOLEAN
    BY <1>0, <1>19 DEF TypeOK, DeviceSignal
  <2> QED BY <1>0, <1>1, <1>2, <1>19, <2>1 DEF TypeOK, DeviceSignal, driverVars, descVars
<1>20. CASE UNCHANGED vringVars
  BY <1>0, <1>1, <1>2, <1>20 DEF TypeOK, vringVars, driverVars, deviceVars, descVars
<1> QED BY <1>4, <1>5, <1>6, <1>7, <1>8, <1>9, <1>10, <1>11, <1>12, <1>13, <1>14, <1>15,
           <1>16, <1>17, <1>18, <1>19, <1>20 DEF Next, DriverStep, DeviceStep

LEMMA RingStep ==
  ASSUME OneLap, VringInv, [Next]_vringVars
  PROVE  RingInv'
<1>0. /\ RingInv /\ {used_idx, used_event, used_index, signalled} \subseteq Nat
      /\ used_idx \in Indices /\ gave \in 0 .. MaxUsed
  BY Types DEF VringInv, TypeOK
<1>1. CASE DeviceUse
  <2>1. /\ gave < MaxUsed /\ gave' = gave + 1 /\ used_idx' = Plus(used_idx, 1)
        /\ UNCHANGED <<used_event, used_index, pc, signalled>>
    BY <1>1 DEF DeviceUse, driverVars
  <2>2. used_idx < qsize
    BY <1>0, <2>1, VringAssumption DEF RingInv, OneLap, MaxUsed
  <2>3. used_idx' = used_idx + 1
    BY <1>0, <2>1, <2>2, PlusIs, Bounds
  <2> QED BY <1>0, <2>1, <2>2, <2>3, Bounds DEF RingInv
<1>2. CASE DeviceSignal
  BY <1>0, <1>2 DEF RingInv, DeviceSignal, driverVars
<1>3. CASE Consume
  <2>1. used_index' = used_index + 1
    BY <1>3, ConsumeStep
  <2>2. /\ pc = "consume" /\ pc' = "poll"
        /\ UNCHANGED <<used_event, used_idx, signalled, gave>>
    BY <1>3 DEF Consume, deviceVars
  <2> QED BY <1>0, <2>1, <2>2 DEF RingInv
<1>4. CASE Interrupt
  BY <1>0, <1>4 DEF RingInv, Interrupt, deviceVars
<1>5. CASE Poll
  BY <1>0, <1>5 DEF RingInv, Poll, deviceVars
<1>6. CASE Rearm
  BY <1>0, <1>6 DEF RingInv, Rearm, deviceVars
<1>7. CASE Recheck
  BY <1>0, <1>7 DEF RingInv, Recheck, AfterLoop, deviceVars
<1>8. CASE /\ UNCHANGED <<used_event, used_index, used_idx, signalled, gave>>
           /\ pc' = pc \/ pc' \in {"idle", "notify", "abort"}
  BY <1>0, <1>8 DEF RingInv
<1> QED BY <1>1, <1>2, <1>3, <1>4, <1>5, <1>6, <1>7, <1>8 DEF Next, DriverStep,
    DeviceStep, Send, SendAborts, FillRxRing, AddWritableBuffers, Notify, DeviceTake,
    DeviceDrained, DeviceArm, DeviceRecheck, DeviceKicked, vringVars, driverVars,
    deviceVars

LEMMA WakeStep ==
  ASSUME OneLap, VringInv, [Next]_vringVars
  PROVE  WakeInv'
<1>0. /\ RingInv /\ WakeInv
      /\ {used_idx, used_event, used_index, signalled} \subseteq Nat
      /\ used_idx \in Indices /\ used_event \in Indices /\ signalled \in Indices
  BY Types DEF VringInv
<1>1. CASE DeviceSignal
  <2>1. /\ signalled # used_idx /\ signalled' = used_idx
        /\ irq' = (irq \/ Minus(used_idx, Plus(used_event, 1)) < Minus(used_idx, signalled))
        /\ used_event' = used_event /\ pc' = pc
    BY <1>1 DEF DeviceSignal, driverVars
  <2> SUFFICES ASSUME ~ irq', pc \in {"idle", "refill", "notify"}
               PROVE  used_idx <= used_event
    BY <2>1 DEF WakeInv
  <2>2. ~ irq /\ ~ (Minus(used_idx, Plus(used_event, 1)) < Minus(used_idx, signalled))
    BY <2>1
  <2>3. signalled <= used_event /\ used_event <= used_idx
    BY <1>0, <2>2 DEF WakeInv, RingInv
  <2>4. Minus(used_idx, signalled) = used_idx - signalled
    BY <1>0, <2>3, MinusIs
  <2> SUFFICES ASSUME used_event < used_idx PROVE FALSE
    BY <1>0
  <2>5. used_event # used_idx /\ Minus(used_idx, used_event) = used_idx - used_event
    BY <1>0, <2>3, MinusIs
  <2>6. Minus(used_idx, Plus(used_event, 1)) = used_idx - used_event - 1
    BY <1>0, <2>5, MinusNext
  <2> QED BY <1>0, <2>2, <2>3, <2>4, <2>6
<1>2. CASE Recheck
  <2>1. /\ pc = "recheck" /\ UNCHANGED <<used_event, signalled>>
        /\ pc' = IF used_index = used_idx THEN AfterLoop ELSE "consume"
    BY <1>2 DEF Recheck, deviceVars
  <2>2. used_event = used_index /\ signalled <= used_idx
    BY <1>0, <2>1 DEF RingInv
  <2> QED BY <2>1, <2>2 DEF WakeInv
<1>3. CASE Interrupt \/ Poll \/ Rearm \/ Consume
  BY <1>3 DEF WakeInv, Interrupt, Poll, Rearm, Consume
<1>4. CASE FillRxRing \/ Notify \/ \E n \in 1 .. MaxChain : Send(n)
  <2>1. UNCHANGED <<signalled, used_event, irq>> /\ pc \in {"idle", "refill", "notify"}
    BY <1>4 DEF Send, FillRxRing, Notify, deviceVars
  <2> QED BY <1>0, <2>1 DEF WakeInv
<1>5. ASSUME NEW n \in 1 .. MaxChain, SendAborts(n)
      PROVE  WakeInv'
  BY <1>5 DEF SendAborts, WakeInv
<1>6. CASE UNCHANGED <<signalled, used_event, irq, pc>>
  BY <1>0, <1>6 DEF WakeInv
<1> QED BY <1>1, <1>2, <1>3, <1>4, <1>5, <1>6 DEF Next, DriverStep, DeviceStep,
    DeviceTake, DeviceDrained, DeviceArm, DeviceRecheck, DeviceKicked, DeviceUse,
    vringVars, driverVars, deviceVars

\* The load of avail_event sees where the device went to sleep.
LEMMA KickIsSeen ==
  ASSUME VringInv, pc = "notify", device = "asleep", last_avail = orig_idx
  PROVE  MustKick
<1>1. /\ avail_event = orig_idx /\ orig_idx # avail_idx
      /\ orig_idx \in Indices /\ avail_idx \in Indices
  BY Types DEF VringInv, NotifyInv
<1>2. Minus(avail_idx, Plus(avail_event, 1)) = Minus(avail_idx, orig_idx) - 1
  BY <1>1, MinusNext
<1>3. Minus(avail_idx, orig_idx) \in Nat
  BY <1>1, MinusIs, Bounds
<1> QED BY <1>2, <1>3 DEF MustKick

LEMMA NotifyStep ==
  ASSUME OneLap, VringInv, [Next]_vringVars
  PROVE  NotifyInv'
<1>0. NotifyInv
  BY DEF VringInv
<1>1. ASSUME NEW n \in 1 .. MaxChain, Send(n)
      PROVE  NotifyInv'
  <2>1. /\ pc = "idle" /\ pc' = "notify" /\ orig_idx' = avail_idx
        /\ avail_idx' = Plus(avail_idx, 1)
        /\ UNCHANGED <<device, kick, avail_event, last_avail>>
    BY <1>1 DEF Send, deviceVars
  <2>2. avail_idx # Plus(avail_idx, 1)
    <3>1. avail_idx \in Indices
      BY Types DEF VringInv
    <3>2. Minus(avail_idx, Plus(avail_idx, 1)) = IndexRange - 1
          /\ Minus(avail_idx, avail_idx) = 0
      BY <3>1, MinusNext
    <3> QED BY <3>2, Bounds
  <2> QED BY <1>0, <2>1, <2>2 DEF NotifyInv
<1>2. CASE FillRxRing
  <2>1. CASE free_count_ * 2 >= qsize
    <3>1. orig_idx' # avail_idx'
      BY <1>2, <2>1, FillStep
    <3>2. /\ pc = "refill" /\ pc' = "notify" /\ orig_idx' = avail_idx
          /\ UNCHANGED <<device, kick, avail_event, last_avail>>
      BY <1>2, <2>1 DEF FillRxRing, AddWritableBuffers, deviceVars
    <3> QED BY <1>0, <3>1, <3>2 DEF NotifyInv
  <2>2. CASE ~ (free_count_ * 2 >= qsize)
    BY <1>0, <1>2, <2>2 DEF NotifyInv, FillRxRing, deviceVars
  <2> QED BY <2>1, <2>2
<1>3. CASE Notify
  <2>1. /\ pc = "notify" /\ pc' = "idle" /\ kick' = (kick \/ MustKick)
        /\ UNCHANGED <<device, avail_event, last_avail, avail_idx>>
    BY <1>3 DEF Notify, deviceVars
  <2>2. ASSUME device = "asleep", ~ kick'
        PROVE  last_avail = avail_idx
    <3>1. ~ kick /\ ~ MustKick
      BY <2>1, <2>2
    <3>2. last_avail \in {orig_idx, avail_idx}
      BY <1>0, <2>1, <2>2, <3>1 DEF NotifyInv
    <3>3. last_avail # orig_idx
      BY <2>1, <2>2, <3>1, KickIsSeen
    <3> QED BY <3>2, <3>3
  <2> QED BY <1>0, <2>1, <2>2 DEF NotifyInv
<1>4. CASE /\ UNCHANGED <<device, kick, avail_event, last_avail, avail_idx, orig_idx>>
           /\ pc' = pc \/ (pc # "notify" /\ pc' # "notify")
  BY <1>0, <1>4 DEF NotifyInv
<1>5. CASE Interrupt \/ Poll \/ Rearm \/ Recheck \/ Consume
  <2>1. /\ UNCHANGED <<device, kick, avail_event, last_avail, avail_idx, orig_idx>>
        /\ pc # "notify" /\ pc' # "notify"
    BY <1>5 DEF Interrupt, Poll, Rearm, Recheck, AfterLoop, Consume, deviceVars
  <2> QED BY <2>1, <1>4
<1>6. CASE DeviceTake \/ DeviceDrained
  BY <1>0, <1>6 DEF NotifyInv, DeviceTake, DeviceDrained, driverVars
<1>7. CASE DeviceArm
  BY <1>0, <1>7 DEF NotifyInv, DeviceArm, driverVars
<1>8. CASE DeviceRecheck
  BY <1>0, <1>8 DEF NotifyInv, DeviceRecheck, driverVars
<1>9. CASE DeviceKicked
  BY <1>0, <1>9 DEF NotifyInv, DeviceKicked, driverVars
<1> QED BY <1>1, <1>2, <1>3, <1>4, <1>5, <1>6, <1>7, <1>8, <1>9 DEF Next, DriverStep,
    DeviceStep, SendAborts, DeviceUse, DeviceSignal, vringVars, driverVars, deviceVars

LEMMA InvStep == OneLap /\ VringInv /\ [Next]_vringVars => VringInv'
BY TypeStep, DescriptorsStep, RingStep, NotifyStep, WakeStep DEF VringInv

\* The constructor's list has every descriptor once.
LEMMA FreshList ==
  ASSUME NEW f, f = [d \in Descs |-> IF d = qsize - 1 THEN 0 ELSE d + 1],
         NEW i \in 0 .. qsize - 1
  PROVE  f \in [Descs -> Descs] /\ Walk(f, 0, i) = i
<1>1. f \in [Descs -> Descs] /\ 0 \in Descs
  BY Bounds DEF Descs
<1> DEFINE T == {k \in Nat : k < qsize /\ Walk(f, 0, k) # k}
<1>0. i \in Nat /\ i < qsize
  BY Bounds
<1> SUFFICES ASSUME T # {} PROVE FALSE
  <2>1. T = {} => Walk(f, 0, i) = i
    BY <1>0
  <2> QED BY <1>1, <2>1
<1>2. PICK t \in T : \A u \in T : t <= u
  BY Least
<1>3. t # 0
  <2>1. Walk(f, 0, 0) = 0
    BY <1>1, WalkFacts
  <2> QED BY <2>1, <1>2
<1>4. t - 1 \in Nat /\ t - 1 \notin T /\ (t - 1) + 1 = t /\ t - 1 \in Descs
      /\ t - 1 # qsize - 1 /\ t - 1 < qsize
  BY <1>2, <1>3, Bounds DEF Descs
<1>5. Walk(f, 0, t - 1) = t - 1
  BY <1>4
<1>6. Walk(f, 0, (t - 1) + 1) = f[Walk(f, 0, t - 1)]
  BY <1>1, <1>4, WalkFacts
<1> QED BY <1>2, <1>4, <1>5, <1>6

LEMMA InvInit == Init => VringInv
<1> SUFFICES ASSUME Init PROVE VringInv
  OBVIOUS
<1>0. 0 \in Descs /\ 0 \in Indices /\ qsize \in Nat /\ 0 <= qsize
  BY Bounds DEF Descs, Indices
<1>1. TypeOK
  <2>1. next \in [Descs -> Descs]
    BY FreshList, Bounds DEF Init, Descs
  <2>2. gave \in 0 .. MaxUsed
    BY VringAssumption DEF Init, MaxUsed
  <2>3. {avail_idx, avail_event, used_idx, used_event, used_index, orig_idx,
         last_avail, signalled} \subseteq Indices
    BY <1>0 DEF Init
  <2>4. receive \in BOOLEAN /\ more \in [Descs -> BOOLEAN]
    BY VringAssumption DEF Init
  <2>5. /\ free_head_ \in Descs /\ free_count_ \in 0 .. qsize
        /\ avail_ring \in [Descs -> Descs] /\ used_ring \in [Descs -> Descs]
    BY <1>0 DEF Init
  <2>6. /\ pc \in {"refill", "idle"} /\ buf_references_ = {} /\ inflight = {}
        /\ irq \in BOOLEAN /\ kick \in BOOLEAN /\ device = "asleep"
    BY DEF Init
  <2> QED BY <2>1, <2>2, <2>3, <2>4, <2>5, <2>6 DEF TypeOK
<1>2. Pending = 0
  BY <1>0, MinusIs DEF Init, Pending
<1>3. Processed = 0
  BY DEF Init, Processed
<1>4. Out = {}
  <2>1. 0 .. Pending - 1 = {} /\ Processed .. used_idx - 1 = {} /\ inflight = {}
    BY <1>2, <1>3 DEF Init
  <2> QED BY <2>1 DEF Out
<1>5. HeadsInv
  <2>1. 0 .. Pending - 1 = {} /\ Processed .. used_idx - 1 = {}
    BY <1>2, <1>3 DEF Init
  <2> QED BY <2>1, <1>0, <1>2 DEF HeadsInv
<1>6. PartitionInv
  <2>1. ASSUME NEW i \in 0 .. qsize - 1
        PROVE  Walk(next, free_head_, i) = i
    BY FreshList DEF Init
  <2>2. Injective(next, free_head_, free_count_)
    BY <2>1 DEF Init, Injective
  <2>3. \A x \in Descs : x \in Nodes(next, free_head_, free_count_)
    BY <2>1 DEF Init, Nodes, Descs
  <2> QED BY <1>1, <1>4, <2>2, <2>3, Bounds DEF PartitionInv, Partition, TypeOK, Init
<1>7. RingInv
  BY <1>0 DEF RingInv, Init
<1>8. NotifyInv
  BY DEF NotifyInv, Init
<1>9. WakeInv
  BY DEF WakeInv, Init
<1>10. BuffersInv
  BY <1>4 DEF BuffersInv, Init
<1> QED BY <1>1, <1>5, <1>6, <1>7, <1>8, <1>9, <1>10 DEF VringInv

\* The inductive invariant: each descriptor free once or in one chain, each
\* head in one place between the two rings, the bounds of the indices of the
\* used ring, and where the event indices stand while one side has announced
\* that it will not look again.
THEOREM VringInvariant == OneLap => (Spec => []VringInv)
<1> SUFFICES ASSUME OneLap PROVE Spec => []VringInv
  OBVIOUS
<1>1. Init => VringInv
  BY InvInit
<1>2. VringInv /\ [Next]_vringVars => VringInv'
  BY InvStep
<1> QED BY <1>1, <1>2, PTL DEF Spec

\* On the first lap of the used ring no descriptor is lost, free twice or free
\* while the device has it, and exactly the buffers of the chains given away
\* are kept (add_readable_buffer, add_writable_buffers, process_used_buffers,
\* clean_used_buffers).
THEOREM DescriptorsAlwaysPartitioned == OneLap => (Spec => []DescriptorsPartitioned)
<1> SUFFICES ASSUME OneLap PROVE Spec => []DescriptorsPartitioned
  OBVIOUS
<1>1. VringInv => DescriptorsPartitioned
  BY InvImpliesPartitioned
<1>2. Spec => []VringInv
  BY VringInvariant
<1> QED BY <1>1, <1>2, PTL

\* Neither side sleeps on what the other has published: the kick and the
\* interrupt are lost in no order of the four steps.
THEOREM NeverLosesWakeup == OneLap => (Spec => []NoLostWakeup)
<1> SUFFICES ASSUME OneLap PROVE Spec => []NoLostWakeup
  OBVIOUS
<1>1. VringInv => NoLostWakeup
  BY InvImpliesNoLostWakeup
<1>2. Spec => []VringInv
  BY VringInvariant
<1> QED BY <1>1, <1>2, PTL

-----------------------------------------------------------------------------
(* The timers: powers of two, as numbers of subsets, and SetTimer's halving *)

\* A set with one more element has twice as many subsets.
LEMMA SubsetsDouble ==
  ASSUME NEW S, IsFiniteSet(S), NEW x, x \notin S
  PROVE  Cardinality(SUBSET (S \cup {x})) = 2 * Cardinality(SUBSET S)
<1> DEFINE With == {T \cup {x} : T \in SUBSET S}
           f == [T \in SUBSET S |-> T \cup {x}]
<1>1. IsFiniteSet(SUBSET S) /\ Cardinality(SUBSET S) \in Nat
  BY FS_SUBSET, FS_CardinalityType
<1>2. f \in Bijection(SUBSET S, With)
  <2>1. f \in [SUBSET S -> With]
    OBVIOUS
  <2>2. ASSUME NEW T \in SUBSET S, NEW U \in SUBSET S, f[T] = f[U]
        PROVE  T = U
    BY <2>2
  <2>3. \A W \in With : \E T \in SUBSET S : f[T] = W
    OBVIOUS
  <2> HIDE DEF f, With
  <2>4. QED
    BY <2>1, <2>2, <2>3 DEF Bijection, Injection, Surjection, IsInjective
<1>3. IsFiniteSet(With) /\ Cardinality(With) = Cardinality(SUBSET S)
  <2>1. ExistsBijection(SUBSET S, With)
    BY <1>2 DEF ExistsBijection
  <2>2. QED
    BY <1>1, <2>1, FS_Bijection
<1>4. (SUBSET S) \cap With = {}
  OBVIOUS
<1>5. SUBSET (S \cup {x}) = (SUBSET S) \cup With
  <2>1. ASSUME NEW T \in SUBSET (S \cup {x}), T \notin SUBSET S
        PROVE  T \in With
    <3>1. T \ {x} \in SUBSET S /\ T = (T \ {x}) \cup {x}
      BY <2>1
    <3>2. QED
      BY <3>1
  <2>2. (SUBSET S) \cup With \subseteq SUBSET (S \cup {x})
    OBVIOUS
  <2>3. QED
    BY <2>1, <2>2
<1>6. Cardinality((SUBSET S) \cap With) = 0
  BY <1>4, FS_EmptySet
<1> HIDE DEF With
<1>7. Cardinality((SUBSET S) \cup With)
        = Cardinality(SUBSET S) + Cardinality(With) - Cardinality((SUBSET S) \cap With)
  BY <1>1, <1>3, FS_Union
<1>8. Cardinality((SUBSET S) \cup With) = 2 * Cardinality(SUBSET S)
  BY <1>1, <1>3, <1>6, <1>7
<1>9. QED
  BY <1>5, <1>8, Zenon

LEMMA PowerFacts ==
  ASSUME NEW k \in Nat
  PROVE  2^k \in Nat /\ 2^k > 0 /\ 2^(k + 1) = 2 * 2^k
<1>1. IsFiniteSet(1 .. k) /\ Cardinality(1 .. k) = k
  BY FS_Interval
<1>2. IsFiniteSet(1 .. (k + 1)) /\ Cardinality(1 .. (k + 1)) = k + 1
  BY FS_Interval
<1>3. 1 .. (k + 1) = (1 .. k) \cup {k + 1} /\ k + 1 \notin 1 .. k
  OBVIOUS
<1>4. 2^k = Cardinality(SUBSET (1 .. k)) /\ 2^(k + 1) = Cardinality(SUBSET (1 .. (k + 1)))
  BY <1>1, <1>2, FS_SUBSET
<1>5. 2^k \in Nat
  BY <1>1, <1>4, FS_SUBSET, FS_CardinalityType
<1>6. 2^k # 0
  BY <1>1, <1>4, FS_SUBSET, FS_EmptySet
<1>7. 2^(k + 1) = 2 * 2^k
  BY <1>1, <1>3, <1>4, SubsetsDouble
<1>8. QED
  BY <1>5, <1>6, <1>7

LEMMA PowerZero == 2^0 = 1
<1>1. IsFiniteSet({}) /\ Cardinality({}) = 0
  BY FS_EmptySet
<1>2. 2^0 = Cardinality(SUBSET {})
  BY <1>1, FS_SUBSET
<1>3. SUBSET {} = {{}}
  OBVIOUS
<1>4. Cardinality({{}}) = 1
  BY FS_Singleton
<1> QED BY <1>2, <1>3, <1>4

\* The least number of halvings after which n fits the register.
LEMMA PowerAbove ==
  ASSUME NEW k \in Nat
  PROVE  k < 2^k
<1> DEFINE T == {i \in Nat : ~ (i < 2^i)}
<1>0. \A i \in Nat : 2^i \in Nat /\ 2^i > 0 /\ 2^(i + 1) = 2 * 2^i
  BY PowerFacts
<1>1. SUFFICES ASSUME T # {} PROVE FALSE
  OBVIOUS
<1>2. PICK t \in T : \A u \in T : t <= u
  <2>1. T \in SUBSET Nat
    OBVIOUS
  <2> HIDE DEF T
  <2> QED BY <1>1, <2>1, Least
<1>3. t \in Nat /\ ~ (t < 2^t) /\ t # 0
  BY <1>0
<1>4. t - 1 \in Nat /\ t - 1 < 2^(t - 1)
  BY <1>2, <1>3
<1>5. 2^t = 2 * 2^(t - 1) /\ 2^(t - 1) \in Nat
  <2>1. (t - 1) + 1 = t
    BY <1>3
  <2>2. 2^((t - 1) + 1) = 2 * 2^(t - 1)
    BY <1>0, <1>4
  <2> QED BY <1>0, <1>4, <2>1, <2>2
<1> QED BY <1>3, <1>4, <1>5

\* SetTimer's loop ends, and at least one tick is left of a positive time.
LEMMA ShiftsFacts ==
  ASSUME NEW us \in Nat
  PROVE  /\ us * Us \in Nat
         /\ Shifts(us) \in 0 .. us * Us
         /\ us * Us > 0 => (us * Us) \div 2^Shifts(us) > 0
<1> DEFINE n == us * Us
           Fits(s) == n \div 2^s <= MaxCount
           T == {s \in Nat : Fits(s)}
<1>0. Us \in Nat /\ MaxCount \in Nat /\ MaxCount > 0 /\ n \in Nat
  BY TimerAssumption
<1>1. \A s \in Nat : n \div 2^s \in Nat
  <2> HIDE DEF n
  <2> SUFFICES ASSUME NEW s \in Nat PROVE n \div 2^s \in Nat
    OBVIOUS
  <2>1. PICK p \in Nat \ {0} : p = 2^s
    BY PowerFacts
  <2> QED BY <1>0, <2>1, Division
<1>2. n \in T
  <2> HIDE DEF n
  <2>1. PICK p \in Nat \ {0} : p = 2^n
    BY <1>0, PowerFacts
  <2>2. n < p
    BY <1>0, <2>1, PowerAbove
  <2>3. n = p * 0 + n /\ n \in 0 .. p - 1
    BY <1>0, <2>2
  <2>4. n \div p \in Nat /\ n % p \in 0 .. p - 1 /\ n = p * (n \div p) + (n % p)
    BY <1>0, Division
  <2>5. n \div p = 0
    BY <1>0, <2>3, <2>4, DivisionIsUnique
  <2> QED BY <1>0, <2>1, <2>5
<1>3. PICK t \in T : \A u \in T : t <= u
  <2>1. T \in SUBSET Nat /\ T # {}
    BY <1>2
  <2> HIDE DEF T
  <2> QED BY <2>1, Least
<1>4. t \in Nat /\ t <= n /\ Fits(t) /\ \A r \in Nat : r < t => ~ Fits(r)
  BY <1>0, <1>2, <1>3
<1>5. \A r \in 0 .. (t - 1) : n \div 2^r > MaxCount
  BY <1>0, <1>1, <1>4
<1>6. \E s \in 0 .. n : /\ n \div 2^s <= MaxCount
                        /\ \A r \in 0 .. (s - 1) : n \div 2^r > MaxCount
  BY <1>0, <1>4, <1>5
<1>7. PICK s \in 0 .. n : /\ s = Shifts(us)
                          /\ n \div 2^s <= MaxCount
                          /\ \A r \in 0 .. (s - 1) : n \div 2^r > MaxCount
  BY <1>6 DEF Shifts
<1>8. ASSUME n > 0 PROVE n \div 2^s > 0
  <2> HIDE DEF n
  <2>0. s \in Nat
    BY <1>0
  <2>1. CASE s = 0
    <3>1. n \div 1 = n
      BY <1>0
    <3> QED BY <1>8, <2>1, <3>1, PowerZero
  <2>2. CASE s > 0
    <3>1. s - 1 \in Nat /\ s - 1 \in 0 .. (s - 1) /\ (s - 1) + 1 = s
      BY <2>0, <2>2
    <3>2. PICK p \in Nat \ {0} : p = 2^(s - 1)
      BY <3>1, PowerFacts
    <3>3. 2^s = 2 * p
      <4>1. 2^((s - 1) + 1) = 2 * 2^(s - 1)
        BY <3>1, PowerFacts
      <4> QED BY <3>1, <3>2, <4>1
    <3>4. PICK q \in Nat : q = n \div p
      BY <1>0, Division
    <3>5. q >= 2
      <4>1. n \div 2^(s - 1) > MaxCount
        BY <1>7, <3>1
      <4> QED BY <1>0, <3>2, <3>4, <4>1
    <3>6. n >= p * q
      <4>1. n % p \in 0 .. p - 1 /\ n = p * (n \div p) + (n % p)
        BY <1>0, Division
      <4>2. PICK z \in Nat : z = p * q
        OBVIOUS
      <4>3. PICK r \in Nat : r = n % p
        BY <4>1
      <4>4. n = z + r
        BY <3>4, <4>1, <4>2, <4>3
      <4> QED BY <4>2, <4>4
    <3>7. p * q >= p * 2
      <4>1. q - 2 \in Nat
        BY <3>5
      <4>2. p * (q - 2) \in Nat
        BY <4>1
      <4>3. p * (q - 2) = p * q - p * 2
        BY <4>1
      <4> QED BY <4>2, <4>3
    <3>8. n >= 2 * p
      BY <1>0, <3>6, <3>7
    <3>9. PICK d \in Nat \ {0} : d = 2 * p
      OBVIOUS
    <3>10. n \div d # 0
      <4>1. n % d \in 0 .. d - 1 /\ n = d * (n \div d) + (n % d)
        BY <1>0, Division
      <4>2. n \div d = 0 => n = n % d
        BY <1>0, <4>1
      <4> QED BY <1>0, <3>8, <3>9, <4>1, <4>2
    <3>11. n \div d \in Nat
      BY <1>0, Division
    <3> QED BY <3>3, <3>9, <3>10, <3>11
  <2> QED BY <2>0, <2>1, <2>2
<1> QED BY <1>0, <1>7, <1>8

\* The timer is set to run out no later than asked.
LEMMA CountFacts ==
  ASSUME NEW us \in Nat
  PROVE  /\ us * Us \in Nat
         /\ ((us * Us) \div 2^Shifts(us)) * 2^Shifts(us) \in 0 .. us * Us
         /\ us * Us > 0 => ((us * Us) \div 2^Shifts(us)) * 2^Shifts(us) > 0
<1>0. us * Us \in Nat /\ Shifts(us) \in Nat
  BY ShiftsFacts
<1>1. PICK n \in Nat : n = us * Us
  BY <1>0
<1>2. PICK p \in Nat \ {0} : p = 2^Shifts(us)
  BY <1>0, PowerFacts
<1>3. PICK q \in Nat : q = n \div p
  BY Division
<1>4. PICK r \in Nat : r = n % p
  BY Division
<1>5. n = p * q + r
  BY <1>3, <1>4, Division
<1>6. q * p \in Nat /\ q * p = p * q
  OBVIOUS
<1>7. q * p <= n
  BY <1>5, <1>6
<1>8. n > 0 => q > 0
  BY <1>1, <1>2, <1>3, ShiftsFacts
<1>9. q > 0 => q * p > 0
  OBVIOUS
<1> QED BY <1>1, <1>2, <1>3, <1>6, <1>7, <1>8, <1>9

-----------------------------------------------------------------------------
(* The timers: what emplace does to the multimap *)

Entry == [id : Timers, due : 0 .. MaxInterval, interval : Intervals]

LEMMA IntervalFacts ==
  /\ MaxInterval \in Intervals
  /\ \A n \in Intervals : n \in Nat /\ n > 0 /\ n <= MaxInterval
<1>1. PICK m \in Timeouts : \A n \in Timeouts : n <= m
  BY TimerAssumption
<1>2. Timeouts \subseteq Nat \ {0} /\ Us \in Nat \ {0}
  BY TimerAssumption
<1>3. ASSUME NEW a \in Timeouts
      PROVE  a * Us \in Nat /\ a * Us > 0 /\ a * Us <= m * Us
  <2>1. m - a \in Nat /\ a - 1 \in Nat /\ a \in Nat /\ m \in Nat
    BY <1>1, <1>2
  <2>2. (m - a) * Us \in Nat /\ (a - 1) * Us \in Nat
    BY <1>2, <2>1
  <2>3. (m - a) * Us = m * Us - a * Us /\ (a - 1) * Us = a * Us - Us
    BY <1>2, <2>1
  <2>4. a * Us \in Int /\ m * Us \in Int
    BY <1>2, <2>1
  <2> QED BY <1>2, <2>2, <2>3, <2>4
<1>4. m * Us \in Intervals /\ \A n \in Intervals : n <= m * Us
  BY <1>3 DEF Intervals
<1>5. MaxInterval \in Intervals /\ \A n \in Intervals : n <= MaxInterval
  BY <1>4 DEF MaxInterval
<1>6. \A n \in Intervals : n \in Nat /\ n > 0
  BY <1>3 DEF Intervals
<1> QED BY <1>5, <1>6

LEMMA UpperBoundFacts ==
  ASSUME NEW m \in Seq(Entry), NEW due \in Nat
  PROVE  /\ UpperBound(m, due) \in 1 .. Len(m) + 1
         /\ \A i \in 1 .. UpperBound(m, due) - 1 : m[i].due <= due
         /\ UpperBound(m, due) <= Len(m) => m[UpperBound(m, due)].due > due
<1> DEFINE T == {i \in Nat : i \in 1 .. Len(m) /\ m[i].due > due} \cup {Len(m) + 1}
<1>0. Len(m) \in Nat /\ \A i \in 1 .. Len(m) : m[i].due \in Int
  <2>1. \A i \in 1 .. Len(m) : m[i] \in Entry
    OBVIOUS
  <2>2. \A e \in Entry : e.due \in Int
    BY IntervalFacts DEF Entry
  <2> QED BY <2>1, <2>2
<1>1. PICK t \in T : \A u \in T : t <= u
  <2>1. T \in SUBSET Nat /\ T # {}
    BY <1>0
  <2> HIDE DEF T
  <2> QED BY <2>1, Least
<1>2. t \in 1 .. Len(m) + 1 /\ (t <= Len(m) => m[t].due > due)
  BY <1>0
<1>3. ASSUME NEW i \in 1 .. t - 1 PROVE m[i].due <= due
  <2>1. i \in 1 .. Len(m) /\ i \in Nat /\ i < t
    BY <1>0, <1>2
  <2>2. i \notin T
    <3> HIDE DEF T
    <3> QED BY <1>0, <1>1, <1>2, <2>1
  <2> QED BY <1>0, <2>1, <2>2
<1> HIDE DEF T
<1>4. \E p \in 1 .. Len(m) + 1 : /\ \A i \in 1 .. p - 1 : m[i].due <= due
                                 /\ p <= Len(m) => m[p].due > due
  BY <1>2, <1>3
<1> QED BY <1>4 DEF UpperBound

LEMMA EmplaceFacts ==
  ASSUME NEW m \in Seq(Entry), NEW e \in Entry
  PROVE  \E p \in 1 .. Len(m) + 1 :
           /\ p = UpperBound(m, e.due)
           /\ Emplace(m, e) \in Seq(Entry)
           /\ Len(Emplace(m, e)) = Len(m) + 1
           /\ \A i \in 1 .. p - 1 : i \in 1 .. Len(m) /\ Emplace(m, e)[i] = m[i]
           /\ Emplace(m, e)[p] = e
           /\ \A i \in p + 1 .. Len(m) + 1 :
                i - 1 \in 1 .. Len(m) /\ Emplace(m, e)[i] = m[i - 1]
<1>0. e.due \in Nat
  BY IntervalFacts DEF Entry
<1>1. PICK p \in 1 .. Len(m) + 1 : p = UpperBound(m, e.due)
  BY <1>0, UpperBoundFacts
<1> DEFINE A == SubSeq(m, 1, p - 1)
           B == SubSeq(m, p, Len(m))
<1>2. Len(m) \in Nat
  OBVIOUS
<1>3. /\ A \in Seq(Entry) /\ Len(A) = p - 1
      /\ \A i \in 1 .. p - 1 : A[i] = m[i]
  BY <1>2
<1>4. /\ B \in Seq(Entry) /\ Len(B) = Len(m) - p + 1
      /\ \A i \in 1 .. Len(m) - p + 1 : B[i] = m[p + i - 1]
  BY <1>2
<1>5. Emplace(m, e) = A \o <<e>> \o B
  BY <1>1 DEF Emplace
<1> HIDE DEF A, B
<1>6. /\ A \o <<e>> \in Seq(Entry) /\ Len(A \o <<e>>) = p
      /\ \A i \in 1 .. p - 1 : (A \o <<e>>)[i] = A[i]
      /\ (A \o <<e>>)[p] = e
  BY <1>2, <1>3
<1>7. PICK C \in Seq(Entry) : C = A \o <<e>>
  BY <1>6
<1>8. /\ C \o B \in Seq(Entry) /\ Len(C \o B) = Len(m) + 1
      /\ \A i \in 1 .. p : (C \o B)[i] = C[i]
      /\ \A i \in p + 1 .. Len(m) + 1 : (C \o B)[i] = B[i - p]
  <2>1. PICK D \in Seq(Entry) : D = B
    BY <1>4
  <2>2. Len(C) = p /\ Len(D) = Len(m) - p + 1 /\ p \in Nat
    BY <1>2, <1>4, <1>6, <1>7, <2>1
  <2>3. C \o D \in Seq(Entry) /\ Len(C \o D) = Len(C) + Len(D)
    OBVIOUS
  <2>4. \A i \in 1 .. Len(C) + Len(D) :
          (C \o D)[i] = IF i <= Len(C) THEN C[i] ELSE D[i - Len(C)]
    OBVIOUS
  <2> QED BY <1>2, <2>1, <2>2, <2>3, <2>4
<1>9. \A i \in p + 1 .. Len(m) + 1 :
        i - 1 \in 1 .. Len(m) /\ B[i - p] = m[i - 1]
  <2> SUFFICES ASSUME NEW i \in p + 1 .. Len(m) + 1
               PROVE  i - 1 \in 1 .. Len(m) /\ B[i - p] = m[i - 1]
    OBVIOUS
  <2>1. i - p \in 1 .. Len(m) - p + 1 /\ p + (i - p) - 1 = i - 1
    BY <1>2
  <2>2. B[i - p] = m[p + (i - p) - 1]
    BY <1>4, <2>1
  <2> QED BY <1>2, <2>1, <2>2
<1>10. \A i \in 1 .. p - 1 : i \in 1 .. Len(m) /\ (C \o B)[i] = m[i]
  BY <1>2, <1>3, <1>6, <1>7, <1>8
<1>11. (C \o B)[p] = e
  BY <1>2, <1>6, <1>7, <1>8
<1>12. Emplace(m, e) = C \o B
  BY <1>5, <1>7
<1>13. \A i \in p + 1 .. Len(m) + 1 :
         i - 1 \in 1 .. Len(m) /\ (C \o B)[i] = m[i - 1]
  BY <1>8, <1>9
<1>14. C \o B \in Seq(Entry) /\ Len(C \o B) = Len(m) + 1
  BY <1>8
<1> QED BY <1>1, <1>10, <1>11, <1>12, <1>13, <1>14, Zenon

\* In the order of their due times; each timer once; each timer's next call
\* an interval after the last one.
Sorted(m) == \A i, j \in 1 .. Len(m) : i <= j => m[i].due <= m[j].due
Once(m) == \A i, j \in 1 .. Len(m) : m[i].id = m[j].id => i = j
Spaced(m, s) == \A i \in 1 .. Len(m) : s[m[i].id] + m[i].due >= m[i].interval

LEMMA FieldFacts ==
  ASSUME NEW e \in Entry
  PROVE  e.id \in Timers /\ e.due \in Nat /\ e.due <= MaxInterval /\ e.interval \in Intervals
BY IntervalFacts DEF Entry

LEMMA EntryFacts ==
  ASSUME NEW m \in Seq(Entry)
  PROVE  /\ Len(m) \in Nat
         /\ \A i \in 1 .. Len(m) :
              /\ m[i] \in Entry /\ m[i].id \in Timers
              /\ m[i].due \in Nat /\ m[i].due <= MaxInterval
              /\ m[i].interval \in Intervals
<1>1. \A i \in 1 .. Len(m) : m[i] \in Entry
  OBVIOUS
<1> QED BY <1>1, FieldFacts

LEMMA EmplaceElements ==
  ASSUME NEW m \in Seq(Entry), NEW e \in Entry,
         NEW i \in 1 .. Len(Emplace(m, e))
  PROVE  Emplace(m, e)[i] = e \/ \E j \in 1 .. Len(m) : Emplace(m, e)[i] = m[j]
<1>1. PICK p \in 1 .. Len(m) + 1 :
        /\ Len(Emplace(m, e)) = Len(m) + 1
        /\ \A k \in 1 .. p - 1 : k \in 1 .. Len(m) /\ Emplace(m, e)[k] = m[k]
        /\ Emplace(m, e)[p] = e
        /\ \A k \in p + 1 .. Len(m) + 1 :
             k - 1 \in 1 .. Len(m) /\ Emplace(m, e)[k] = m[k - 1]
  BY EmplaceFacts
<1>2. i \in 1 .. p - 1 \/ i = p \/ i \in p + 1 .. Len(m) + 1
  BY <1>1, EntryFacts
<1> QED BY <1>1, <1>2

\* The first is the new one exactly if Start finds it due before the others.
LEMMA EmplaceFirst ==
  ASSUME NEW m \in Seq(Entry), NEW e \in Entry
  PROVE  /\ Len(Emplace(m, e)) = Len(m) + 1
         /\ m = <<>> \/ m[1].due > e.due => Emplace(m, e)[1] = e
         /\ m # <<>> /\ ~ (m[1].due > e.due) => Emplace(m, e)[1] = m[1]
<1>0. /\ Len(m) \in Nat /\ e.due \in Nat /\ (m = <<>> <=> Len(m) = 0)
      /\ \A i \in 1 .. Len(m) : m[i].due \in Nat
  <2>1. m = <<>> <=> Len(m) = 0
    OBVIOUS
  <2>2. e.due \in Nat
    BY FieldFacts
  <2> QED BY <2>1, <2>2, EntryFacts
<1>1. PICK p \in 1 .. Len(m) + 1 :
        /\ p = UpperBound(m, e.due)
        /\ Len(Emplace(m, e)) = Len(m) + 1
        /\ \A k \in 1 .. p - 1 : k \in 1 .. Len(m) /\ Emplace(m, e)[k] = m[k]
        /\ Emplace(m, e)[p] = e
  BY EmplaceFacts
<1>2. /\ \A i \in 1 .. p - 1 : m[i].due <= e.due
      /\ p <= Len(m) => m[p].due > e.due
  BY <1>0, <1>1, UpperBoundFacts
<1>3. ASSUME m = <<>> \/ m[1].due > e.due PROVE p = 1
  BY <1>0, <1>2, <1>3
<1>4. ASSUME m # <<>>, ~ (m[1].due > e.due) PROVE 1 \in 1 .. p - 1
  BY <1>0, <1>2, <1>4
<1> QED BY <1>1, <1>3, <1>4

LEMMA EmplaceSorted ==
  ASSUME NEW m \in Seq(Entry), NEW e \in Entry, Sorted(m)
  PROVE  Sorted(Emplace(m, e))
<1>0. Len(m) \in Nat /\ e.due \in Nat /\ \A i \in 1 .. Len(m) : m[i].due \in Nat
  <2>1. e.due \in Nat
    BY FieldFacts
  <2> QED BY <2>1, EntryFacts
<1>1. PICK p \in 1 .. Len(m) + 1 :
        /\ p = UpperBound(m, e.due)
        /\ Len(Emplace(m, e)) = Len(m) + 1
        /\ \A k \in 1 .. p - 1 : k \in 1 .. Len(m) /\ Emplace(m, e)[k] = m[k]
        /\ Emplace(m, e)[p] = e
        /\ \A k \in p + 1 .. Len(m) + 1 :
             k - 1 \in 1 .. Len(m) /\ Emplace(m, e)[k] = m[k - 1]
  BY EmplaceFacts
<1>2. /\ \A i \in 1 .. p - 1 : m[i].due <= e.due
      /\ p <= Len(m) => m[p].due > e.due
  BY <1>0, <1>1, UpperBoundFacts
<1>3. \A i \in p .. Len(m) : m[i].due > e.due
  <2> SUFFICES ASSUME NEW i \in p .. Len(m) PROVE m[i].due > e.due
    OBVIOUS
  <2>1. p \in 1 .. Len(m) /\ i \in 1 .. Len(m) /\ p <= i
    BY <1>0
  <2>2. m[p].due <= m[i].due
    BY <2>1 DEF Sorted
  <2> QED BY <1>0, <1>2, <2>1, <2>2
<1>4. PICK M : M = Emplace(m, e)
  OBVIOUS
<1> SUFFICES ASSUME NEW i \in 1 .. Len(m) + 1, NEW j \in 1 .. Len(m) + 1, i <= j
             PROVE  M[i].due <= M[j].due
  BY <1>1, <1>4 DEF Sorted
<1>5. CASE j <= p - 1
  <2>1. i \in 1 .. Len(m) /\ j \in 1 .. Len(m) /\ M[i] = m[i] /\ M[j] = m[j]
    BY <1>0, <1>1, <1>4, <1>5
  <2> QED BY <2>1 DEF Sorted
<1>6. CASE j = p
  <2>1. M[j] = e /\ (i = j \/ i \in 1 .. p - 1)
    BY <1>0, <1>1, <1>4, <1>6
  <2>2. i \in 1 .. p - 1 => M[i] = m[i] /\ m[i].due <= e.due
    BY <1>1, <1>2, <1>4
  <2> QED BY <1>0, <2>1, <2>2
<1>7. CASE j >= p + 1
  <2>1. j - 1 \in 1 .. Len(m) /\ M[j] = m[j - 1] /\ j - 1 \in p .. Len(m)
    BY <1>0, <1>1, <1>4, <1>7
  <2>2. CASE i <= p - 1
    <3>1. i \in 1 .. Len(m) /\ M[i] = m[i] /\ i <= j - 1
      BY <1>0, <1>1, <1>4, <1>7, <2>2
    <3> QED BY <2>1, <3>1 DEF Sorted
  <2>3. CASE i = p
    <3>1. M[i] = e /\ m[j - 1].due > e.due
      BY <1>1, <1>3, <1>4, <2>1, <2>3
    <3> QED BY <1>0, <2>1, <3>1
  <2>4. CASE i >= p + 1
    <3>1. i - 1 \in 1 .. Len(m) /\ M[i] = m[i - 1] /\ i - 1 <= j - 1
      BY <1>0, <1>1, <1>4, <2>4
    <3> QED BY <2>1, <3>1 DEF Sorted
  <2> QED BY <1>0, <2>2, <2>3, <2>4
<1> QED BY <1>0, <1>5, <1>6, <1>7

LEMMA EmplaceOnce ==
  ASSUME NEW m \in Seq(Entry), NEW e \in Entry, Once(m),
         \A i \in 1 .. Len(m) : m[i].id # e.id
  PROVE  Once(Emplace(m, e))
<1>0. Len(m) \in Nat
  BY EntryFacts
<1>1. PICK p \in 1 .. Len(m) + 1 :
        /\ Len(Emplace(m, e)) = Len(m) + 1
        /\ \A k \in 1 .. p - 1 : k \in 1 .. Len(m) /\ Emplace(m, e)[k] = m[k]
        /\ Emplace(m, e)[p] = e
        /\ \A k \in p + 1 .. Len(m) + 1 :
             k - 1 \in 1 .. Len(m) /\ Emplace(m, e)[k] = m[k - 1]
  BY EmplaceFacts
<1>2. PICK M : M = Emplace(m, e)
  OBVIOUS
<1>3. PICK from : from = [k \in 1 .. Len(m) + 1 |-> IF k < p THEN k ELSE k - 1]
  OBVIOUS
<1>4. ASSUME NEW k \in 1 .. Len(m) + 1, k # p
      PROVE  from[k] \in 1 .. Len(m) /\ M[k] = m[from[k]]
  <2>1. k \in 1 .. p - 1 \/ k \in p + 1 .. Len(m) + 1
    BY <1>0, <1>4
  <2>2. CASE k \in 1 .. p - 1
    <3>1. from[k] = k
      BY <1>0, <1>3, <2>2
    <3> QED BY <1>1, <1>2, <2>2, <3>1
  <2>3. CASE k \in p + 1 .. Len(m) + 1
    <3>1. from[k] = k - 1
      BY <1>0, <1>3, <2>3
    <3> QED BY <1>1, <1>2, <2>3, <3>1
  <2> QED BY <2>1, <2>2, <2>3
<1>5. ASSUME NEW i \in 1 .. Len(m) + 1, NEW j \in 1 .. Len(m) + 1,
             i # p, j # p, from[i] = from[j]
      PROVE  i = j
  BY <1>0, <1>3, <1>5
<1> SUFFICES ASSUME NEW i \in 1 .. Len(m) + 1, NEW j \in 1 .. Len(m) + 1,
                    M[i].id = M[j].id
             PROVE  i = j
  BY <1>1, <1>2 DEF Once
<1>6. M[p].id = e.id
  BY <1>1, <1>2
<1>7. CASE i = p \/ j = p
  BY <1>4, <1>6, <1>7
<1>8. CASE i # p /\ j # p
  <2>1. from[i] = from[j]
    BY <1>4, <1>8 DEF Once
  <2> QED BY <1>5, <1>8, <2>1
<1> QED BY <1>7, <1>8

-----------------------------------------------------------------------------
(* The timers: the invariants and their proofs *)

\* The inductive invariant.
TimerInv ==
  /\ TimerTypeOK
  /\ Sorted(timers_) /\ Once(timers_) /\ Spaced(timers_, since)

\* ArmedForFirst without the types.
Armed ==
  stage = "idle" /\ timers_ # <<>> =>
    \/ timer_irq
    \/ count > 0 /\ count <= timers_[1].due
    \/ count = 0 /\ timers_[1].due < Us /\ truncated

LEMMA TimerTypes ==
  ASSUME TimerTypeOK
  PROVE  /\ timers_ \in Seq(Entry) /\ count \in Nat /\ count <= MaxInterval
         /\ MaxInterval \in Nat
BY IntervalFacts DEF TimerTypeOK, Entry

LEMMA SetTimerTypes ==
  ASSUME NEW us \in Nat, us * Us <= MaxInterval, SetTimer(us)
  PROVE  count' \in 0 .. MaxInterval /\ divider' \in -1 .. MaxInterval
<1>1. PICK s \in Nat : s = Shifts(us) /\ s <= us * Us
  BY ShiftsFacts
<1>2. PICK c \in Nat : c = ((us * Us) \div 2^Shifts(us)) * 2^Shifts(us) /\ c <= us * Us
  BY CountFacts
<1>3. divider' = s - 1 /\ count' = c
  BY <1>1, <1>2 DEF SetTimer
<1>4. us * Us \in Nat /\ MaxInterval \in Nat
  BY ShiftsFacts, IntervalFacts
<1> QED BY <1>1, <1>2, <1>3, <1>4

\* What Start puts in, and what a timer is in its turn put back as.
LEMMA NewEntry ==
  ASSUME NEW t \in Timers, NEW timeout \in Timeouts
  PROVE  /\ timeout \in Nat /\ timeout * Us \in Intervals
         /\ timeout * Us \in 0 .. MaxInterval /\ timeout * Us > 0
         /\ [id |-> t, due |-> timeout * Us, interval |-> timeout * Us] \in Entry
<1>1. timeout * Us \in Intervals /\ timeout \in Nat
  BY TimerAssumption DEF Intervals
<1>2. timeout * Us \in 0 .. MaxInterval /\ timeout * Us > 0
  BY <1>1, IntervalFacts
<1> QED BY <1>1, <1>2 DEF Entry

LEMMA TailFacts ==
  ASSUME NEW m \in Seq(Entry), m # <<>>, Sorted(m), Once(m)
  PROVE  /\ Tail(m) \in Seq(Entry) /\ Len(Tail(m)) \in Nat
         /\ Sorted(Tail(m)) /\ Once(Tail(m)) /\ m[1] \in Entry
         /\ \A i \in 1 .. Len(Tail(m)) :
              i + 1 \in 1 .. Len(m) /\ Tail(m)[i] = m[i + 1] /\ Tail(m)[i].id # m[1].id
<1>1. Len(m) \in Nat \ {0}
  OBVIOUS
<1>2. PICK M \in Seq(Entry) : M = Tail(m)
  <2>1. Tail(m) \in Seq(Entry)
    BY <1>1
  <2> QED BY <2>1
<1>3. Len(M) = Len(m) - 1 /\ \A i \in 1 .. Len(m) - 1 : M[i] = m[i + 1]
  BY <1>1, <1>2
<1>4. \A i \in 1 .. Len(M) : i + 1 \in 1 .. Len(m) /\ M[i] = m[i + 1]
  BY <1>1, <1>3
<1>5. \A i \in 1 .. Len(M) : M[i].id # m[1].id
  <2> SUFFICES ASSUME NEW i \in 1 .. Len(M), M[i].id = m[1].id PROVE FALSE
    OBVIOUS
  <2>1. i + 1 \in 1 .. Len(m) /\ 1 \in 1 .. Len(m) /\ m[i + 1].id = m[1].id
    BY <1>1, <1>4
  <2>2. i + 1 = 1
    BY <2>1 DEF Once
  <2> QED BY <2>2
<1>6. Sorted(M)
  <2> SUFFICES ASSUME NEW i \in 1 .. Len(M), NEW j \in 1 .. Len(M), i <= j
               PROVE  M[i].due <= M[j].due
    BY DEF Sorted
  <2>1. i + 1 \in 1 .. Len(m) /\ j + 1 \in 1 .. Len(m) /\ i + 1 <= j + 1
    BY <1>4
  <2> QED BY <1>4, <2>1 DEF Sorted
<1>7. Once(M)
  <2> SUFFICES ASSUME NEW i \in 1 .. Len(M), NEW j \in 1 .. Len(M), M[i].id = M[j].id
               PROVE  i = j
    BY DEF Once
  <2>1. i + 1 \in 1 .. Len(m) /\ j + 1 \in 1 .. Len(m) /\ m[i + 1].id = m[j + 1].id
    BY <1>4
  <2>2. i + 1 = j + 1
    BY <2>1 DEF Once
  <2> QED BY <2>2
<1>8. m[1] \in Entry
  BY <1>1
<1> QED BY <1>2, <1>3, <1>4, <1>5, <1>6, <1>7, <1>8

\* A timer that is put in with its interval to go and called, or started, now.
LEMMA SpacedStep ==
  ASSUME NEW m \in Seq(Entry), NEW e \in Entry, e.due = e.interval,
         NEW s \in [Timers -> 0 .. MaxInterval],
         \A i \in 1 .. Len(m) : m[i].id # e.id, Spaced(m, s)
  PROVE  Spaced(Emplace(m, e), [s EXCEPT ![e.id] = 0])
<1>1. PICK M : M = Emplace(m, e)
  OBVIOUS
<1>2. PICK r : r = [s EXCEPT ![e.id] = 0]
  OBVIOUS
<1>3. r[e.id] = 0 /\ \A t \in Timers : t # e.id => r[t] = s[t]
  BY <1>2, FieldFacts
<1> SUFFICES ASSUME NEW i \in 1 .. Len(M)
             PROVE  r[M[i].id] + M[i].due >= M[i].interval
  BY <1>1, <1>2 DEF Spaced
<1>4. CASE M[i] = e
  <2>1. e.interval \in Nat
    BY FieldFacts, IntervalFacts
  <2> QED BY <1>3, <1>4, <2>1
<1>5. CASE \E j \in 1 .. Len(m) : M[i] = m[j]
  <2> PICK j \in 1 .. Len(m) : M[i] = m[j]
    BY <1>5
  <2>1. r[m[j].id] = s[m[j].id]
    BY <1>3, EntryFacts
  <2> QED BY <2>1 DEF Spaced
<1> QED BY <1>1, <1>4, <1>5, EmplaceElements

LEMMA TimerInvInit == TimerInit => TimerInv /\ Armed
<1> SUFFICES ASSUME TimerInit PROVE TimerInv /\ Armed
  OBVIOUS
<1>1. MaxInterval \in Nat
  BY IntervalFacts
<1>2. TimerTypeOK
  <2>1. timers_ \in Seq(Entry)
    BY DEF TimerInit
  <2>2. since \in [Timers -> 0 .. MaxInterval]
    BY <1>1 DEF TimerInit
  <2>3. count \in 0 .. MaxInterval /\ divider \in -1 .. MaxInterval
    BY <1>1 DEF TimerInit
  <2> QED BY <2>1, <2>2, <2>3 DEF TimerInit, TimerTypeOK, Entry
<1>3. Len(timers_) = 0 /\ Armed
  BY DEF TimerInit, Armed
<1>4. Sorted(timers_) /\ Once(timers_) /\ Spaced(timers_, since)
  BY <1>3 DEF Sorted, Once, Spaced
<1> QED BY <1>2, <1>3, <1>4 DEF TimerInv

LEMMA StartStep ==
  ASSUME TimerInv, NEW t \in Timers, NEW timeout \in Timeouts, Start(t, timeout)
  PROVE  TimerInv'
<1> DEFINE e == [id |-> t, due |-> timeout * Us, interval |-> timeout * Us]
<1>1. timers_ \in Seq(Entry) /\ e \in Entry
  BY TimerTypes, NewEntry DEF TimerInv
<1>2. \A i \in 1 .. Len(timers_) : timers_[i].id # e.id
  BY DEF Start, StartedTimers
<1>3. timers_' = Emplace(timers_, e) /\ since' = [since EXCEPT ![e.id] = 0]
  BY DEF Start
<1>4. since \in [Timers -> 0 .. MaxInterval]
  BY DEF TimerInv, TimerTypeOK
<1>5. e.due = e.interval /\ e.id = t
  OBVIOUS
<1>6. count' \in 0 .. MaxInterval /\ divider' \in -1 .. MaxInterval
  <2>1. CASE NeedsSetting(timeout * Us)
    <3>1. SetTimer(timeout) /\ timeout \in Nat /\ timeout * Us <= MaxInterval
      BY <2>1, NewEntry DEF Start
    <3> QED BY <3>1, SetTimerTypes
  <2>2. CASE ~ NeedsSetting(timeout * Us)
    BY <2>2 DEF Start, TimerInv, TimerTypeOK
  <2> QED BY <2>1, <2>2
<1> HIDE DEF e
<1>7. /\ Emplace(timers_, e) \in Seq(Entry) /\ Sorted(Emplace(timers_, e))
      /\ Once(Emplace(timers_, e))
  <2>1. Emplace(timers_, e) \in Seq(Entry)
    BY <1>1, EmplaceFacts
  <2> QED BY <1>1, <1>2, <2>1, EmplaceSorted, EmplaceOnce DEF TimerInv
<1>8. Spaced(Emplace(timers_, e), [since EXCEPT ![e.id] = 0])
  BY <1>1, <1>2, <1>4, <1>5, SpacedStep DEF TimerInv
<1>9. since' \in [Timers -> 0 .. MaxInterval]
  <2>1. 0 \in 0 .. MaxInterval
    BY IntervalFacts
  <2> QED BY <1>3, <1>4, <2>1
<1>10. TimerTypeOK'
  BY <1>3, <1>6, <1>7, <1>9 DEF TimerInv, TimerTypeOK, Start, Entry
<1> QED BY <1>3, <1>7, <1>8, <1>10 DEF TimerInv

LEMMA FireStep ==
  ASSUME TimerInv, HandlerFire
  PROVE  TimerInv' /\ since[calling'] >= timers_[1].interval /\ calling' = timers_[1].id
<1>1. timers_ \in Seq(Entry) /\ timers_ # <<>> /\ Sorted(timers_) /\ Once(timers_)
      /\ since \in [Timers -> 0 .. MaxInterval]
  BY TimerTypes DEF TimerInv, TimerTypeOK, HandlerFire
<1>2. 1 \in 1 .. Len(timers_) /\ timers_[1] \in Entry /\ timers_[1].due = 0
  BY <1>1 DEF HandlerFire
<1>3. PICK first \in Entry : first = timers_[1]
  BY <1>2
<1> DEFINE e == [first EXCEPT !.due = first.interval]
           m == Tail(timers_)
<1>4. e \in Entry /\ e.due = e.interval /\ e.id = first.id
  <2>1. first.interval \in 0 .. MaxInterval
    BY FieldFacts, IntervalFacts
  <2> QED BY <2>1 DEF Entry
<1>5. timers_' = Emplace(m, e) /\ since' = [since EXCEPT ![e.id] = 0] /\ calling' = first.id
  BY <1>3, <1>4 DEF HandlerFire, NextDue
<1>6. /\ m \in Seq(Entry) /\ Sorted(m) /\ Once(m)
      /\ \A i \in 1 .. Len(m) :
           i + 1 \in 1 .. Len(timers_) /\ m[i] = timers_[i + 1] /\ m[i].id # e.id
  BY <1>1, <1>3, <1>4, TailFacts
<1>7. Spaced(m, since)
  BY <1>6 DEF TimerInv, Spaced
<1> HIDE DEF e, m
<1>8. Emplace(m, e) \in Seq(Entry) /\ Sorted(Emplace(m, e)) /\ Once(Emplace(m, e))
  <2>1. Emplace(m, e) \in Seq(Entry)
    BY <1>4, <1>6, EmplaceFacts
  <2> QED BY <1>4, <1>6, <2>1, EmplaceSorted, EmplaceOnce
<1>9. Spaced(Emplace(m, e), [since EXCEPT ![e.id] = 0])
  BY <1>1, <1>4, <1>6, <1>7, SpacedStep
<1>10. since' \in [Timers -> 0 .. MaxInterval] /\ first.id \in Timers
  <2>1. 0 \in 0 .. MaxInterval
    BY IntervalFacts
  <2> QED BY <1>1, <1>5, <2>1, FieldFacts
<1>11. TimerTypeOK'
  BY <1>5, <1>8, <1>10 DEF TimerInv, TimerTypeOK, HandlerFire, Entry
<1>12. since[first.id] >= first.interval
  <2>1. since[timers_[1].id] + timers_[1].due >= timers_[1].interval
    BY <1>2 DEF TimerInv, Spaced
  <2>2. since[first.id] \in Int
    BY <1>1, <1>10
  <2> QED BY <1>2, <1>3, <2>1, <2>2
<1> QED BY <1>3, <1>5, <1>8, <1>9, <1>11, <1>12 DEF TimerInv

LEMMA TickStep ==
  ASSUME TimerInv, Tick
  PROVE  TimerInv'
<1>1. timers_ \in Seq(Entry) /\ since \in [Timers -> 0 .. MaxInterval]
      /\ count \in 0 .. MaxInterval
  BY TimerTypes DEF TimerInv, TimerTypeOK
<1>2. PICK m \in Seq(Entry) : m = timers_
  BY <1>1
<1>3. PICK M : M = timers_'
  OBVIOUS
<1>4. PICK r : r = since'
  OBVIOUS
<1>5. M = [i \in 1 .. Len(m) |->
             [m[i] EXCEPT !.due = IF m[i].due = 0 THEN 0 ELSE m[i].due - 1]]
  BY <1>2, <1>3 DEF Tick
<1>6. ASSUME NEW i \in 1 .. Len(m)
      PROVE  /\ M[i] \in Entry /\ M[i].id = m[i].id /\ M[i].interval = m[i].interval
             /\ M[i].due = IF m[i].due = 0 THEN 0 ELSE m[i].due - 1
  <2>1. PICK e \in Entry : e = m[i]
    BY EntryFacts
  <2>2. M[i] = [e EXCEPT !.due = IF e.due = 0 THEN 0 ELSE e.due - 1]
    BY <1>5, <2>1
  <2>3. PICK d \in 0 .. MaxInterval : d = IF e.due = 0 THEN 0 ELSE e.due - 1
    BY FieldFacts, IntervalFacts
  <2> QED BY <2>1, <2>2, <2>3 DEF Entry
<1>7. M \in Seq(Entry) /\ Len(M) = Len(m) /\ Len(m) \in Nat
  <2>1. Len(m) \in Nat
    OBVIOUS
  <2>2. DOMAIN M = 1 .. Len(m) /\ M \in [1 .. Len(m) -> Entry]
    BY <1>5, <1>6
  <2> QED BY <2>1, <2>2
<1>8. Sorted(M)
  <2> SUFFICES ASSUME NEW i \in 1 .. Len(m), NEW j \in 1 .. Len(m), i <= j
               PROVE  M[i].due <= M[j].due
    BY <1>7 DEF Sorted
  <2>1. m[i].due <= m[j].due /\ m[i].due \in Nat /\ m[j].due \in Nat
    BY <1>2, EntryFacts DEF TimerInv, Sorted
  <2> QED BY <1>6, <2>1
<1>9. Once(M)
  BY <1>2, <1>6, <1>7 DEF TimerInv, Once
<1>10. /\ r \in [Timers -> 0 .. MaxInterval]
       /\ \A t \in Timers : r[t] = MaxInterval \/ r[t] = since[t] + 1
  <2>1. r = [t \in Timers |-> Bounded(since[t] + 1)]
    BY <1>4 DEF Tick
  <2>2. \A t \in Timers : since[t] \in 0 .. MaxInterval
    BY <1>1
  <2>3. \A t \in Timers : Bounded(since[t] + 1) \in 0 .. MaxInterval
                          /\ (\/ Bounded(since[t] + 1) = MaxInterval
                              \/ Bounded(since[t] + 1) = since[t] + 1)
    <3> TAKE t \in Timers
    <3>1. PICK n \in Nat : n = MaxInterval
      BY IntervalFacts
    <3>2. PICK w \in 0 .. n : w = since[t]
      BY <2>2, <3>1
    <3>3. Bounded(w + 1) = IF w + 1 > n THEN n ELSE w + 1
      BY <3>1 DEF Bounded
    <3> QED BY <3>1, <3>2, <3>3
  <2> QED BY <2>1, <2>3
<1>11. Spaced(M, r)
  <2> SUFFICES ASSUME NEW i \in 1 .. Len(m)
               PROVE  r[M[i].id] + M[i].due >= M[i].interval
    BY <1>7 DEF Spaced
  <2>1. /\ m[i].id \in Timers /\ m[i].due \in Nat
        /\ m[i].interval \in Nat /\ m[i].interval <= MaxInterval
    BY EntryFacts, IntervalFacts
  <2>2. since[m[i].id] + m[i].due >= m[i].interval
    BY <1>2 DEF TimerInv, Spaced
  <2>3. since[m[i].id] \in Nat /\ MaxInterval \in Nat
    BY <1>1, <2>1, IntervalFacts
  <2>4. PICK d \in Nat : d = m[i].due
    BY <2>1
  <2>5. PICK v \in Nat : v = m[i].interval /\ v <= MaxInterval
    BY <2>1
  <2>6. M[i].interval = v /\ M[i].due = (IF d = 0 THEN 0 ELSE d - 1) /\ M[i].id = m[i].id
    BY <1>6, <2>4, <2>5
  <2>7. PICK w \in Nat : w = since[m[i].id] /\ w + d >= v
    BY <2>2, <2>3, <2>4, <2>5
  <2>8. r[m[i].id] = MaxInterval \/ r[m[i].id] = w + 1
    BY <1>10, <2>1, <2>7
  <2>9. PICK x \in Nat : x = r[m[i].id] /\ (x = MaxInterval \/ x = w + 1)
    <3>1. PICK x : x = r[m[i].id]
      OBVIOUS
    <3>2. x = MaxInterval \/ x = w + 1
      BY <2>8, <3>1
    <3>3. x \in Nat
      BY <2>3, <3>2
    <3> QED BY <3>1, <3>2, <3>3
  <2>10. PICK y \in Nat : y = (IF d = 0 THEN 0 ELSE d - 1) /\ y + 1 >= d
    OBVIOUS
  <2>11. x >= v \/ x = w + 1
    BY <2>5, <2>9
  <2>12. x + y >= v
    BY <2>7, <2>10, <2>11
  <2> QED BY <2>6, <2>9, <2>10, <2>12
<1>12. count' \in 0 .. MaxInterval /\ timer_irq' \in BOOLEAN
  BY <1>1, IntervalFacts DEF Tick, TimerInv, TimerTypeOK
<1>13. TimerTypeOK'
  BY <1>3, <1>4, <1>7, <1>10, <1>12 DEF Tick, TimerInv, TimerTypeOK, Entry
<1> QED BY <1>3, <1>4, <1>8, <1>9, <1>11, <1>13 DEF TimerInv

\* Steps that leave the list alone.
LEMMA OtherStep ==
  ASSUME TimerInv,
         \/ \E timeout \in Timeouts : StartTooLong(timeout)
         \/ HandlerEnter \/ CallbackReturns \/ HandlerLeave
  PROVE  TimerInv' /\ timers_' = timers_ /\ stage' # "callback"
<1>1. CASE \E timeout \in Timeouts : StartTooLong(timeout)
  <2> PICK timeout \in Timeouts : StartTooLong(timeout)
    BY <1>1
  <2>1. divider' = Shifts(timeout) - 1 /\ stage' = "abort"
        /\ UNCHANGED <<timers_, count, timer_irq, calling, since, truncated>>
    BY DEF StartTooLong, SetTimerAborts
  <2>2. PICK u \in Nat : u = timeout * Us /\ u <= MaxInterval /\ timeout \in Nat
    BY TimerAssumption, IntervalFacts DEF Intervals
  <2>3. Shifts(timeout) \in 0 .. u
    BY <2>2, ShiftsFacts
  <2>4. divider' \in -1 .. MaxInterval
    BY <2>1, <2>2, <2>3, IntervalFacts
  <2> QED BY <2>1, <2>4 DEF TimerInv, TimerTypeOK
<1>2. CASE HandlerEnter
  BY <1>2 DEF HandlerEnter, TimerInv, TimerTypeOK
<1>3. CASE CallbackReturns
  BY <1>3 DEF CallbackReturns, TimerInv, TimerTypeOK
<1>4. CASE HandlerLeave
  <2>1. timers_ \in Seq(Entry) /\ timers_ # <<>>
    BY <1>4, TimerTypes DEF TimerInv, HandlerLeave
  <2>2. 1 \in 1 .. Len(timers_)
    BY <2>1
  <2>3. PICK d \in Nat : d = timers_[1].due /\ d <= MaxInterval
    BY <2>1, <2>2, EntryFacts
  <2>4. PICK us \in Nat : us = ToMicroseconds(d) /\ us * Us <= d
    <3>1. Us \in Nat \ {0}
      BY TimerAssumption
    <3>2. d \div Us \in Nat /\ d % Us \in 0 .. Us - 1 /\ d = Us * (d \div Us) + (d % Us)
      BY <3>1, Division
    <3>3. PICK us \in Nat : us = d \div Us
      BY <3>2
    <3>4. us * Us = Us * us /\ us * Us \in Nat
      BY <3>1
    <3>5. us * Us <= d
      BY <3>1, <3>2, <3>3, <3>4
    <3> QED BY <3>3, <3>5 DEF ToMicroseconds
  <2>5. us * Us <= MaxInterval
    BY <2>3, <2>4, ShiftsFacts, IntervalFacts
  <2>6. count' \in 0 .. MaxInterval /\ divider' \in -1 .. MaxInterval
    BY <1>4, <2>3, <2>4, <2>5, SetTimerTypes DEF HandlerLeave
  <2> QED BY <1>4, <2>6 DEF HandlerLeave, TimerInv, TimerTypeOK
<1> QED BY <1>1, <1>2, <1>3, <1>4

LEMMA TimerStep ==
  ASSUME TimerInv, [TimerNext]_timerVars
  PROVE  TimerInv'
<1>1. CASE \E t \in Timers, timeout \in Timeouts : Start(t, timeout)
  BY <1>1, StartStep
<1>2. CASE HandlerFire
  BY <1>2, FireStep
<1>3. CASE Tick
  BY <1>3, TickStep
<1>4. CASE \/ \E timeout \in Timeouts : StartTooLong(timeout)
           \/ HandlerEnter \/ CallbackReturns \/ HandlerLeave
  BY <1>4, OtherStep
<1>5. CASE UNCHANGED timerVars
  BY <1>5 DEF timerVars, TimerInv, TimerTypeOK
<1> QED BY <1>1, <1>2, <1>3, <1>4, <1>5 DEF TimerNext

\* What SetTimer is given for a duration is not longer than it, and 0 only
\* when it is shorter than a microsecond.
LEMMA Truncated ==
  ASSUME NEW d \in Nat, Us \in Nat \ {0}
  PROVE  /\ ToMicroseconds(d) \in Nat /\ ToMicroseconds(d) * Us <= d
         /\ ToMicroseconds(d) = 0 => d < Us
<1>1. d \div Us \in Nat /\ d % Us \in 0 .. Us - 1 /\ d = Us * (d \div Us) + (d % Us)
  BY Division
<1>2. PICK us \in Nat : us = d \div Us
  BY <1>1
<1>3. us * Us = Us * us /\ us * Us \in Nat
  OBVIOUS
<1>4. us * Us <= d
  BY <1>1, <1>2, <1>3
<1>5. us = 0 => d < Us
  <2> SUFFICES ASSUME us = 0 PROVE d < Us
    OBVIOUS
  <2>1. Us * us = 0
    OBVIOUS
  <2> QED BY <1>1, <1>2, <2>1
<1> QED BY <1>2, <1>4, <1>5 DEF ToMicroseconds

LEMMA ProductPositive ==
  ASSUME NEW x \in Nat \ {0}, NEW y \in Nat \ {0}
  PROVE  x * y > 0
<1>1. (x - 1) * y >= 0
  BY x - 1 \in Nat
<1>2. (x - 1) * y = x * y - y
  OBVIOUS
<1> QED BY <1>1, <1>2

\* The APIC timer stays set for the first of the timers.
LEMMA ArmedStep ==
  ASSUME TimerInv, Armed, [TimerNext]_timerVars
  PROVE  Armed'
<1>0. timers_ \in Seq(Entry) /\ count \in Nat
  BY TimerTypes DEF TimerInv
<1>1. ASSUME NEW t \in Timers, NEW timeout \in Timeouts, Start(t, timeout)
      PROVE  Armed'
  <2> DEFINE e == [id |-> t, due |-> timeout * Us, interval |-> timeout * Us]
  <2>1. e \in Entry /\ e.due = timeout * Us /\ timeout \in Nat /\ timeout * Us > 0
    BY NewEntry
  <2>2. timers_' = Emplace(timers_, e) /\ UNCHANGED <<timer_irq, stage, truncated>>
    BY <1>1 DEF Start
  <2> HIDE DEF e
  <2>3. CASE timers_ # <<>> => timers_[1].due > timeout * Us
    <3>1. SetTimer(timeout)
      BY <1>1, <2>3 DEF Start, NeedsSetting
    <3>2. timers_'[1].due = timeout * Us
      BY <1>0, <2>1, <2>2, <2>3, EmplaceFirst
    <3>3. PICK c \in Nat : /\ c = ((timeout * Us) \div 2^Shifts(timeout)) * 2^Shifts(timeout)
                           /\ c > 0 /\ c <= timeout * Us
      BY <2>1, CountFacts
    <3>4. count' = c
      BY <3>1, <3>3 DEF SetTimer
    <3> QED BY <3>2, <3>3, <3>4 DEF Armed
  <2>4. CASE ~ (timers_ # <<>> => timers_[1].due > timeout * Us)
    <3>1. UNCHANGED count
      BY <1>1, <2>4 DEF Start, NeedsSetting
    <3>2. timers_'[1] = timers_[1]
      BY <1>0, <2>1, <2>2, <2>4, EmplaceFirst
    <3> QED BY <2>2, <2>4, <3>1, <3>2 DEF Armed
  <2> QED BY <2>3, <2>4
<1>2. CASE HandlerFire
  BY <1>2 DEF HandlerFire, Armed
<1>3. CASE Tick
  <2> SUFFICES ASSUME stage' = "idle", timers_' # <<>>
               PROVE  \/ timer_irq'
                      \/ count' > 0 /\ count' <= timers_'[1].due
                      \/ count' = 0 /\ timers_'[1].due < Us /\ truncated'
    BY DEF Armed
  <2>1. stage = "idle" /\ Len(timers_) \in Nat /\ (timers_ = <<>> <=> Len(timers_) = 0)
    BY <1>0, <1>3 DEF Tick
  <2>2. timers_ # <<>> /\ 1 \in 1 .. Len(timers_)
    <3>1. CASE Len(timers_) = 0
      <4>1. timers_' = [i \in 1 .. 0 |-> [timers_[i] EXCEPT !.due = IF @ = 0 THEN 0 ELSE @ - 1]]
        BY <1>3, <3>1 DEF Tick
      <4>2. timers_' = <<>>
        BY <4>1
      <4> QED BY <4>2
    <3> QED BY <2>1, <3>1
  <2>3. PICK first \in Entry : first = timers_[1]
    BY <1>0, <2>2
  <2>4. timers_'[1] = [first EXCEPT !.due = IF first.due = 0 THEN 0 ELSE first.due - 1]
    BY <1>3, <2>2, <2>3 DEF Tick
  <2>5. PICK d \in Nat : d = first.due
    BY FieldFacts
  <2>6. timers_'[1].due = IF d = 0 THEN 0 ELSE d - 1
    BY <2>4, <2>5 DEF Entry
  <2>7. timer_irq \/ (count > 0 /\ count <= d) \/ (count = 0 /\ d < Us /\ truncated)
    BY <2>1, <2>2, <2>3, <2>5 DEF Armed
  <2>8. count' = (IF count = 0 THEN 0 ELSE count - 1) /\ truncated' = truncated
    BY <1>3 DEF Tick
  <2>9. timer_irq \/ count = 1 => timer_irq'
    BY <1>3, Zenon DEF Tick
  <2>10. CASE timer_irq
    BY <2>9, <2>10
  <2>11. CASE count = 1
    BY <2>9, <2>11
  <2>12. CASE count > 1 /\ count <= d
    BY <1>0, <2>6, <2>8, <2>12
  <2>13. CASE count = 0 /\ d < Us /\ truncated
    BY <2>6, <2>8, <2>13, TimerAssumption
  <2> QED BY <1>0, <2>7, <2>10, <2>11, <2>12, <2>13
<1>4. CASE HandlerLeave
  <2>1. timers_ # <<>> /\ timers_[1].due > 0
        /\ SetTimer(ToMicroseconds(timers_[1].due)) /\ UNCHANGED timers_
    BY <1>4 DEF HandlerLeave
  <2>2. 1 \in 1 .. Len(timers_)
    BY <1>0, <2>1
  <2>3. PICK d \in Nat : d = timers_[1].due
    BY <1>0, <2>2, EntryFacts
  <2>4. PICK us \in Nat : us = ToMicroseconds(d) /\ us * Us <= d /\ (us = 0 => d < Us)
    BY TimerAssumption, Truncated
  <2>5. CASE us > 0
    <3>1. us * Us > 0
      BY <2>5, TimerAssumption, ProductPositive
    <3>2. PICK c \in Nat : c = ((us * Us) \div 2^Shifts(us)) * 2^Shifts(us)
                           /\ c > 0 /\ c <= us * Us
      BY <2>5, <3>1, CountFacts
    <3>3. count' = c
      BY <2>1, <2>3, <2>4, <3>2 DEF SetTimer
    <3>4. us * Us \in Nat
      BY TimerAssumption
    <3> QED BY <2>1, <2>3, <2>4, <3>2, <3>3, <3>4 DEF Armed
  <2>6. CASE us = 0
    <3>1. PICK c \in Nat : c = ((us * Us) \div 2^Shifts(us)) * 2^Shifts(us) /\ c <= us * Us
      BY CountFacts
    <3>2. us * Us = 0
      BY <2>6, TimerAssumption
    <3>3. count' = 0
      BY <2>1, <2>3, <2>4, <3>1, <3>2 DEF SetTimer
    <3>4. truncated' = (timers_[1].due < Us)
      BY <1>4 DEF HandlerLeave
    <3>5. d < Us /\ timers_'[1].due = d
      BY <2>1, <2>3, <2>4, <2>6
    <3>6. truncated'
      BY <2>3, <3>4, <3>5
    <3> QED BY <3>3, <3>5, <3>6 DEF Armed
  <2> QED BY <2>5, <2>6
<1>5. CASE \/ \E timeout \in Timeouts : StartTooLong(timeout)
           \/ HandlerEnter \/ CallbackReturns
  BY <1>5 DEF StartTooLong, SetTimerAborts, HandlerEnter, CallbackReturns, Armed
<1>6. CASE UNCHANGED timerVars
  BY <1>6 DEF timerVars, Armed
<1> QED BY <1>1, <1>2, <1>3, <1>4, <1>5, <1>6 DEF TimerNext

\* What CallsSpaced says of a step.
LEMMA SpacedCall ==
  ASSUME TimerInv, [TimerNext]_timerVars, stage = "handler", stage' = "callback",
         NEW i \in 1 .. Len(timers_), timers_[i].id = calling'
  PROVE  since[calling'] >= timers_[i].interval
<1>1. HandlerFire
  <2>1. ~ (\E t \in Timers, timeout \in Timeouts : Start(t, timeout))
    BY DEF Start
  <2>2. ~ Tick /\ ~ UNCHANGED timerVars
    BY DEF Tick, timerVars
  <2> QED BY <2>1, <2>2, OtherStep DEF TimerNext
<1>2. since[calling'] >= timers_[1].interval /\ calling' = timers_[1].id
  BY <1>1, FireStep
<1>3. 1 \in 1 .. Len(timers_)
  BY TimerTypes DEF TimerInv
<1>4. i = 1
  BY <1>2, <1>3 DEF TimerInv, Once
<1> QED BY <1>2, <1>4

-----------------------------------------------------------------------------

\* The list of timers of timer.cpp stays in order, has each timer once, and
\* each is due an interval after it was last called or started.
THEOREM TimerInvariant == TimerSpec => []TimerInv
<1>1. TimerInit => TimerInv
  BY TimerInvInit
<1>2. TimerInv /\ [TimerNext]_timerVars => TimerInv'
  BY TimerStep
<1> QED BY <1>1, <1>2, PTL DEF TimerSpec

\* For any clock: no order of Start, callbacks and interrupts leaves the APIC
\* timer set for later than the first timer, and only the truncation of the
\* handler (timer.cpp:32) leaves it stopped.
THEOREM AlwaysArmedForFirst == TimerSpec => []ArmedForFirst
<1>1. TimerInit => TimerInv /\ Armed
  BY TimerInvInit
<1>2. (TimerInv /\ Armed) /\ [TimerNext]_timerVars => (TimerInv /\ Armed)'
  BY TimerStep, ArmedStep
<1>3. TimerInv /\ Armed => ArmedForFirst
  BY DEF TimerInv, Armed, ArmedForFirst, StoppedByTruncation
<1> QED BY <1>1, <1>2, <1>3, PTL DEF TimerSpec

\* For any clock, the handler of timer.cpp calls no timer sooner than its
\* timeout after the last call, or after Start.
THEOREM CallsAlwaysSpaced == TimerSpec => CallsSpaced
<1>1. TimerInv /\ [TimerNext]_timerVars =>
        [stage = "handler" /\ stage' = "callback" =>
           \A i \in 1 .. Len(timers_) :
             timers_[i].id = calling' => since[calling'] >= timers_[i].interval]_timerVars
  BY SpacedCall
<1> QED BY <1>1, TimerInvariant, PTL DEF TimerSpec, CallsSpaced

-----------------------------------------------------------------------------
(* The clock: the inductive invariant and its proof *)

\* What the fields hold: between updates the last one; during an update its
\* number in the fields it has written, the one before in the others.
FieldInv ==
  \A f \in Fields :
    field[f] = IF Odd(version)
               THEN IF f \in written THEN (version + 1) \div 2
                                     ELSE (version - 1) \div 2
               ELSE version \div 2

\* While the version is still the one that was loaded, what was loaded is of
\* that version; the loads are complete when the test is reached.
ReadInv ==
  /\ seen <= version
  /\ reader = "fields" => ~Odd(seen)
  /\ reader \in {"fields", "check"} /\ ~Odd(seen) /\ seen = version =>
       \A f \in loaded : got[f] = seen \div 2
  /\ reader = "check" /\ ~Odd(seen) => loaded = Fields

\* The inductive invariant.
ClockInv == ClockTypeOK /\ FieldInv /\ ReadInv /\ EvenReadsConsistent

-----------------------------------------------------------------------------

\* The parity of a version and the update it belongs to.
LEMMA Halves ==
  ASSUME NEW v \in Nat
  PROVE  /\ Odd(v) <=> ~Odd(v + 1)
         /\ Odd(v) => (v + 1) \div 2 = (v \div 2) + 1 /\ (v - 1) \div 2 = v \div 2
         /\ ~Odd(v) => (v + 1) \div 2 = v \div 2
         /\ v \div 2 \in Nat
         /\ \A m \in Nat : v <= 2 * m => v \div 2 <= m
         /\ \A m \in Nat : v <= 2 * m /\ Odd(v) => (v + 1) \div 2 <= m
         /\ \A m \in Nat : v <= 2 * m /\ Odd(v) => v + 1 <= 2 * m
  BY DEF Odd

\* The first state.
LEMMA ClockInvInit == ClockInit => ClockInv
<1> SUFFICES ASSUME ClockInit PROVE ClockInv
  OBVIOUS
<1>1. ~Odd(0) /\ 0 \div 2 = 0
  BY DEF Odd
<1>2. ClockTypeOK
  BY ClockAssumption DEF ClockInit, ClockTypeOK, Updates
<1>3. FieldInv
  BY <1>1 DEF ClockInit, FieldInv
<1>4. ReadInv /\ EvenReadsConsistent
  BY <1>1 DEF ClockInit, ReadInv, EvenReadsConsistent
<1> QED BY <1>2, <1>3, <1>4 DEF ClockInv

\* A step of the hypervisor changes what is read, not what was read: the
\* version moves on, so a read of the former one cannot end.
LEMMA UpdateStep ==
  ASSUME ClockInv,
         UpdateBegin \/ (\E f \in Fields : UpdateField(f)) \/ UpdateEnd
  PROVE  ClockInv'
<1> USE ClockAssumption
<1>0. version \in Nat /\ seen \in Nat /\ version <= 2 * MaxUpdates
  BY DEF ClockInv, ClockTypeOK
<1>1. CASE UpdateBegin
  <2>1. ClockTypeOK'
    BY <1>0, <1>1 DEF ClockInv, ClockTypeOK, UpdateBegin
  <2>2. FieldInv'
    BY <1>0, <1>1, Halves, version + 1 - 1 = version
    DEF ClockInv, FieldInv, UpdateBegin
  <2>3. ReadInv' /\ EvenReadsConsistent'
    BY <1>0, <1>1 DEF ClockInv, ReadInv, EvenReadsConsistent, UpdateBegin
  <2> QED BY <2>1, <2>2, <2>3 DEF ClockInv
<1>2. CASE \E f \in Fields : UpdateField(f)
  <2> PICK g \in Fields : UpdateField(g)
    BY <1>2
  <2>1. (version + 1) \div 2 \in Updates
    BY <1>0, Halves DEF Updates, UpdateField
  <2>2. ClockTypeOK'
    BY <2>1 DEF ClockInv, ClockTypeOK, UpdateField
  <2>3. FieldInv'
    BY DEF ClockInv, ClockTypeOK, FieldInv, UpdateField
  <2>4. ReadInv' /\ EvenReadsConsistent'
    BY DEF ClockInv, ReadInv, EvenReadsConsistent, UpdateField
  <2> QED BY <2>2, <2>3, <2>4 DEF ClockInv
<1>3. CASE UpdateEnd
  <2>1. ClockTypeOK'
    BY <1>0, <1>3, Halves DEF ClockInv, ClockTypeOK, UpdateEnd
  <2>2. FieldInv'
    BY <1>0, <1>3, Halves DEF ClockInv, FieldInv, UpdateEnd
  <2>3. ReadInv' /\ EvenReadsConsistent'
    BY <1>0, <1>3 DEF ClockInv, ReadInv, EvenReadsConsistent, UpdateEnd
  <2> QED BY <2>1, <2>2, <2>3 DEF ClockInv
<1> QED BY <1>1, <1>2, <1>3

\* A step of the reader.
LEMMA ReadStep ==
  ASSUME ClockInv,
         Call \/ LoadVersion \/ (\E f \in Fields : LoadField(f)) \/ Check
  PROVE  ClockInv'
<1>0. version \in Nat /\ seen \in Nat /\ version <= 2 * MaxUpdates
  BY ClockAssumption DEF ClockInv, ClockTypeOK
<1>1. CASE Call
  BY <1>1 DEF ClockInv, ClockTypeOK, FieldInv, ReadInv, EvenReadsConsistent, Call
<1>2. CASE LoadVersion
  BY <1>0, <1>2
  DEF ClockInv, ClockTypeOK, FieldInv, ReadInv, EvenReadsConsistent, LoadVersion
<1>3. CASE \E f \in Fields : LoadField(f)
  <2> PICK g \in Fields : LoadField(g)
    BY <1>3
  <2>1. ClockTypeOK'
    BY DEF ClockInv, ClockTypeOK, LoadField
  <2>2. FieldInv'
    BY DEF ClockInv, FieldInv, LoadField
  <2>3. seen = version => field[g] = seen \div 2
    BY DEF ClockInv, FieldInv, ReadInv, LoadField
  <2>4. ReadInv' /\ EvenReadsConsistent'
    BY <2>3 DEF ClockInv, ClockTypeOK, ReadInv, EvenReadsConsistent, LoadField
  <2> QED BY <2>1, <2>2, <2>4 DEF ClockInv
<1>4. CASE Check
  BY <1>4
  DEF ClockInv, ClockTypeOK, FieldInv, ReadInv, EvenReadsConsistent, Check, SameVersion
<1> QED BY <1>1, <1>2, <1>3, <1>4

-----------------------------------------------------------------------------

\* The invariant of clock.cpp's version loop holds in every reachable state.
THEOREM ClockInvariant == ClockSpec => []ClockInv
<1>1. ClockInv /\ [ClockNext]_clockVars => ClockInv'
  <2> SUFFICES ASSUME ClockInv, [ClockNext]_clockVars PROVE ClockInv'
    OBVIOUS
  <2>1. CASE ClockNext
    BY <2>1, UpdateStep, ReadStep DEF ClockNext
  <2>2. CASE UNCHANGED clockVars
    BY <2>2 DEF clockVars, ClockInv, ClockTypeOK, FieldInv, ReadInv, EvenReadsConsistent
  <2> QED BY <2>1, <2>2
<1> QED BY ClockInvInit, <1>1, PTL DEF ClockSpec

\* A read of clock_init or clock_time that ends on an even version is of one
\* update.
THEOREM ClockReadsConsistent == ClockSpec => []EvenReadsConsistent
<1>1. ClockInv => EvenReadsConsistent
  BY DEF ClockInv
<1> QED BY ClockInvariant, <1>1, PTL
=============================================================================
