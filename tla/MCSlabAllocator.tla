-------------------------- MODULE MCSlabAllocator --------------------------
(* Instances of SlabAllocator for TLC. *)
EXTENDS SlabAllocator, TLC

CONSTANTS c0, c1, n0, n1, s0, s1

TwoCpus == <<c0, c1>>
TwoNodes == <<n0, n1>>
OneNode == <<n0>>

\* Two nodes with a cpu each, a slab of memory of each node.
CpuPerNode == (c0 :> n0) @@ (c1 :> n1)
SlabPerNode == (s0 :> n0) @@ (s1 :> n1)

\* Two cpus of one node, all memory on it.
SameNode == (c0 :> n0) @@ (c1 :> n0)
SlabsOneNode == (s0 :> n0) @@ (s1 :> n0)
=============================================================================
