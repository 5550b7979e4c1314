---------------------------- MODULE MCBootMemory ----------------------------
(* Instances of BootMemory for TLC. *)
EXTENDS BootMemory

Entry820(from, to) == [addr |-> from, length |-> to - from]
Block(start, end, nid) == [start |-> start, end |-> end, nid |-> nid]

\* One region with all alignments of its ends, or two above the kernel with
\* or without a hole.
Maps ==
  {{Entry820(a, b)} : a \in {0, 5}, b \in {18, 19}}
    \cup {{Entry820(0, 2), Entry820(5, 14), Entry820(b, 20)} : b \in {14, 16}}

\* All on one node, a boundary between buddies, the nodes in the order of
\* their memory or not.
NodeMaps ==
  {{Block(0, 11, 0)}, {Block(0, 5, 0), Block(5, 11, 1)},
   {Block(0, 3, 1), Block(3, 8, 0), Block(8, 11, 1)}}

AllMachines ==
  [e820 : Maps, kend : {2, 3}, initial_map_end : {8, 14}, memblocks : NodeMaps,
   my_node : {0}]
=============================================================================
