-------------------------- MODULE MCPageAllocator --------------------------
(* Instances of PageAllocator alone for TLC. *)
EXTENDS PageAllocator

\* Every range of the memory map, all on one node.
AllRanges ==
  {{[start |-> s, end |-> e, nid |-> 0]} : <<s, e>> \in
     {<<s, e>> \in (0 .. NumPages - 1) \X (1 .. NumPages) : s < e}}

\* One aligned range, shared by two nodes.
TwoNodes ==
  {{[start |-> 0, end |-> 2, nid |-> 0], [start |-> 2, end |-> 4, nid |-> 1]},
   {[start |-> 0, end |-> 1, nid |-> 0], [start |-> 1, end |-> 4, nid |-> 1]}}
=============================================================================
