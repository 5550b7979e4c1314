----------------------------- MODULE MCSlabRoot -----------------------------
(* An instance of SlabRoot for TLC: two cpus of one node, and a second node  *)
(* whose memory both ask for.                                               *)
EXTENDS SlabRoot, TLC

CONSTANTS c0, c1, n0, n1, b0, b1

OneNode == (c0 :> n0) @@ (c1 :> n0)
Sizes == [root |-> 4136, node |-> 256, cpu |-> 256, rep |-> 192]
Aligns == [root |-> 8, node |-> 64, cpu |-> 64, rep |-> 64]
SmallAndPage == <<64, 4096>>
SmallAndPageRoots == <<"64", "4096">>

BlockSymmetry == Permutations({b0, b1})

\* The sizes around every change of the order or the batch, the classes of
\* gp_type among them, and one size too many.
Boundaries ==
  {1, 8, 9, 64, 96, 3000, 4096, 4097, 8192, 8193, 12000, 262144, 262145, 8388608,
   8388609}
=============================================================================
