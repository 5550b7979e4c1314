----------------------------- MODULE MCSmpStart -----------------------------
(* Instances of SmpStart for TLC. *)
EXTENDS SmpStart

CONSTANTS b0, a1, a2

\* Machines of two and of three cores.
OneOrTwoOthers == {{b0, a1}, {b0, a1, a2}}
=============================================================================
