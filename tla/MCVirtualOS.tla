----------------------------- MODULE MCVirtualOS -----------------------------
(* Task - 3 for TLC: root and two interchangeable names, two groups besides  *)
(* root's, one of them that of nobody, two interchangeable file names.  No   *)
(* property is about liveness, so the symmetry loses nothing.                *)
EXTENDS VirtualOS

CONSTANTS ann, bob, f, g

MCGid == {-1, 7}

Symmetry == Permutations({ann, bob}) \union Permutations({f, g})
=============================================================================
