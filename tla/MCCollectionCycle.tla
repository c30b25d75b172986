------------------------- MODULE MCCollectionCycle -------------------------
(* CollectionCycle on small instances: posts are interchangeable. *)
EXTENDS CollectionCycle, TLC

Symmetry == Permutations(Posts)
=============================================================================
