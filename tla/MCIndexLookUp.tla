--------------------------- MODULE MCIndexLookUp ---------------------------
(* IndexLookUp instantiated for TLC: five index entries whose handles are *)
(* not in handle order, three table workers, batches of 1, 2 and 2, and a  *)
(* resultCh and a chunk small enough to fill up.                          *)
EXTENDS IndexLookUp

CONSTANTS w1, w2, w3

MCWorkers == {w1, w2, w3}

MCIdx == <<2, 4, 1, 5, 3>>

MCSymmetry == Permutations(MCWorkers)
=============================================================================
