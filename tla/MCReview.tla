------------------------------ MODULE MCReview ------------------------------
(* Symmetry for model checking Review.                                       *)
EXTENDS Review, TLC

CONSTANTS p1, p2, h1, h2, o1, o2, k1, k2

MCSymmetry ==
  Permutations({p1, p2}) \cup Permutations({h1, h2})
    \cup Permutations({o1, o2}) \cup Permutations({k1, k2})
=============================================================================
