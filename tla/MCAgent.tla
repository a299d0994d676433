------------------------------- MODULE MCAgent -------------------------------
(* Symmetry for model checking Agent.                                        *)
EXTENDS Agent, TLC

CONSTANTS t1, t2, t3, x1, x2

MCSymmetry == Permutations({t1, t2, t3}) \cup Permutations({x1, x2})
=============================================================================
