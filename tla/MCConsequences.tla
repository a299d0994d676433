--------------------------- MODULE MCConsequences ---------------------------
(* Three proposals of one task, which no search can tell apart, one of       *)
(* another task, and the outcomes reported of them.                          *)
EXTENDS Consequences

CONSTANTS p1, p2, p3, p4, k1, k2

MCProposal == {p1, p2, p3, p4}

\* p1 is of another task, just near that of the others, and of another class.
MCSimilarity ==
  [p \in MCProposal |-> [q \in MCProposal |-> IF p = q \/ p1 \notin {p, q} THEN 100 ELSE 85]]
MCClass == [p \in MCProposal |-> IF p = p1 THEN "b" ELSE "a"]

Number(n) == [kind |-> "number", num |-> n]
Array(s) == [kind |-> "array", items |-> s]
Object(f) == [kind |-> "object", items |-> f]

\* Keys that escape to each other, fractions and numbers of either sign.
Pair(m, n) == Object((<<Slash>> :> Array(<<Number(m)>>)) @@ (<<Tilde, One>> :> Array(<<Number(n)>>)))
Set == Pair(-1, 2)
Flipped == Pair(1, 2)

MCPrediction == [p \in MCProposal |-> IF p = p1 THEN Flipped ELSE Set]
MCOutcome == {Flipped, Number(1)}

MCSymmetry == Permutations({k1, k2}) \cup Permutations({p2, p3, p4})

MCJson == {Set, Flipped} \cup {Array(<<Number(n)>>) : n \in {-1, 1, 2}}
            \cup {Number(n) : n \in {-1, 1, 2}}
MCDepth == [v \in MCJson |-> CASE v.kind = "number" -> 0
                              [] v.kind = "array" -> 1
                              [] OTHER -> 2]
=============================================================================
