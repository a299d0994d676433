------------------------------ MODULE Divergence ------------------------------
(***************************************************************************)
(* compare_json of src/src/consequences.py: how far an actual outcome is   *)
(* from the predicted one.                                                 *)
(*                                                                         *)
(* A JSON value is a record with its kind and its content: a number, a     *)
(* text, or the items of an array (a sequence) or an object (a function    *)
(* from keys).  Keys are sequences of code points; the numeral of an array *)
(* index is one symbol beyond them.  A leaf of the report is known by its  *)
(* path, from which its JSON pointer is rendered.  A Decimal is the        *)
(* numerator of a fraction over Scale, and scores are exact fractions,     *)
(* where the code keeps 28 digits, until they are averaged and rounded to  *)
(* six places, the unit of every score below.                              *)
(***************************************************************************)
EXTENDS SequencesExt

CONSTANTS
  Json,     \* the JSON values that occur, with all they contain
  Scale,    \* a common denominator of the numbers in them
  Depth     \* how deep the items of a value nest: a parsed text is finite

Container == {"object", "array"}
Kind == {"null", "boolean", "number", "string"} \cup Container

MaxCodePoint == 1114111
CodePoint == 0 .. MaxCodePoint
Slash == 47
Tilde == 126
Zero == 48
One == 49

\* str(index)
Numeral(index) == <<MaxCodePoint + 1 + index>>

ASSUME DivergenceAssumption ==
  /\ Scale \in Nat \ {0}
  /\ \A v \in Json :
       /\ v.kind \in Kind /\ Depth[v] \in Nat
       /\ v.kind = "number" => v.num \in Int
       /\ v.kind = "array" => v.items \in Seq(Json)
       /\ v.kind = "object" => DOMAIN v.items \subseteq Seq(CodePoint)
       /\ v.kind \in Container =>
            /\ IsFiniteSet(DOMAIN v.items)
            /\ \A k \in DOMAIN v.items :
                 v.items[k] \in Json /\ Depth[v.items[k]] < Depth[v]

Unit == 1000000    \* one, in millionths

-----------------------------------------------------------------------------
(* JSON pointers *)

Replaced(s, c, by) == FlattenSeq([i \in DOMAIN s |-> IF s[i] = c THEN by ELSE <<s[i]>>])

\* Mutant: the two replacements in the other order.
EscapedLate(component) ==
  Replaced(Replaced(component, Slash, <<Tilde, One>>), Tilde, <<Tilde, Zero>>)

Escaped(component) ==
  Replaced(Replaced(component, Tilde, <<Tilde, Zero>>), Slash, <<Tilde, One>>)

Pointer(path) == FlattenSeq([i \in DOMAIN path |-> <<Slash>> \o Escaped(path[i])])

-----------------------------------------------------------------------------
(* Leaves and their mean *)

Leaf(kind, num, den) == [path |-> <<>>, kind |-> kind, num |-> num, den |-> den]

\* What a pointer names the item at key k by; the items of arrays count from 0.
Name(container, k) == IF container.kind = "array" THEN Numeral(k - 1) ELSE k

\* The leaves of the item that component names in a container.
Under(component, leaves) == {[l EXCEPT !.path = <<component>> \o @] : l \in leaves}

Abs(n) == IF n < 0 THEN -n ELSE n

\* min(1, |p - a| / max(|p|, |a|, 1)), all in units of 1 / Scale
NumberLeaf(p, a) ==
  LET scale == Max({Abs(p), Abs(a), Scale})
  IN Leaf("number", Min({Abs(p - a), scale}), scale)

Keys(p, a) == DOMAIN p.items \cup DOMAIN a.items

\* The leaves of the items at key k, and of a pair, where leaves are those of
\* the pairs of values they contain.
ItemLeaves(p, a, k, leaves) ==
  CASE k \notin DOMAIN p.items -> {Leaf("missing_predicted", 1, 1)}
    [] k \notin DOMAIN a.items -> {Leaf("missing_actual", 1, 1)}
    [] OTHER -> leaves[<<p.items[k], a.items[k]>>]

LeavesOf(p, a, leaves) ==
  IF p.kind # a.kind THEN {Leaf("type_mismatch", 1, 1)}
  ELSE IF p.kind = "number" THEN {NumberLeaf(p.num, a.num)}
  ELSE IF p.kind \notin Container THEN {Leaf(p.kind, IF p = a THEN 0 ELSE 1, 1)}
  ELSE IF Keys(p, a) = {}
    THEN {Leaf(IF p.kind = "array" THEN "empty_array" ELSE "empty_object", 0, 1)}
  ELSE UNION {Under(Name(p, k), ItemLeaves(p, a, k, leaves)) : k \in Keys(p, a)}

Leaves[v \in Json \X Json] == LeavesOf(v[1], v[2], Leaves)

Plus(leaf, sum) == [num |-> sum.num * leaf.den + leaf.num * sum.den, den |-> sum.den * leaf.den]

\* The sum of the scores as a numerator over the product of the denominators.
Total(leaves) == FoldSet(Plus, [num |-> 0, den |-> 1], leaves)

\* quantize(_SIX_PLACES, ROUND_HALF_EVEN) of num / den
HalfEven(num, den) ==
  LET scaled == num * Unit
      down == scaled \div den
      rest == 2 * (scaled % den)
  IN CASE rest < den -> down
       [] rest > den -> down + 1
       [] OTHER -> down + (down % 2)

\* The mean score of the leaves of a prediction and an actual outcome.
Score == [v \in Json \X Json |->
            LET sum == Total(Leaves[v])
            IN HalfEven(sum.num, sum.den * Cardinality(Leaves[v]))]
=============================================================================
