------------------------------- MODULE MCGate -------------------------------
(* Values for model checking Gate: a policy that asks for everything, one  *)
(* that asks for nothing, one that denies and one of another class, and    *)
(* precedents below, at and above the similarity threshold with reports    *)
(* below and at the divergence threshold.                                  *)
EXTENDS Gate

CONSTANTS own, other, log, db, backup

Allowing(asks) ==
  [ effect |-> "ALLOW", scope |-> {own}, require_consequence |-> asks,
    required_evidence |-> IF asks THEN {log} ELSE {},
    required_capability_ids |-> IF asks THEN {db} ELSE {} ]
Denying == [Allowing(FALSE) EXCEPT !.effect = "DENY", !.scope = {own, other}]
Elsewhere == [Allowing(TRUE) EXCEPT !.scope = {other}]

MCRule == {Allowing(TRUE), Allowing(FALSE), Denying, Elsewhere}

Report(d) == [divergence |-> d, bound |-> TRUE]
Near2(d, reports) ==
  [class |-> own, similarity |-> 2, decision |-> d, reports |-> reports]

Quiet   == Near2("APPROVE", {})
Close   == [Near2("APPROVE", {Report(0)}) EXCEPT !.similarity = 1]
AtEdge  == [Close EXCEPT !.reports = {Report(0), Report(1)}]
Far     == [Close EXCEPT !.similarity = 0]
Foreign == [Close EXCEPT !.class = other]
Blind   == [Near2("NONE", {}) EXCEPT !.similarity = Unresolved]
Loose   == Near2("APPROVE", {[divergence |-> 0, bound |-> FALSE]})
Altered == Near2("MODIFY", {})
Open    == Near2("NONE", {})

MCPrecedents ==
  { {}, {Close}, {AtEdge}, {Quiet, Close}, {Blind, Close}, {Loose},
    {Close, Altered}, {Far, Foreign, Open} }
MCPrecedent == UNION MCPrecedents

Fact(v)   == [id |-> db, state |-> v]
Depends(v, enough) ==
  [ id |-> backup, state |-> v, necessary_for_yes |-> TRUE,
    sufficient_if_true |-> enough ]

MCDependency == {Depends(v, e) : v \in State, e \in BOOLEAN}

MCInputs ==
  [ policy       |-> { {Allowing(TRUE)}, {Allowing(FALSE)},
                       {Allowing(TRUE), Denying}, {Elsewhere} },
    exclusions   |-> { {}, {own} },
    precedents   |-> MCPrecedents,
    evidence     |-> { {}, {log} },
    capabilities |-> { {}, {Fact("TRUE")}, {Fact("FALSE")}, {Fact("UNRESOLVED")},
                       {Fact("TRUE"), Fact("UNRESOLVED")} },
    dependencies |-> { {Depends("TRUE", TRUE)}, {Depends("FALSE", TRUE)},
                       {Depends("UNRESOLVED", TRUE)},
                       {Depends("UNRESOLVED", FALSE)} } ]
=============================================================================
