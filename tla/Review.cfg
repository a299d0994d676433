SPECIFICATION Spec
CONSTANTS
  p1 = p1  p2 = p2  h1 = h1  h2 = h2  o1 = o1  o2 = o2  k1 = k1  k2 = k2
  Proposal = {p1}
  Human = {h1, h2}
  Operator = {o1, o2}
  Key = {k1, k2}
  Value = {"REJECT"}
  MaxTick = 5
  NoEvaluation = NoEvaluation
  NoRequest = NoRequest
  NoProposal = NoProposal
INVARIANTS TypeOK ReplyHonest Rooted NeverWedged CheckedIsCurrent
PROPERTY Implements
SYMMETRY MCSymmetry
