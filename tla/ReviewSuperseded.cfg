SPECIFICATION Spec
CONSTANTS
  p1 = p1  p2 = p2  h1 = h1  h2 = h2  o1 = o1  o2 = o2  k1 = k1  k2 = k2
  Proposal = {p1}
  Human = {h1}
  Operator = {o1}
  Key = {k1}
  Value = {"APPROVE", "REJECT"}
  MaxTick = 4
  NoEvaluation = NoEvaluation
  NoRequest = NoRequest
  NoProposal = NoProposal
PROPERTY DecidesOnLatest
