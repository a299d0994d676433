SPECIFICATION Spec
CONSTANTS
  p1 = p1  p2 = p2  p3 = p3  p4 = p4  k1 = k1  k2 = k2
  Proposal <- MCProposal
  Class <- MCClass
  Similarity <- MCSimilarity
  Near = 85
  Prediction <- MCPrediction
  Outcome <- MCOutcome
  Json <- MCJson
  Depth <- MCDepth
  Scale = 2
  DecisionValue = {"APPROVE"}
  Observation = {1}
  Key = {k1, k2}
  Reporter = {c1}
  Threshold = 500000
  Limit = 2
  TopK = 2
  WarningLimit = 1
  MaxEvaluations = 5
  NoRequest = NoRequest
INVARIANTS TypeOK ReportsBound ReplyHonest WarningsAgree StaysReachable
  EvaluationsBounded ComparisonSound
PROPERTY RetrySettles
SYMMETRY MCSymmetry
CHECK_DEADLOCK FALSE
