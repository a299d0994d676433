SPECIFICATION Spec
CONSTANTS
  own = own  other = other
  log = log  db = db  backup = backup
  Class = {own, other}
  ProposalClass = own
  Kind = {log}
  Capability = {db}
  Rule <- MCRule
  Precedent <- MCPrecedent
  Dependency <- MCDependency
  Unresolved = Unresolved
  SimilarityThreshold = 1
  DivergenceThreshold = 1
  TopK = 2
  MaxTrace = 13
  NoPrior = NoPrior
  Inputs <- MCInputs
INVARIANTS TypeOK ReducerTotal ChangeExplained HarmNeverHelps
