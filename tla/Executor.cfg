SPECIFICATION FairSpec
CONSTANTS
  c1 = c1  c2 = c2
  d1 = d1  d2 = d2  d3 = d3
  k1 = k1  k2 = k2
  x1 = x1  x2 = x2
  alpha = alpha
  Caller = {c1, c2}
  Decision = {d1, d2, d3}
  IdempotencyKey = {k1, k2}
  EffectKey = {alpha}
  ExecutorId = {x1, x2}
  Verdict <- MCVerdict
  Bound = {d1, d2}
  Target <- MCTarget
  ExecutorOf <- MCTwoExecutors
  MaxAttempts = 2
  NoDecision = NoDecision
  NoCommand = NoCommand
INVARIANTS TypeOK ReceiptTruth EffectChain ObservedIsFinal ReplyHonest
PROPERTIES Implements CallReturns
