SPECIFICATION Spec
CONSTANTS
  c1 = c1  c2 = c2
  d1 = d1  d2 = d2  d3 = d3
  k1 = k1  k2 = k2
  x1 = x1  x2 = x2
  alpha = alpha
  Caller = {c1, c2}
  Decision = {d1}
  IdempotencyKey = {k1, k2}
  EffectKey = {alpha}
  ExecutorId = {x1}
  Verdict <- MCOneVerdict
  Bound = {d1}
  Target <- MCOneTarget
  ExecutorOf <- MCExecutorOf
  MaxAttempts = 2
  NoDecision = NoDecision
  NoCommand = NoCommand

INVARIANT OneReceiptPerDecision
