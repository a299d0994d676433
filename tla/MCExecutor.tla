----------------------------- MODULE MCExecutor -----------------------------
(* Constant values for model checking Executor: d1 and d2 are approved and   *)
(* write the same effect key, d3 was rejected.                               *)
EXTENDS Executor, TLC

CONSTANTS c1, c2, d1, d2, d3, k1, k2, x1, x2, alpha

MCVerdict == d1 :> "APPROVE" @@ d2 :> "APPROVE" @@ d3 :> "REJECT"
MCTarget == d1 :> alpha @@ d2 :> alpha @@ d3 :> alpha
MCExecutorOf == c1 :> x1 @@ c2 :> x1
MCTwoExecutors == c1 :> x1 @@ c2 :> x2
MCOneVerdict == d1 :> "APPROVE"
MCOneTarget == d1 :> alpha
=============================================================================
