---------------------------- MODULE ExecutorProofs ----------------------------
(* Machine-checked theorems about module Executor, for every set of callers, *)
(* decisions, keys and executors.                                            *)
EXTENDS Executor, TLAPS

-----------------------------------------------------------------------------
(* Type correctness *)

\* A head read from demo_kv is a reference to an effect or the NULL reference.
LEMMA HeadRefsType ==
  ASSUME TypeOK, NEW k
  PROVE  HeadRefs(k) \subseteq EffectRef
  BY ExecutorAssumption DEF TypeOK, HeadRefs, OnKey, Effect, EffectRef, Genesis

\* The rows a running call writes are well formed.
LEMMA RowTypes ==
  ASSUME TypeOK, NEW c \in Caller, pc[c] # "idle"
  PROVE  /\ EffectRow(c) \in Effect
         /\ ObservedRow(c) \in Receipt
         /\ ErrorRow(c) \in Receipt
<1>1. /\ cmd[c].decision \in Decision
      /\ cmd[c].idem \in IdempotencyKey
      /\ head[c] \in EffectRef
      /\ head[c].version \in Nat
      /\ ExecutorOf[c] \in ExecutorId
  BY ExecutorAssumption DEF TypeOK, Command, EffectRef
<1>2. EffectRow(c) \in Effect
  BY <1>1 DEF EffectRow, Effect
<1>3. ObservedRow(c) \in Receipt
  BY <1>1 DEF ObservedRow, Receipt, Status
<1>4. ErrorRow(c) \in Receipt
  BY <1>1 DEF ErrorRow, Receipt, Status
<1>5. QED
  BY <1>2, <1>3, <1>4

\* Ending a call keeps the caller's local state well typed.
LEMMA FinishType ==
  ASSUME TypeOK, NEW c \in Caller, NEW kind \in Answer,
         NEW rows \in SUBSET Receipt, Finish(c, kind, rows)
  PROVE  /\ pc' \in [Caller -> PC]
         /\ cmd' \in [Caller -> Command \cup {NoCommand}]
         /\ tries' \in [Caller -> 0 .. MaxAttempts]
         /\ head' \in [Caller -> EffectRef]
         /\ reply' \in [Caller -> Reply]
         /\ \A b \in Caller : pc'[b] # "idle" => cmd'[b] \in Command /\ tries'[b] > 0
<1>1. Genesis \in EffectRef
  BY DEF Genesis, EffectRef
<1>2. [kind |-> kind, rows |-> rows] \in Reply
  BY DEF Reply
<1>3. 0 \in 0 .. MaxAttempts
  BY ExecutorAssumption
<1>4. QED
  BY <1>1, <1>2, <1>3 DEF Finish, TypeOK, PC

\* Every action of the executor preserves the type invariant.
LEMMA NextTypeOK == TypeOK /\ [Next]_vars => TypeOK'
<1> SUFFICES ASSUME TypeOK, [Next]_vars PROVE TypeOK'
  OBVIOUS
<1> USE ExecutorAssumption
<1>1. ASSUME NEW d \in Decision, Decide(d) PROVE TypeOK'
  BY <1>1 DEF TypeOK, Decide
<1>2. ASSUME NEW c \in Caller, NEW m \in Command, Invoke(c, m) PROVE TypeOK'
  <2>1. [kind |-> "none", rows |-> {}] \in Reply
    BY DEF Reply
  <2>2. 1 \in 0 .. MaxAttempts
    OBVIOUS
  <2>3. QED
    BY <1>2, <2>1, <2>2 DEF TypeOK, Invoke, PC
<1>3. ASSUME NEW c \in Caller, Lookup(c) PROVE TypeOK'
  <2>1. UNCHANGED <<decisions, effects, receipts>>
    BY <1>3 DEF Lookup, table
  <2>2. CASE \E kind \in Answer, rows \in SUBSET receipts : Finish(c, kind, rows)
    BY <2>1, <2>2, FinishType DEF TypeOK
  <2>3. CASE \E h \in HeadRefs(Target[cmd[c].decision]) :
               /\ head' = [head EXCEPT ![c] = h]
               /\ Continue(c, "insert")
               /\ UNCHANGED tries
    BY <1>3, <2>1, <2>3, HeadRefsType DEF TypeOK, Continue, Lookup, PC
  <2>4. \/ \E kind \in Answer, rows \in SUBSET receipts : Finish(c, kind, rows)
        \/ \E h \in HeadRefs(Target[cmd[c].decision]) :
               /\ head' = [head EXCEPT ![c] = h]
               /\ Continue(c, "insert")
               /\ UNCHANGED tries
    BY <1>3 DEF Lookup, ReceiptsFor, Answer
  <2>5. QED
    BY <2>2, <2>3, <2>4
<1>4. ASSUME NEW c \in Caller, InsertEffect(c) PROVE TypeOK'
  BY <1>4 DEF TypeOK, InsertEffect, Continue, PC
<1>5. ASSUME NEW c \in Caller, InsertFails(c) PROVE TypeOK'
  BY <1>5 DEF TypeOK, InsertFails, Continue, PC
<1>6. ASSUME NEW c \in Caller, CommitEffect(c) PROVE TypeOK'
  <2>1. EffectRow(c) \in Effect /\ ObservedRow(c) \in Receipt
    BY <1>6, RowTypes DEF CommitEffect
  <2>2. \E kind \in Answer, rows \in SUBSET Receipt : Finish(c, kind, rows)
    BY <1>6, <2>1 DEF CommitEffect, Answer
  <2>3. effects' \subseteq Effect /\ receipts' \subseteq Receipt
    BY <1>6, <2>1 DEF CommitEffect, TypeOK
  <2>4. QED
    BY <1>6, <2>2, <2>3, FinishType DEF CommitEffect, TypeOK
<1>7. ASSUME NEW c \in Caller, RecoverLookup(c) PROVE TypeOK'
  <2>1. UNCHANGED <<decisions, effects, receipts>>
    BY <1>7 DEF RecoverLookup, table
  <2>2. \/ \E kind \in Answer, rows \in SUBSET receipts : Finish(c, kind, rows)
        \/ Continue(c, "seal") /\ UNCHANGED <<tries, head>>
    BY <1>7 DEF RecoverLookup, ReceiptsByKey, Answer
  <2>3. CASE \E kind \in Answer, rows \in SUBSET receipts : Finish(c, kind, rows)
    BY <2>1, <2>3, FinishType DEF TypeOK
  <2>4. CASE Continue(c, "seal") /\ UNCHANGED <<tries, head>>
    BY <1>7, <2>1, <2>4 DEF TypeOK, Continue, PC, RecoverLookup
  <2>5. QED
    BY <2>2, <2>3, <2>4
<1>8. ASSUME NEW c \in Caller, CommitError(c) PROVE TypeOK'
  <2>1. ErrorRow(c) \in Receipt
    BY <1>8, RowTypes DEF CommitError
  <2>2. \E kind \in Answer, rows \in SUBSET Receipt : Finish(c, kind, rows)
    BY <1>8, <2>1 DEF CommitError, Answer
  <2>3. receipts' \subseteq Receipt
    BY <1>8, <2>1 DEF CommitError, TypeOK
  <2>4. QED
    BY <1>8, <2>2, <2>3, FinishType DEF CommitError, TypeOK
<1>9. ASSUME NEW c \in Caller, SerializationFailure(c) PROVE TypeOK'
  <2>1. UNCHANGED <<decisions, effects, receipts>>
    BY <1>9 DEF SerializationFailure, table
  <2>2. CASE Finish(c, "raised", {})
    BY <2>1, <2>2, FinishType DEF TypeOK, Answer
  <2>3. CASE /\ tries[c] < MaxAttempts
             /\ tries' = [tries EXCEPT ![c] = @ + 1]
             /\ \E to \in {"recover", "lookup"} : Continue(c, to)
             /\ head' = head \/ head' = [head EXCEPT ![c] = Genesis]
    <3>1. Genesis \in EffectRef
      BY DEF Genesis, EffectRef
    <3>2. head' \in [Caller -> EffectRef]
      BY <2>3, <3>1 DEF TypeOK
    <3>3. tries' \in [Caller -> 0 .. MaxAttempts]
      BY <2>3 DEF TypeOK
    <3>4. QED
      BY <1>9, <2>1, <2>3, <3>2, <3>3 DEF TypeOK, Continue, PC, SerializationFailure
  <2>4. QED
    BY <1>9, <2>2, <2>3 DEF SerializationFailure
<1>10. ASSUME NEW c \in Caller, Abandon(c) PROVE TypeOK'
  BY <1>10, FinishType DEF Abandon, table, TypeOK, Answer
<1>11. CASE UNCHANGED vars
  BY <1>11 DEF vars, TypeOK
<1>12. QED
  BY <1>1, <1>2, <1>3, <1>4, <1>5, <1>6, <1>7, <1>8, <1>9, <1>10, <1>11
     DEF Next, Step

\* The tables and every caller's local state stay well typed, and a running
\* call always has a command and a live retry budget.
THEOREM TypeCorrect == Spec => []TypeOK
<1>1. Init => TypeOK
  BY ExecutorAssumption DEF Init, TypeOK, PC, Genesis, EffectRef, Reply
<1>2. QED
  BY <1>1, NextTypeOK, PTL DEF Spec

-----------------------------------------------------------------------------
(* Safety of the tables *)

\* Only the two commits write demo_kv or the receipts.
LEMMA TableSteps ==
  ASSUME [Next]_vars
  PROVE  \/ UNCHANGED <<effects, receipts>>
         \/ \E c \in Caller : CommitEffect(c) \/ CommitError(c)
  BY DEF Next, Step, vars, table, Decide, Invoke, Lookup, InsertEffect, InsertFails,
         RecoverLookup, SerializationFailure, Abandon

\* The invariant of the tables; each conjunct is inductive given the ones
\* before it.
TableInv == TypeOK /\ ReceiptTruth /\ ObservedIsFinal /\ EffectChain

\* COMMIT of the effect transaction keeps the tables consistent: what it read
\* excludes any receipt of its decision, and its head is still the newest.
LEMMA CommitEffectKeeps ==
  ASSUME TableInv, NEW c \in Caller, CommitEffect(c)
  PROVE  ReceiptTruth' /\ ObservedIsFinal' /\ EffectChain'
<1> DEFINE e0 == EffectRow(c)
           r0 == ObservedRow(c)
<1>1. /\ effects' = effects \cup {e0}
      /\ receipts' = receipts \cup {r0}
      /\ e0 \in Effect /\ r0 \in Receipt
      /\ effects \subseteq Effect /\ receipts \subseteq Receipt
  BY RowTypes DEF CommitEffect, TableInv, TypeOK
<1>2. /\ e0.decision = cmd[c].decision /\ r0.decision = cmd[c].decision
      /\ e0.idem = r0.idem /\ r0.status = "OBSERVED"
      /\ e0.version = r0.version /\ e0.prior = r0.before
      /\ e0.version = head[c].version + 1 /\ e0.prior = head[c]
  BY DEF EffectRow, ObservedRow
<1>3. \A s \in receipts : s.decision # cmd[c].decision
  BY DEF CommitEffect, EffectReadsHold, ReceiptsFor
<1>4. ReceiptTruth'
  <2>1. PICK d : d = cmd[c].decision
    OBVIOUS
  <2>2. ASSUME NEW s \in receipts
        PROVE  EffectsOf(s.decision)' = EffectsOf(s.decision)
    BY <1>1, <1>2, <1>3 DEF EffectsOf
  <2>3. e0 \in EffectsOf(d)'
    BY <1>1, <1>2, <2>1 DEF EffectsOf
  <2>4. ASSUME NEW r \in receipts'
        PROVE  IF r.status = "OBSERVED"
               THEN \E e \in EffectsOf(r.decision)' :
                      e.idem = r.idem /\ e.version = r.version /\ e.prior = r.before
               ELSE EffectsOf(r.decision)' = {}
    <3>1. CASE r \in receipts
      BY <3>1, <2>2 DEF ReceiptTruth, TableInv
    <3>2. CASE r = r0
      BY <3>2, <1>2, <2>1, <2>3
    <3>3. QED
      BY <1>1, <3>1, <3>2
  <2>5. ASSUME NEW e \in effects'
        PROVE  \E r \in receipts' : r.decision = e.decision /\ r.status = "OBSERVED"
    BY <1>1, <1>2 DEF ReceiptTruth, TableInv
  <2>6. QED
    BY <2>4, <2>5 DEF ReceiptTruth
<1>5. ObservedIsFinal'
  BY <1>1, <1>2, <1>3 DEF ObservedIsFinal, TableInv
<1>6. EffectChain'
  <2> DEFINE k == Target[cmd[c].decision]
  <2>1. head[c] \in HeadRefs(k)
    BY DEF CommitEffect, EffectReadsHold
  <2>2. head[c].version \in Nat
    BY DEF TableInv, TypeOK, EffectRef
  <2>3. \A f \in OnKey(k) : f.version \in Nat /\ f.version < e0.version
    BY <1>1, <1>2, <2>1, <2>2 DEF HeadRefs, OnKey, Effect
  <2>4. \/ e0.version = 1 /\ e0.prior = Genesis
        \/ \E f \in OnKey(k) :
             /\ e0.prior = [decision |-> f.decision, version |-> f.version]
             /\ e0.version = f.version + 1
    BY <1>2, <2>1 DEF HeadRefs, Genesis
  <2>5. \A j : OnKey(j) \subseteq OnKey(j)'
    BY <1>1 DEF OnKey
  <2>6. ASSUME NEW e \in effects', NEW f \in effects',
               Target[e.decision] = Target[f.decision], e.version = f.version
        PROVE  e = f
    BY <1>1, <1>2, <2>3, <2>6 DEF EffectChain, TableInv, OnKey
  <2>7. ASSUME NEW e \in effects'
        PROVE  \/ e.version = 1 /\ e.prior = Genesis
               \/ \E f \in OnKey(Target[e.decision])' :
                    /\ e.prior = [decision |-> f.decision, version |-> f.version]
                    /\ e.version = f.version + 1
    BY <1>1, <1>2, <2>4, <2>5 DEF EffectChain, TableInv
  <2>8. QED
    BY <2>6, <2>7 DEF EffectChain
<1>7. QED
  BY <1>4, <1>5, <1>6

\* COMMIT of the ERROR transaction keeps the tables consistent: it read that
\* the decision has no effect, hence no OBSERVED receipt either.
LEMMA CommitErrorKeeps ==
  ASSUME TableInv, NEW c \in Caller, CommitError(c)
  PROVE  ReceiptTruth' /\ ObservedIsFinal' /\ EffectChain'
<1> DEFINE r0 == ErrorRow(c)
<1>1. effects' = effects /\ receipts' = receipts \cup {r0}
  BY DEF CommitError
<1>2. r0.decision = cmd[c].decision /\ r0.status = "ERROR"
  BY DEF ErrorRow
<1>3. EffectsOf(r0.decision) = {}
  BY <1>2 DEF CommitError, ErrorReadsHold, EffectCommitted
<1>4. ReceiptTruth'
  BY <1>1, <1>2, <1>3 DEF ReceiptTruth, TableInv, EffectsOf
<1>5. ObservedIsFinal'
  <2>1. \A s \in receipts : s.decision = r0.decision => s.status # "OBSERVED"
    BY <1>3 DEF ReceiptTruth, TableInv
  <2>2. QED
    BY <1>1, <1>2, <2>1 DEF ObservedIsFinal, TableInv
<1>6. EffectChain'
  BY <1>1 DEF EffectChain, TableInv, OnKey
<1>7. QED
  BY <1>4, <1>5, <1>6

\* The tables' invariant is inductive.
LEMMA TableInvStep == TableInv /\ [Next]_vars => TableInv'
<1> SUFFICES ASSUME TableInv, [Next]_vars PROVE TableInv'
  OBVIOUS
<1>1. TypeOK'
  BY NextTypeOK DEF TableInv
<1>2. CASE UNCHANGED <<effects, receipts>>
  BY <1>1, <1>2 DEF TableInv, ReceiptTruth, ObservedIsFinal, EffectChain, EffectsOf, OnKey
<1>3. CASE \E c \in Caller : CommitEffect(c) \/ CommitError(c)
  BY <1>1, <1>3, CommitEffectKeeps, CommitErrorKeeps DEF TableInv
<1>4. QED
  BY <1>2, <1>3, TableSteps

LEMMA TablesCorrect == Spec => []TableInv
<1>1. Init => TableInv
  <2>1. Init => TypeOK
    BY ExecutorAssumption DEF Init, TypeOK, PC, Genesis, EffectRef, Reply
  <2>2. QED
    BY <2>1 DEF Init, TableInv, ReceiptTruth, ObservedIsFinal, EffectChain
<1>2. QED
  BY <1>1, TableInvStep, PTL DEF Spec

\* Receipts never lie: OBSERVED exactly for what is in demo_kv, ERROR only for
\* decisions whose effect never happens.
THEOREM ReceiptsTellTheTruth == Spec => []ReceiptTruth
<1>1. TableInv => ReceiptTruth
  BY DEF TableInv
<1>2. QED
  BY <1>1, TablesCorrect, PTL

\* An OBSERVED receipt stays the only receipt of its decision.
THEOREM ObservedReceiptIsFinal == Spec => []ObservedIsFinal
<1>1. TableInv => ObservedIsFinal
  BY DEF TableInv
<1>2. QED
  BY <1>1, TablesCorrect, PTL

\* The effects of each key are one chain of consecutive versions.
THEOREM EffectsFormChains == Spec => []EffectChain
<1>1. TableInv => EffectChain
  BY DEF TableInv
<1>2. QED
  BY <1>1, TablesCorrect, PTL

-----------------------------------------------------------------------------
(* What callers are told *)

\* The rows a caller holds are stored and belong to its command.
ReplyStored ==
  \A c \in Caller : reply[c].kind = "receipt" =>
    \E r \in receipts : reply[c].rows = {r} /\ r.decision = cmd[c].decision

\* Receipts are never removed.
LEMMA ReceiptsGrow ==
  ASSUME [Next]_vars
  PROVE  receipts \subseteq receipts'
  BY TableSteps DEF CommitEffect, CommitError

\* Every step leaves a caller's reply alone, clears it, or sets it to a row of
\* its own decision that is stored by then.
LEMMA ReplySteps ==
  ASSUME TypeOK, [Next]_vars, NEW b \in Caller
  PROVE  \/ reply'[b] = reply[b] /\ cmd'[b] = cmd[b]
         \/ reply'[b].kind # "receipt"
         \/ \E r \in receipts' : reply'[b].rows = {r} /\ r.decision = cmd'[b].decision
<1> DEFINE Goal ==
      \/ reply'[b] = reply[b] /\ cmd'[b] = cmd[b]
      \/ reply'[b].kind # "receipt"
      \/ \E r \in receipts' : reply'[b].rows = {r} /\ r.decision = cmd'[b].decision
<1>1. ASSUME NEW c \in Caller, NEW kind, NEW rows, Finish(c, kind, rows),
             \/ kind # "receipt"
             \/ \E r \in receipts' : rows = {r} /\ r.decision = cmd[c].decision
      PROVE  Goal
  BY <1>1 DEF Finish, TypeOK
<1>2. ASSUME NEW c \in Caller, NEW to, Continue(c, to) PROVE Goal
  BY <1>2 DEF Continue
<1>3. ASSUME NEW c \in Caller, NEW m \in Command, Invoke(c, m) PROVE Goal
  BY <1>3 DEF Invoke, TypeOK
<1>4. ASSUME NEW c \in Caller, Lookup(c) PROVE Goal
  <2>1. receipts' = receipts
    BY <1>4 DEF Lookup, table
  <2>2. \/ \E kind \in Answer \ {"receipt"} : Finish(c, kind, {})
        \/ \E r \in receipts : /\ Finish(c, "receipt", {r})
                               /\ r.decision = cmd[c].decision
        \/ Continue(c, "insert")
    BY <1>4 DEF Lookup, ReceiptsFor, Answers, Answer
  <2>3. QED
    BY <1>1, <1>2, <2>1, <2>2
<1>5. ASSUME NEW c \in Caller, RecoverLookup(c) PROVE Goal
  <2>1. receipts' = receipts
    BY <1>5 DEF RecoverLookup, table
  <2>2. \/ \E kind \in Answer \ {"receipt"} : Finish(c, kind, {})
        \/ \E r \in receipts : /\ Finish(c, "receipt", {r})
                               /\ r.decision = cmd[c].decision
        \/ Continue(c, "seal")
    BY <1>5 DEF RecoverLookup, ReceiptsByKey, Answer
  <2>3. QED
    BY <1>1, <1>2, <2>1, <2>2
<1>6. ASSUME NEW c \in Caller, CommitEffect(c) PROVE Goal
  <2>1. ObservedRow(c) \in receipts' /\ ObservedRow(c).decision = cmd[c].decision
    BY <1>6 DEF CommitEffect, ObservedRow
  <2>2. Finish(c, "receipt", {ObservedRow(c)}) \/ Finish(c, "raised", {})
    BY <1>6 DEF CommitEffect
  <2>3. QED
    BY <1>1, <2>1, <2>2
<1>7. ASSUME NEW c \in Caller, CommitError(c) PROVE Goal
  <2>1. ErrorRow(c) \in receipts' /\ ErrorRow(c).decision = cmd[c].decision
    BY <1>7 DEF CommitError, ErrorRow
  <2>2. Finish(c, "receipt", {ErrorRow(c)}) \/ Finish(c, "raised", {})
    BY <1>7 DEF CommitError
  <2>3. QED
    BY <1>1, <2>1, <2>2
<1>8. ASSUME NEW c \in Caller,
             \/ InsertEffect(c) \/ InsertFails(c)
             \/ SerializationFailure(c) \/ Abandon(c)
      PROVE  Goal
  BY <1>1, <1>2, <1>8 DEF InsertEffect, InsertFails, SerializationFailure, Abandon
<1>9. CASE \E d \in Decision : Decide(d)
  BY <1>9 DEF Decide
<1>10. CASE UNCHANGED vars
  BY <1>10 DEF vars
<1>11. QED
  BY <1>3, <1>4, <1>5, <1>6, <1>7, <1>8, <1>9, <1>10 DEF Next, Step

LEMMA RepliesStored == Spec => []ReplyStored
<1>1. Init => ReplyStored
  BY DEF Init, ReplyStored
<1>2. TableInv /\ ReplyStored /\ [Next]_vars => ReplyStored'
  BY ReceiptsGrow, ReplySteps DEF ReplyStored, TableInv
<1>3. QED
  BY <1>1, <1>2, TablesCorrect, PTL DEF Spec

\* A caller that got a receipt can rely on it from then on.
THEOREM RepliesAreHonest == Spec => []ReplyHonest
<1>1. TableInv /\ ReplyStored => ReplyHonest
  BY DEF TableInv, ReceiptTruth, ReplyStored, ReplyHonest
<1>2. QED
  BY <1>1, TablesCorrect, RepliesStored, PTL

-----------------------------------------------------------------------------
(* The executor implements Execution *)

\* A call past its lookup acts for a decision that authorises execution, and a
\* decision has at most one effect.
AuthorityHeld ==
  /\ \A c \in Caller : pc[c] \in {"insert", "commit", "recover", "seal"} =>
                         Authorized(cmd[c].decision)
  /\ \A e, f \in effects : e.decision = f.decision => e = f

RefinementInv == TableInv /\ AuthorityHeld

LEMMA AuthorityHeldStep == TableInv /\ AuthorityHeld /\ [Next]_vars => AuthorityHeld'
<1> SUFFICES ASSUME TableInv, AuthorityHeld, [Next]_vars PROVE AuthorityHeld'
  OBVIOUS
<1>1. decisions \subseteq decisions'
  BY DEF Next, Step, vars, table, Decide, Invoke, Lookup, InsertEffect, InsertFails,
         CommitEffect, RecoverLookup, CommitError, SerializationFailure, Abandon
<1>2. \A d : Authorized(d) => Authorized(d)'
  BY <1>1 DEF Authorized
<1>3. ASSUME NEW b \in Caller, pc'[b] \in {"insert", "commit", "recover", "seal"}
      PROVE  Authorized(cmd[b].decision)'
  <2>1. cmd'[b] = cmd[b]
    BY <1>3 DEF Next, Step, vars, Decide, Invoke, Lookup, InsertEffect, InsertFails,
         CommitEffect, RecoverLookup, CommitError, SerializationFailure, Abandon,
         Finish, Continue, TableInv, TypeOK
  <2>2. \/ pc[b] \in {"insert", "commit", "recover", "seal"}
        \/ Authorized(cmd[b].decision)
    BY <1>3 DEF Next, Step, vars, Decide, Invoke, Lookup, InsertEffect, InsertFails,
         CommitEffect, RecoverLookup, CommitError, SerializationFailure, Abandon,
         Finish, Continue, TableInv, TypeOK
  <2>3. Authorized(cmd[b].decision)
    BY <2>2 DEF AuthorityHeld
  <2>4. PICK d : d = cmd[b].decision
    OBVIOUS
  <2>5. QED
    BY <2>1, <2>3, <2>4, <1>2
<1>4. \A e, f \in effects' : e.decision = f.decision => e = f
  <2>1. CASE UNCHANGED effects
    BY <2>1 DEF AuthorityHeld
  <2>2. CASE \E c \in Caller : CommitEffect(c)
    <3>1. PICK c \in Caller : CommitEffect(c)
      BY <2>2
    <3>2. effects' = effects \cup {EffectRow(c)}
      BY <3>1 DEF CommitEffect
    <3>3. \A f \in effects : f.decision # EffectRow(c).decision
      BY <3>1 DEF CommitEffect, EffectAdmitted
    <3>4. QED
      BY <3>2, <3>3 DEF AuthorityHeld
  <2>3. QED
    BY <2>1, <2>2, TableSteps DEF CommitError
<1>5. QED
  BY <1>3, <1>4 DEF AuthorityHeld

\* With one effect per decision, VersionOf is the version of that effect.
LEMMA VersionOfEffect ==
  ASSUME \A e, f \in effects : e.decision = f.decision => e = f,
         NEW e \in effects
  PROVE  VersionOf(e.decision) = e.version
<1>1. EffectsOf(e.decision) = {e}
  BY DEF EffectsOf
<1>2. QED
  BY <1>1 DEF VersionOf

\* The effect commit is the abstract Apply.
LEMMA CommitEffectApplies ==
  ASSUME RefinementInv, RefinementInv', NEW c \in Caller, CommitEffect(c)
  PROVE  Abstract!Apply(cmd[c].decision)
<1> USE ExecutorAssumption
<1> DEFINE e0 == EffectRow(c)
<1>0. PICK d0 : d0 = cmd[c].decision
  OBVIOUS
<1>1. /\ d0 \in Decision /\ pc[c] = "commit"
      /\ e0 \in Effect /\ e0.decision = d0 /\ e0.version = head[c].version + 1
      /\ effects' = effects \cup {e0}
      /\ receipts' = receipts \cup {ObservedRow(c)}
      /\ ObservedRow(c).decision = d0
      /\ decisions' = decisions
      /\ effects \subseteq Effect
  BY <1>0, RowTypes DEF CommitEffect, RefinementInv, TableInv, TypeOK, Command,
                        EffectRow, ObservedRow
<1>2. Authorized(d0) /\ d0 \in decisions
  BY <1>0, <1>1 DEF RefinementInv, AuthorityHeld, Authorized
<1>3. \A r \in receipts : r.decision # d0
  BY <1>0 DEF CommitEffect, EffectReadsHold, ReceiptsFor
<1>4. EffectsOf(d0) = {}
  BY <1>3 DEF EffectsOf, RefinementInv, TableInv, ReceiptTruth
<1>5. OutcomeOf(d0) = "NONE"
  BY <1>3, <1>4 DEF OutcomeOf
<1>6. EffectsOf(d0)' = {e0} /\ OutcomeOf(d0)' = "OBSERVED" /\ VersionOf(d0)' = e0.version
  BY <1>1, <1>4 DEF EffectsOf, OutcomeOf, VersionOf
<1>7. ASSUME NEW d \in Decision, d # d0
      PROVE  OutcomeOf(d)' = OutcomeOf(d) /\ VersionOf(d)' = VersionOf(d)
  <2>1. EffectsOf(d)' = EffectsOf(d)
    BY <1>1, <1>7 DEF EffectsOf
  <2>2. QED
    BY <1>1, <1>7, <2>1 DEF OutcomeOf, VersionOf
<1>8. e0.version \in Abstract!NextVersions(Target[d0])
  <2> DEFINE V == [d \in Decision |-> VersionOf(d)]
             K == {d \in Decision : Target[d] = Target[d0]}
  <2>1. head[c] \in HeadRefs(Target[d0]) /\ head[c].version \in Nat
    BY <1>0 DEF CommitEffect, EffectReadsHold, RefinementInv, TableInv, TypeOK, EffectRef
  <2>2. \A f \in OnKey(Target[d0]) :
          f.decision \in K /\ V[f.decision] = f.version /\ f.version \in Nat
    BY <1>1, VersionOfEffect DEF OnKey, Effect, RefinementInv, AuthorityHeld
  <2>3. \A d \in K : V[d] = 0 \/ \E f \in OnKey(Target[d0]) : V[d] = f.version
    BY DEF VersionOf, EffectsOf, OnKey
  <2>4. \A f \in OnKey(Target[d0]) : f.version <= head[c].version
    BY <2>1 DEF HeadRefs, OnKey
  <2>5. \A d \in K : V[d] < e0.version
    <3>1. TAKE d \in K
    <3>2. V[d] \in Nat /\ V[d] <= head[c].version
      <4> HIDE DEF V, K
      <4>1. V[d] = 0 \/ \E f \in OnKey(Target[d0]) : V[d] = f.version
        BY <2>3
      <4>2. QED
        BY <2>1, <2>2, <2>4, <4>1
    <3>3. QED
      BY <1>1, <2>1, <3>2
  <2>6. e0.version \in {1} \cup {V[d] + 1 : d \in K}
    <3>1. \/ head[c].version = 0
          \/ \E f \in OnKey(Target[d0]) : head[c].version = f.version
      BY <2>1 DEF HeadRefs, Genesis
    <3>2. CASE head[c].version = 0
      BY <1>1, <3>2
    <3>3. CASE \E f \in OnKey(Target[d0]) : head[c].version = f.version
      <4>1. PICK f \in OnKey(Target[d0]) : head[c].version = f.version
        BY <3>3
      <4>2. f.decision \in K /\ e0.version = V[f.decision] + 1
        BY <1>1, <2>2, <4>1
      <4>3. QED
        BY <4>2
    <3>4. QED
      BY <3>1, <3>2, <3>3
  <2>7. QED
    BY <2>5, <2>6 DEF Abstract!NextVersions, Abstract!OnKey
<1>9. {d \in decisions : Authorized(d)}' = {d \in decisions : Authorized(d)}
  BY <1>1 DEF Authorized
<1>10. QED
  BY <1>0, <1>1, <1>2, <1>5, <1>6, <1>7, <1>8, <1>9 DEF Abstract!Apply

\* The ERROR commit is the abstract Reject, or repeats it unseen.
LEMMA CommitErrorRejects ==
  ASSUME RefinementInv, RefinementInv', NEW c \in Caller, CommitError(c)
  PROVE  Abstract!Reject(cmd[c].decision) \/ UNCHANGED Abstract!avars
<1> USE ExecutorAssumption
<1>0. PICK d0 : d0 = cmd[c].decision
  OBVIOUS
<1>1. /\ d0 \in Decision /\ pc[c] = "seal"
      /\ effects' = effects /\ decisions' = decisions
      /\ receipts' = receipts \cup {ErrorRow(c)}
      /\ ErrorRow(c).decision = d0
  BY <1>0 DEF CommitError, RefinementInv, TableInv, TypeOK, Command, ErrorRow
<1>2. Authorized(d0) /\ d0 \in decisions
  BY <1>0, <1>1 DEF RefinementInv, AuthorityHeld, Authorized
<1>3. EffectsOf(d0) = {}
  BY <1>0 DEF CommitError, ErrorReadsHold, EffectCommitted
<1>4. \A d : EffectsOf(d)' = EffectsOf(d) /\ VersionOf(d)' = VersionOf(d)
  BY <1>1 DEF EffectsOf, VersionOf
<1>5. OutcomeOf(d0)' = "ERROR"
  BY <1>1, <1>3, <1>4 DEF OutcomeOf
<1>6. OutcomeOf(d0) \in {"NONE", "ERROR"}
  BY <1>3 DEF OutcomeOf
<1>7. \A d \in Decision : d # d0 => OutcomeOf(d)' = OutcomeOf(d)
  BY <1>1, <1>4 DEF OutcomeOf
<1>8. {d \in decisions : Authorized(d)}' = {d \in decisions : Authorized(d)}
  BY <1>1 DEF Authorized
<1>9. CASE OutcomeOf(d0) = "NONE"
  BY <1>0, <1>1, <1>2, <1>4, <1>5, <1>7, <1>8, <1>9 DEF Abstract!Reject
<1>10. CASE OutcomeOf(d0) = "ERROR"
  BY <1>1, <1>4, <1>5, <1>7, <1>8, <1>10 DEF Abstract!avars
<1>11. QED
  BY <1>6, <1>9, <1>10

\* Every step of the executor is a step of Execution or invisible to it.
LEMMA RefinementStep ==
  RefinementInv /\ RefinementInv' /\ [Next]_vars => [Abstract!ANext]_(Abstract!avars)
<1> SUFFICES ASSUME RefinementInv, RefinementInv', [Next]_vars
             PROVE  Abstract!ANext \/ UNCHANGED Abstract!avars
  OBVIOUS
<1>1. CASE \E d \in Decision : Decide(d)
  <2>1. PICK d \in Decision : Decide(d)
    BY <1>1
  <2>2. UNCHANGED <<effects, receipts>> /\ decisions' = decisions \cup {d}
    BY <2>1 DEF Decide
  <2>3. \A x : OutcomeOf(x)' = OutcomeOf(x) /\ VersionOf(x)' = VersionOf(x)
    BY <2>2 DEF OutcomeOf, VersionOf, EffectsOf
  <2>4. \/ {x \in decisions : Authorized(x)}' = {x \in decisions : Authorized(x)} \cup {d}
        \/ {x \in decisions : Authorized(x)}' = {x \in decisions : Authorized(x)}
    BY <2>2 DEF Authorized
  <2>5. QED
    BY <2>3, <2>4 DEF Abstract!ANext, Abstract!Authorize, Abstract!avars
<1>2. CASE \E c \in Caller : CommitEffect(c)
  <2>1. PICK c \in Caller : CommitEffect(c)
    BY <1>2
  <2>2. cmd[c].decision \in Decision
    BY <2>1 DEF CommitEffect, RefinementInv, TableInv, TypeOK, Command
  <2>3. QED
    BY <2>1, <2>2, CommitEffectApplies DEF Abstract!ANext
<1>3. CASE \E c \in Caller : CommitError(c)
  <2>1. PICK c \in Caller : CommitError(c)
    BY <1>3
  <2>2. cmd[c].decision \in Decision
    BY <2>1 DEF CommitError, RefinementInv, TableInv, TypeOK, Command
  <2>3. QED
    BY <2>1, <2>2, CommitErrorRejects DEF Abstract!ANext
<1>4. CASE UNCHANGED <<decisions, effects, receipts>>
  <2>1. \A x : OutcomeOf(x)' = OutcomeOf(x) /\ VersionOf(x)' = VersionOf(x)
    BY <1>4 DEF OutcomeOf, VersionOf, EffectsOf
  <2>2. QED
    BY <1>4, <2>1 DEF Abstract!avars, Authorized
<1>5. QED
  BY <1>1, <1>2, <1>3, <1>4
     DEF Next, Step, vars, table, Invoke, Lookup, InsertEffect, InsertFails,
         RecoverLookup, SerializationFailure, Abandon

\* The executor, with all its retries, crashes and repeated commands, settles
\* decisions exactly as Execution allows.
THEOREM ExecutorImplementsExecution == Spec => Implements
<1>1. Init => Abstract!AInit
  BY ExecutorAssumption DEF Init, Abstract!AInit, OutcomeOf, VersionOf, EffectsOf
<1>2. Init => AuthorityHeld
  BY DEF Init, AuthorityHeld
<1>3. Spec => []AuthorityHeld
  BY <1>2, AuthorityHeldStep, TablesCorrect, PTL DEF Spec
<1>4. RefinementInv <=> TableInv /\ AuthorityHeld
  BY DEF RefinementInv
<1>5. QED
  BY <1>1, <1>3, <1>4, RefinementStep, TablesCorrect, PTL
     DEF Spec, Implements, Abstract!ASpec

-----------------------------------------------------------------------------
(* How long a call can run *)

\* The steps a call has left at most, by what it does next and the attempts it
\* has used of the _retry envelope it is in: three steps per attempt of the
\* effect transaction, two per attempt of the ERROR transaction.
StepsLeft(at, used) ==
  CASE at = "idle"    -> 0
    [] at = "seal"    -> 2 * (MaxAttempts - used) + 1
    [] at = "recover" -> 2 * (MaxAttempts - used) + 2
    [] at = "commit"  -> 2 * MaxAttempts + 3 * (MaxAttempts - used) + 1
    [] at = "insert"  -> 2 * MaxAttempts + 3 * (MaxAttempts - used) + 2
    [] at = "lookup"  -> 2 * MaxAttempts + 3 * (MaxAttempts - used) + 3

CallBounded == \A c \in Caller : StepsLeft(pc[c], tries[c]) \in 0 .. 5 * MaxAttempts

\* A step of a running call brings it nearer to its end, and no step of another
\* caller, nor a decision, sends it back.
CallNearsEnd ==
  \A c \in Caller : \/ StepsLeft(pc'[c], tries'[c]) < StepsLeft(pc[c], tries[c])
                    \/ ~Step(c) /\ (pc[c] = "idle" \/ (pc'[c] = pc[c] /\ tries'[c] = tries[c]))

LEMMA StepsLeftBounded ==
  ASSUME NEW at \in PC, NEW used \in 0 .. MaxAttempts, at # "idle" => used > 0
  PROVE  StepsLeft(at, used) \in 0 .. 5 * MaxAttempts
BY ExecutorAssumption DEF StepsLeft, PC

\* What a call may do to its program counter and attempt counter.
LEMMA StepWays ==
  ASSUME TypeOK, NEW c \in Caller, Step(c) \/ Abandon(c)
  PROVE  /\ \/ pc'[c] = "idle"
            \/ pc[c] = "lookup" /\ pc'[c] = "insert" /\ tries'[c] = tries[c]
            \/ pc[c] = "insert" /\ pc'[c] = "commit" /\ tries'[c] = tries[c]
            \/ pc[c] = "insert" /\ pc'[c] = "recover" /\ tries'[c] = 1
            \/ pc[c] = "recover" /\ pc'[c] = "seal" /\ tries'[c] = tries[c]
            \/ /\ pc[c] \in {"recover", "seal"} /\ pc'[c] = "recover"
               /\ tries[c] < MaxAttempts /\ tries'[c] = tries[c] + 1
            \/ /\ pc[c] \in {"lookup", "insert", "commit"} /\ pc'[c] = "lookup"
               /\ tries[c] < MaxAttempts /\ tries'[c] = tries[c] + 1
         /\ pc[c] # "idle"
         /\ \A b \in Caller \ {c} : pc'[b] = pc[b] /\ tries'[b] = tries[b]
<1> USE DEF Finish, Continue
<1>0. pc \in [Caller -> PC] /\ tries \in [Caller -> 0 .. MaxAttempts]
  BY DEF TypeOK
<1>1. CASE Lookup(c)
  BY <1>0, <1>1 DEF Lookup
<1>2. CASE InsertEffect(c)
  BY <1>0, <1>2 DEF InsertEffect
<1>3. CASE InsertFails(c)
  BY <1>0, <1>3 DEF InsertFails
<1>4. CASE CommitEffect(c)
  BY <1>0, <1>4 DEF CommitEffect
<1>5. CASE RecoverLookup(c)
  BY <1>0, <1>5 DEF RecoverLookup
<1>6. CASE CommitError(c)
  BY <1>0, <1>6 DEF CommitError
<1>7. CASE SerializationFailure(c)
  BY <1>0, <1>7 DEF SerializationFailure, PC
<1>8. CASE Abandon(c)
  BY <1>0, <1>8 DEF Abandon
<1>9. QED
  BY <1>1, <1>2, <1>3, <1>4, <1>5, <1>6, <1>7, <1>8 DEF Step

LEMMA StepsLeftFall ==
  ASSUME TypeOK, NEW c \in Caller, Step(c) \/ Abandon(c)
  PROVE  StepsLeft(pc'[c], tries'[c]) < StepsLeft(pc[c], tries[c])
<1>1. /\ pc[c] \in PC \ {"idle"} /\ tries[c] \in 1 .. MaxAttempts
      /\ MaxAttempts \in Nat
  BY StepWays, ExecutorAssumption DEF TypeOK
<1>2. QED
  BY <1>1, StepWays DEF StepsLeft, PC

\* A call ends within 5 * MaxAttempts steps of its own, whatever the other
\* callers do and however often the database answers 40001: the safety half of
\* CallReturns (executor.py:_execute, _append_error; memory.py:_retry).
THEOREM CallsNearTheirEnd == Spec => []CallBounded /\ [][CallNearsEnd]_vars
<1>1. TypeOK => CallBounded
  BY StepsLeftBounded DEF TypeOK, CallBounded
<1>2. TypeOK /\ [Next]_vars => [CallNearsEnd]_vars
  <2> SUFFICES ASSUME TypeOK, Next PROVE CallNearsEnd
    OBVIOUS
  <2>1. \A c \in Caller : Step(c) => StepsLeft(pc'[c], tries'[c]) < StepsLeft(pc[c], tries[c])
    BY StepsLeftFall
  <2>2. ASSUME NEW d \in Decision, Decide(d) PROVE CallNearsEnd
    BY <2>1, <2>2 DEF Decide, CallNearsEnd
  <2>3. ASSUME NEW b \in Caller, NEW m \in Command, Invoke(b, m) PROVE CallNearsEnd
    <3>1. \A c \in Caller : pc[c] = "idle" \/ (pc'[c] = pc[c] /\ tries'[c] = tries[c])
      BY <2>3 DEF Invoke, TypeOK
    <3>2. QED
      BY <2>1, <3>1 DEF CallNearsEnd
  <2>4. ASSUME NEW b \in Caller, Step(b) \/ Abandon(b) PROVE CallNearsEnd
    <3>1. \A c \in Caller \ {b} : pc'[c] = pc[c] /\ tries'[c] = tries[c]
      BY <2>4, StepWays
    <3>2. StepsLeft(pc'[b], tries'[b]) < StepsLeft(pc[b], tries[b])
      BY <2>4, StepsLeftFall
    <3>3. QED
      BY <2>1, <3>1, <3>2 DEF CallNearsEnd
  <2>5. QED
    BY <2>2, <2>3, <2>4 DEF Next
<1>3. QED
  BY <1>1, <1>2, TypeCorrect, PTL DEF Spec
=============================================================================
