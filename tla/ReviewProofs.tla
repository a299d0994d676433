----------------------------- MODULE ReviewProofs -----------------------------
(* Machine-checked theorems about module Review, for every set of proposals, *)
(* humans, operators and keys and every bound on the clock.                  *)
EXTENDS Review, TLAPS

-----------------------------------------------------------------------------
(* Type correctness *)

\* Ending a decide call keeps its local state well typed.
LEMMA AnsweredType ==
  ASSUME TypeOK, NEW h \in Human, NEW answer \in Answer, Answered(h, answer)
  PROVE  /\ hpc' \in [Human -> {"idle", "check", "append"}]
         /\ request' \in [Human -> Request \cup {NoRequest}]
         /\ since' \in [Human -> 0 .. MaxTick]
         /\ reply' \in [Human -> Answer]
         /\ \A g \in Human : hpc'[g] # "idle" => request'[g] \in Request
<1>1. 0 \in 0 .. MaxTick
  BY ReviewAssumption
<1>2. QED
  BY <1>1 DEF TypeOK, Answered

\* Ending a re-evaluation keeps the operators' local state well typed.
LEMMA CloseType ==
  ASSUME TypeOK, NEW o \in Operator, Close(o)
  PROVE  /\ opc' \in [Operator -> {"idle", "running"}]
         /\ subject' \in [Operator -> Proposal \cup {NoProposal}]
         /\ began' \in [Operator -> 0 .. MaxTick]
         /\ \A q \in Operator :
              opc'[q] = "running" => subject'[q] \in Proposal /\ began'[q] \in Tick
<1>1. 0 \in 0 .. MaxTick
  BY ReviewAssumption
<1>2. QED
  BY <1>1 DEF TypeOK, Close

\* Every action of review preserves the type invariant.
LEMMA NextTypeOK == TypeOK /\ [Next]_vars => TypeOK'
<1> SUFFICES ASSUME TypeOK, [Next]_vars PROVE TypeOK'
  OBVIOUS
<1> USE ReviewAssumption
<1>1. ASSUME NEW p \in Proposal, AppendProposal(p) PROVE TypeOK'
  <2>1. tick + 1 \in Tick /\ tick' \in 0 .. MaxTick
    BY <1>1 DEF AppendProposal, TypeOK, Tick
  <2>2. evaluations' \subseteq Evaluation
    BY <1>1, <2>1 DEF AppendProposal, TypeOK, Evaluation
  <2>3. QED
    BY <1>1, <2>1, <2>2 DEF AppendProposal, TypeOK, humanVars, operatorVars
<1>2. ASSUME NEW o \in Operator, NEW p \in Proposal, BeginReevaluation(o, p) PROVE TypeOK'
  <2>1. tick' \in Tick /\ tick' \in 0 .. MaxTick
    BY <1>2 DEF BeginReevaluation, TypeOK, Tick
  <2>2. QED
    BY <1>2, <2>1 DEF BeginReevaluation, TypeOK, humanVars, rows
<1>3. ASSUME NEW o \in Operator, CommitReevaluation(o) PROVE TypeOK'
  <2>1. /\ tick + 1 \in Tick /\ tick' \in 0 .. MaxTick
        /\ subject[o] \in Proposal /\ began[o] \in Tick
    BY <1>3 DEF CommitReevaluation, TypeOK, Tick
  <2>2. evaluations' \subseteq Evaluation
    BY <1>3, <2>1 DEF CommitReevaluation, ReevaluationRow, TypeOK, Evaluation,
                      LatestFinalized, Newest, EvaluationsOf
  <2>3. QED
    BY <1>3, <2>1, <2>2, CloseType DEF CommitReevaluation, TypeOK, humanVars
<1>4. ASSUME NEW o \in Operator, AbandonReevaluation(o) PROVE TypeOK'
  BY <1>4, CloseType DEF AbandonReevaluation, TypeOK, humanVars, rows
<1>5. ASSUME NEW h \in Human, NEW m \in Request, Call(h, m) PROVE TypeOK'
  <2>1. UNCHANGED <<rows, tick, operatorVars>>
    BY <1>5 DEF Call
  <2>2. CASE Answered(h, "refused")
    BY <2>1, <2>2, AnsweredType DEF TypeOK, Answer, rows, operatorVars
  <2>3. CASE ~Answered(h, "refused")
    BY <1>5, <2>1, <2>3 DEF Call, TypeOK, Answer, rows, operatorVars
  <2>4. QED
    BY <2>2, <2>3
<1>6. ASSUME NEW h \in Human, CheckEvaluation(h) PROVE TypeOK'
  <2>1. UNCHANGED <<rows, tick, operatorVars>>
    BY <1>6 DEF CheckEvaluation
  <2>2. CASE Answered(h, "stale")
    BY <2>1, <2>2, AnsweredType DEF TypeOK, Answer, rows, operatorVars
  <2>3. CASE ~Answered(h, "stale")
    BY <1>6, <2>1, <2>3 DEF CheckEvaluation, TypeOK, rows, operatorVars
  <2>4. QED
    BY <2>2, <2>3
<1>7. ASSUME NEW h \in Human, Replay(h) \/ RefuseSecond(h) \/ AbandonDecision(h)
      PROVE TypeOK'
  <2>1. UNCHANGED <<rows, tick, operatorVars>>
    BY <1>7 DEF Replay, RefuseSecond, AbandonDecision
  <2>2. \E answer \in Answer : Answered(h, answer)
    BY <1>7 DEF Replay, RefuseSecond, AbandonDecision, Answer
  <2>3. QED
    BY <2>1, <2>2, AnsweredType DEF TypeOK, rows, operatorVars
<1>8. ASSUME NEW h \in Human, AppendDecision(h) PROVE TypeOK'
  <2>1. request[h] \in Request
    BY <1>8 DEF AppendDecision, TypeOK
  <2>2. decisions' \subseteq Decision /\ exclusions' \subseteq Key
    BY <1>8, <2>1 DEF AppendDecision, ExclusionsWith, DecisionRow, Decision, Request, TypeOK
  <2>3. \E answer \in Answer : Answered(h, answer)
    BY <1>8 DEF AppendDecision, Answer
  <2>4. QED
    BY <1>8, <2>2, <2>3, AnsweredType DEF AppendDecision, TypeOK, operatorVars
<1>9. CASE UNCHANGED vars
  BY <1>9 DEF TypeOK, vars, rows, humanVars, operatorVars
<1>10. QED
  BY <1>1, <1>2, <1>3, <1>4, <1>5, <1>6, <1>7, <1>8, <1>9 DEF Next

\* The tables and the calls keep their shape, and a call that runs has its
\* request (TypeOK), however many humans and operators work at once.
THEOREM TypeCorrect == Spec => []TypeOK
<1>1. Init => TypeOK
  BY ReviewAssumption DEF Init, TypeOK, Answer
<1>2. QED
  BY <1>1, NextTypeOK, PTL DEF Spec

-----------------------------------------------------------------------------
(* The inductive invariant *)

\* UNIQUE (idempotency_key) and UNIQUE (proposal_id) of table decisions
UniqueDecisions ==
  \A d, e \in decisions : d.key = e.key \/ d.proposal = e.proposal => d = e

\* An exclusion belongs to a stored rejection.
Owned == \A k \in exclusions : \E d \in decisions : d.key = k /\ d.value = "REJECT"

\* Commit numbers are distinct and in the past, and no BLOCKED row is stored.
Committed ==
  \A e, f \in evaluations :
    e.id <= tick /\ e.status = "FINALIZED" /\ (e.id = f.id => e = f)

\* A running decide call began in the past and asks for no exclusion but with REJECT.
Admissible ==
  \A h \in Human :
    /\ since[h] <= tick
    /\ hpc[h] # "idle" /\ request[h].exclude => request[h].value = "REJECT"

ReviewInv ==
  /\ TypeOK /\ UniqueDecisions /\ Owned /\ Committed /\ Admissible
  /\ ReplyHonest /\ Rooted /\ CheckedIsCurrent

\* A newly committed evaluation takes a number of its own.
LEMMA AddEvaluation ==
  ASSUME TypeOK, Committed, Rooted, tick' = tick + 1,
         NEW r \in Evaluation, r.id = tick + 1, r.status = "FINALIZED",
         evaluations' = evaluations \cup {r},
         \/ r.prior = NoEvaluation /\ EvaluationsOf(r.proposal) = {}
         \/ \E g \in EvaluationsOf(r.proposal) : r.prior = g.id
  PROVE  Committed' /\ Rooted'
<1> USE ReviewAssumption
<1>1. tick \in Nat /\ tick + 1 \in Nat /\ \A e \in evaluations : e.id \in Nat /\ e.id <= tick
  BY DEF TypeOK, Committed, Evaluation, Tick
<1>2. \A e \in evaluations : e.id # r.id
  BY <1>1
<1>3. Committed'
  <2> SUFFICES ASSUME NEW e \in evaluations', NEW f \in evaluations'
               PROVE  e.id <= tick' /\ e.status = "FINALIZED" /\ (e.id = f.id => e = f)
    BY DEF Committed
  <2>1. e \in evaluations \/ e = r
    OBVIOUS
  <2>2. f \in evaluations \/ f = r
    OBVIOUS
  <2>3. e.id <= tick' /\ e.status = "FINALIZED"
    BY <1>1, <2>1 DEF Committed
  <2>4. e.id = f.id => e = f
    BY <1>2, <2>1, <2>2 DEF Committed
  <2>5. QED
    BY <2>3, <2>4
<1>4. Rooted'
  <2> SUFFICES ASSUME NEW e \in evaluations', NEW f \in evaluations'
               PROVE  /\ e.prior # NoEvaluation =>
                           \E g \in EvaluationsOf(e.proposal)' : g.id = e.prior /\ g.id < e.id
                      /\ e.prior = NoEvaluation /\ f.prior = NoEvaluation
                           /\ e.proposal = f.proposal => e = f
    BY DEF Rooted, EvaluationsOf
  <2>1. e \in evaluations \/ e = r
    OBVIOUS
  <2>2. f \in evaluations \/ f = r
    OBVIOUS
  <2>3. r.prior # NoEvaluation =>
          \E g \in EvaluationsOf(r.proposal) : g.id = r.prior /\ g.id < r.id
    BY <1>1 DEF EvaluationsOf
  <2>4. e.prior # NoEvaluation =>
          \E g \in EvaluationsOf(e.proposal) : g.id = e.prior /\ g.id < e.id
    BY <2>1, <2>3 DEF Rooted
  <2>5. e.prior = NoEvaluation /\ f.prior = NoEvaluation /\ e.proposal = f.proposal => e = f
    <3>1. ASSUME NEW e1 \in evaluations, e1.proposal = r.proposal, r.prior = NoEvaluation
          PROVE  FALSE
      <4>1. e1 \in EvaluationsOf(r.proposal)
        BY <3>1 DEF EvaluationsOf
      <4>2. \A g \in EvaluationsOf(r.proposal) : g.id \in Nat
        BY <1>1 DEF EvaluationsOf
      <4>3. QED
        BY <3>1, <4>1, <4>2
    <3>2. QED
      BY <2>1, <2>2, <3>1 DEF Rooted
  <2>6. QED
    BY <2>4, <2>5 DEF EvaluationsOf
<1>5. QED
  BY <1>3, <1>4

\* The invariants about evaluations are preserved.
LEMMA EvaluationStep ==
  ASSUME ReviewInv, [Next]_vars
  PROVE  Committed' /\ Rooted' /\ tick \in Nat /\ tick' \in Nat /\ tick <= tick'
<1> USE ReviewAssumption DEF ReviewInv
<1>0. tick \in Nat /\ tick + 1 \in Nat
  BY DEF TypeOK
<1>1. ASSUME NEW p \in Proposal, AppendProposal(p) PROVE Committed' /\ Rooted' /\ tick' = tick + 1
  <2> DEFINE r == [id |-> tick + 1, proposal |-> p, at |-> tick + 1,
                   status |-> "FINALIZED", prior |-> NoEvaluation]
  <2>1. evaluations' = evaluations \cup {r} /\ tick' = tick + 1 /\ EvaluationsOf(p) = {}
    BY <1>1 DEF AppendProposal, Storable
  <2>2. r \in Evaluation
    BY <1>1 DEF AppendProposal, Evaluation, Tick, Status, TypeOK
  <2>3. QED
    BY <2>1, <2>2, AddEvaluation
<1>2. ASSUME NEW o \in Operator, CommitReevaluation(o) PROVE Committed' /\ Rooted' /\ tick' = tick + 1
  <2>1. PICK e \in LatestFinalized(subject[o]) :
          evaluations' = evaluations \cup {ReevaluationRow(o, e, "FINALIZED")}
    BY <1>2 DEF CommitReevaluation, Storable
  <2>2. e \in EvaluationsOf(subject[o]) /\ e \in evaluations
    BY DEF LatestFinalized, Newest, EvaluationsOf
  <2>3. ReevaluationRow(o, e, "FINALIZED") \in Evaluation
    BY <1>2, <2>2 DEF CommitReevaluation, ReevaluationRow, Evaluation, Tick, Status, TypeOK
  <2>4. tick' = tick + 1
    BY <1>2 DEF CommitReevaluation
  <2>5. /\ ReevaluationRow(o, e, "FINALIZED").id = tick + 1
        /\ ReevaluationRow(o, e, "FINALIZED").status = "FINALIZED"
        /\ ReevaluationRow(o, e, "FINALIZED").proposal = subject[o]
        /\ ReevaluationRow(o, e, "FINALIZED").prior = e.id
    BY DEF ReevaluationRow
  <2>6. QED
    BY <2>1, <2>2, <2>3, <2>4, <2>5, AddEvaluation
<1>3. ASSUME evaluations' = evaluations, tick' \in {tick, tick + 1}
      PROVE  Committed' /\ Rooted'
  <2>1. Committed'
    BY <1>0, <1>3 DEF Committed, TypeOK, Evaluation, Tick
  <2>2. Rooted'
    BY <1>3 DEF Rooted, EvaluationsOf
  <2>3. QED
    BY <2>1, <2>2
<1>4. \/ \E p \in Proposal : AppendProposal(p)
      \/ \E o \in Operator : CommitReevaluation(o)
      \/ evaluations' = evaluations /\ tick' \in {tick, tick + 1}
  BY DEF Next, vars, rows, BeginReevaluation, AbandonReevaluation, Call, CheckEvaluation,
         Replay, RefuseSecond, AppendDecision, AbandonDecision
<1>5. QED
  BY <1>0, <1>1, <1>2, <1>3, <1>4

\* What a step does to one decide call, seen from outside.
LEMMA CallStep ==
  ASSUME ReviewInv, [Next]_vars, NEW h \in Human
  PROVE  \/ /\ hpc'[h] = hpc[h] /\ request'[h] = request[h]
            /\ since'[h] = since[h] /\ reply'[h] = reply[h]
         \/ /\ hpc'[h] = "check" /\ since'[h] = tick /\ reply'[h] = "none"
            /\ request'[h].exclude => request'[h].value = "REJECT"
            /\ UNCHANGED rows
         \/ /\ hpc[h] = "check" /\ hpc'[h] = "append" /\ Exact(request[h])
            /\ request'[h] = request[h] /\ since'[h] = since[h] /\ reply'[h] = reply[h]
            /\ UNCHANGED rows
         \/ hpc'[h] = "idle" /\ since'[h] = 0 /\ reply'[h] \in {"stale", "refused", "raised"}
         \/ /\ hpc'[h] = "idle" /\ since'[h] = 0 /\ request'[h] = request[h]
            /\ AppendDecision(h) \/ (Replay(h) /\ \E d \in decisions : SameRequest(d, request[h]))
<1> USE DEF ReviewInv
<1>1. ASSUME NEW g \in Human, g # h,
             \/ \E m \in Request : Call(g, m)
             \/ CheckEvaluation(g) \/ Replay(g) \/ RefuseSecond(g)
             \/ AppendDecision(g) \/ AbandonDecision(g)
      PROVE  /\ hpc'[h] = hpc[h] /\ request'[h] = request[h]
             /\ since'[h] = since[h] /\ reply'[h] = reply[h]
  BY <1>1 DEF TypeOK, Call, CheckEvaluation, Replay, RefuseSecond, AppendDecision,
              AbandonDecision, Answered
<1>2. ASSUME NEW m \in Request, Call(h, m)
      PROVE  \/ /\ hpc'[h] = "check" /\ since'[h] = tick /\ reply'[h] = "none"
                /\ request'[h].exclude => request'[h].value = "REJECT"
                /\ UNCHANGED rows
             \/ hpc'[h] = "idle" /\ since'[h] = 0 /\ reply'[h] \in {"stale", "refused", "raised"}
  BY <1>2 DEF TypeOK, Call, Answered
<1>3. ASSUME CheckEvaluation(h)
      PROVE  \/ /\ hpc[h] = "check" /\ hpc'[h] = "append" /\ Exact(request[h])
                /\ request'[h] = request[h] /\ since'[h] = since[h] /\ reply'[h] = reply[h]
                /\ UNCHANGED rows
             \/ hpc'[h] = "idle" /\ since'[h] = 0 /\ reply'[h] \in {"stale", "refused", "raised"}
  BY <1>3 DEF TypeOK, CheckEvaluation, Answered
<1>4. ASSUME RefuseSecond(h) \/ AbandonDecision(h)
      PROVE  hpc'[h] = "idle" /\ since'[h] = 0 /\ reply'[h] \in {"stale", "refused", "raised"}
  BY <1>4 DEF TypeOK, RefuseSecond, AbandonDecision, Answered
<1>5. ASSUME Replay(h)
      PROVE  \/ hpc'[h] = "idle" /\ since'[h] = 0 /\ reply'[h] \in {"stale", "refused", "raised"}
             \/ /\ hpc'[h] = "idle" /\ since'[h] = 0 /\ request'[h] = request[h]
                /\ \E d \in decisions : SameRequest(d, request[h])
  BY <1>5 DEF TypeOK, Replay, Answered
<1>6. ASSUME AppendDecision(h)
      PROVE  \/ hpc'[h] = "idle" /\ since'[h] = 0 /\ reply'[h] \in {"stale", "refused", "raised"}
             \/ hpc'[h] = "idle" /\ since'[h] = 0 /\ request'[h] = request[h]
  BY <1>6 DEF TypeOK, AppendDecision, Answered
<1>7. ASSUME UNCHANGED humanVars
      PROVE  /\ hpc'[h] = hpc[h] /\ request'[h] = request[h]
             /\ since'[h] = since[h] /\ reply'[h] = reply[h]
  BY <1>7 DEF humanVars
<1>8. \/ \E g \in Human : \/ \E m \in Request : Call(g, m)
                          \/ CheckEvaluation(g) \/ Replay(g) \/ RefuseSecond(g)
                          \/ AppendDecision(g) \/ AbandonDecision(g)
      \/ UNCHANGED humanVars
  BY DEF Next, vars, AppendProposal, BeginReevaluation, CommitReevaluation, AbandonReevaluation
<1>9. QED
  BY <1>1, <1>2, <1>3, <1>4, <1>5, <1>6, <1>7, <1>8

\* The decision tables change only by AppendDecision.
LEMMA DecisionTables ==
  ASSUME [Next]_vars
  PROVE  \/ decisions' = decisions /\ exclusions' = exclusions
         \/ \E h \in Human : AppendDecision(h)
  BY DEF Next, vars, rows, AppendProposal, BeginReevaluation, CommitReevaluation,
         AbandonReevaluation, Call, CheckEvaluation, Replay, RefuseSecond, AbandonDecision

\* A new decision brings a new key, on an undecided proposal, and its own
\* exclusion; every other key keeps its exclusion status.
LEMMA NewDecision ==
  ASSUME ReviewInv, NEW h \in Human, AppendDecision(h)
  PROVE  /\ decisions' = decisions \cup {DecisionRow(request[h])}
         /\ \A d \in decisions : d.key # request[h].key /\ d.proposal # request[h].proposal
         /\ request[h] \in Request
         /\ request[h].key \notin exclusions
         /\ request[h].key \in exclusions' <=> request[h].exclude
         /\ \A d \in decisions : d.key \in exclusions' <=> d.key \in exclusions
<1>1. request[h] \in Request /\ request[h].exclude \in BOOLEAN
  BY DEF ReviewInv, TypeOK, AppendDecision, Request
<1>2. \A d \in decisions : d.key # request[h].key /\ d.proposal # request[h].proposal
  BY DEF AppendDecision, KeyIsNew
<1>3. request[h].key \notin exclusions
  BY <1>2 DEF ReviewInv, Owned
<1>4. QED
  BY <1>1, <1>2, <1>3 DEF AppendDecision, ExclusionsWith

\* The invariants about decisions and exclusions are preserved.
LEMMA DecisionStep ==
  ASSUME ReviewInv, [Next]_vars
  PROVE  UniqueDecisions' /\ Owned'
<1>1. CASE decisions' = decisions /\ exclusions' = exclusions
  BY <1>1 DEF ReviewInv, UniqueDecisions, Owned
<1>2. ASSUME NEW h \in Human, AppendDecision(h) PROVE UniqueDecisions' /\ Owned'
  <2>1. /\ DecisionRow(request[h]).key = request[h].key
        /\ DecisionRow(request[h]).proposal = request[h].proposal
        /\ DecisionRow(request[h]).value = request[h].value
    BY DEF DecisionRow
  <2>2. UniqueDecisions'
    BY <1>2, <2>1, NewDecision DEF ReviewInv, UniqueDecisions
  <2>3. request[h].exclude => request[h].value = "REJECT"
    BY <1>2 DEF ReviewInv, Admissible, AppendDecision
  <2>4. Owned'
    BY <1>2, <2>1, <2>3, NewDecision DEF ReviewInv, Owned, AppendDecision, ExclusionsWith
  <2>5. QED
    BY <2>2, <2>4
<1>3. QED
  BY <1>1, <1>2, DecisionTables

\* What a human was told, and what a checked call rests on, stays true.
LEMMA HumanStep ==
  ASSUME ReviewInv, [Next]_vars, Committed', Rooted', tick \in Nat, tick' \in Nat, tick <= tick'
  PROVE  Admissible' /\ ReplyHonest' /\ CheckedIsCurrent'
<1>1. Admissible'
  <2> SUFFICES ASSUME NEW h \in Human
               PROVE  /\ since'[h] <= tick'
                      /\ hpc'[h] # "idle" /\ request'[h].exclude => request'[h].value = "REJECT"
    BY DEF Admissible
  <2>1. since[h] \in Nat /\ since[h] <= tick'
    BY DEF ReviewInv, TypeOK, Admissible
  <2>2. QED
    BY <2>1, CallStep DEF ReviewInv, Admissible
<1>2. ReplyHonest'
  <2> SUFFICES ASSUME NEW h \in Human, reply'[h] = "decided"
               PROVE  /\ DecisionRow(request'[h]) \in decisions'
                      /\ request'[h].exclude <=> request'[h].key \in exclusions'
    BY DEF ReplyHonest, DecisionRow
  <2>1. ASSUME DecisionRow(request[h]) \in decisions,
               request[h].exclude <=> request[h].key \in exclusions
        PROVE  /\ DecisionRow(request[h]) \in decisions'
               /\ request[h].exclude <=> request[h].key \in exclusions'
    <3>1. DecisionRow(request[h]).key = request[h].key
      BY DEF DecisionRow
    <3>2. QED
      BY <2>1, <3>1, NewDecision, DecisionTables
  <2>2. CASE reply'[h] = reply[h] /\ request'[h] = request[h]
    BY <2>1, <2>2 DEF ReviewInv, ReplyHonest
  <2>3. CASE AppendDecision(h) /\ request'[h] = request[h]
    BY <2>3, NewDecision
  <2>4. CASE request'[h] = request[h] /\ \E d \in decisions : SameRequest(d, request[h])
    <3>1. DecisionRow(request[h]) \in decisions
          /\ (request[h].exclude <=> request[h].key \in exclusions)
      BY <2>4 DEF SameRequest, DecisionRow
    <3>2. QED
      BY <2>1, <2>4, <3>1
  <2>5. QED
    BY <2>2, <2>3, <2>4, CallStep
<1>3. CheckedIsCurrent'
  <2> SUFFICES ASSUME NEW h \in Human, hpc'[h] = "append"
               PROVE  \E e \in evaluations' :
                        /\ e.proposal = request'[h].proposal
                        /\ e.id = request'[h].evaluation
                        /\ \A f \in evaluations' :
                             f.proposal = e.proposal /\ f.id <= since'[h] => f.at <= e.at
    BY Zenon DEF CheckedIsCurrent, EvaluationsOf
  <2>1. CASE hpc[h] = "append" /\ request'[h] = request[h] /\ since'[h] = since[h]
    <3>1. PICK e \in EvaluationsOf(request[h].proposal) :
            /\ e.id = request[h].evaluation
            /\ \A f \in EvaluationsOf(e.proposal) : f.id <= since[h] => f.at <= e.at
      BY <2>1 DEF ReviewInv, CheckedIsCurrent
    <3>2. \A f \in evaluations' : f \in evaluations \/ f.id > since[h]
      <4>1. since[h] \in Nat /\ since[h] <= tick
        BY DEF ReviewInv, TypeOK, Admissible
      <4>2. \/ evaluations' = evaluations
            \/ \E r : r.id = tick + 1 /\ evaluations' = evaluations \cup {r}
        BY DEF Next, vars, rows, BeginReevaluation, AbandonReevaluation, Call, CheckEvaluation,
               Replay, RefuseSecond, AppendDecision, AbandonDecision, AppendProposal,
               CommitReevaluation, ReevaluationRow
      <4>3. QED
        BY <4>1, <4>2
    <3>3. evaluations \subseteq evaluations'
      BY DEF Next, vars, rows, BeginReevaluation, AbandonReevaluation, Call, CheckEvaluation,
             Replay, RefuseSecond, AppendDecision, AbandonDecision, AppendProposal,
             CommitReevaluation
    <3>4. \A f \in evaluations' : f.id \in Nat /\ since[h] \in Nat
      BY NextTypeOK DEF ReviewInv, TypeOK, Evaluation, Tick
    <3>5. QED
      BY <2>1, <3>1, <3>2, <3>3, <3>4 DEF EvaluationsOf
  <2>2. CASE Exact(request[h]) /\ request'[h] = request[h] /\ UNCHANGED rows
    BY <2>2 DEF Exact, LatestFinalized, Newest, EvaluationsOf, rows, ReviewInv, Committed
  <2>3. QED
    BY <2>1, <2>2, CallStep
<1>4. QED
  BY <1>1, <1>2, <1>3

\* The inductive invariant holds throughout.
LEMMA ReviewCorrect == Spec => []ReviewInv
<1>1. Init => ReviewInv
  <2> SUFFICES ASSUME Init PROVE ReviewInv
    OBVIOUS
  <2>1. TypeOK
    BY ReviewAssumption DEF Init, TypeOK, Answer
  <2>2. QED
    BY <2>1 DEF Init, ReviewInv, UniqueDecisions, Owned, Committed, Admissible, ReplyHonest,
                Rooted, CheckedIsCurrent
<1>2. ReviewInv /\ [Next]_vars => ReviewInv'
  BY NextTypeOK, EvaluationStep, DecisionStep, HumanStep DEF ReviewInv
<1>3. QED
  BY <1>1, <1>2, PTL DEF Spec

\* What a human is told about a decision and its exclusion is in the tables and
\* stays there (ReplyHonest), through replays and lost acknowledgements.
THEOREM HumansAreToldTheTruth == Spec => []ReplyHonest
<1>1. ReviewInv => ReplyHonest
  BY DEF ReviewInv
<1>2. QED
  BY <1>1, ReviewCorrect, PTL

\* Every evaluation descends from the first one of its own proposal (Rooted).
THEOREM EvaluationsAreRooted == Spec => []Rooted
<1>1. ReviewInv => Rooted
  BY DEF ReviewInv
<1>2. QED
  BY <1>1, ReviewCorrect, PTL

\* The two notions of "latest evaluation" agree, because no BLOCKED result is
\* ever stored (NeverWedged).
THEOREM LatestEvaluationsAgree == Spec => []NeverWedged
<1>1. ReviewInv => NeverWedged
  <2> SUFFICES ASSUME ReviewInv, NEW p \in Proposal
               PROVE  LatestFinalized(p) = LatestAny(p)
    BY DEF NeverWedged
  <2>1. {e \in EvaluationsOf(p) : e.status = "FINALIZED"} = EvaluationsOf(p)
    BY DEF ReviewInv, Committed, EvaluationsOf
  <2>2. QED
    BY <2>1 DEF LatestFinalized, LatestAny
<1>2. QED
  BY <1>1, ReviewCorrect, PTL

\* A decide call past its check rests on an evaluation that nothing had
\* superseded when the human called (CheckedIsCurrent).
THEOREM ChecksAreCurrent == Spec => []CheckedIsCurrent
<1>1. ReviewInv => CheckedIsCurrent
  BY DEF ReviewInv
<1>2. QED
  BY <1>1, ReviewCorrect, PTL

-----------------------------------------------------------------------------
(* Refinement of Adjudication *)

\* The only step that adds an evaluation adds one, with a fresh number.
LEMMA TableSteps ==
  ASSUME ReviewInv, [Next]_vars
  PROVE  \/ UNCHANGED rows
         \/ /\ UNCHANGED <<decisions, exclusions>>
            /\ \E r \in Evaluation : r.id = tick + 1 /\ evaluations' = evaluations \cup {r}
         \/ evaluations' = evaluations /\ \E h \in Human : AppendDecision(h)
<1> USE ReviewAssumption
<1>1. ASSUME NEW p \in Proposal, AppendProposal(p)
      PROVE  /\ UNCHANGED <<decisions, exclusions>>
             /\ \E r \in Evaluation : r.id = tick + 1 /\ evaluations' = evaluations \cup {r}
  <2>1. PICK status \in Status :
          evaluations' = evaluations \cup
            {[id |-> tick + 1, proposal |-> p, at |-> tick + 1, status |-> status,
              prior |-> NoEvaluation]}
    BY <1>1 DEF AppendProposal
  <2>2. tick + 1 \in Tick
    BY <1>1 DEF AppendProposal, Tick, ReviewInv, TypeOK
  <2>3. [id |-> tick + 1, proposal |-> p, at |-> tick + 1, status |-> status,
         prior |-> NoEvaluation] \in Evaluation
    BY <2>2 DEF Evaluation
  <2>4. QED
    BY <1>1, <2>1, <2>3 DEF AppendProposal
<1>2. ASSUME NEW o \in Operator, CommitReevaluation(o)
      PROVE  /\ UNCHANGED <<decisions, exclusions>>
             /\ \E r \in Evaluation : r.id = tick + 1 /\ evaluations' = evaluations \cup {r}
  <2>1. PICK e \in LatestFinalized(subject[o]), status \in Status :
          evaluations' = evaluations \cup {ReevaluationRow(o, e, status)}
    BY <1>2 DEF CommitReevaluation
  <2>2. e \in Evaluation
    BY DEF LatestFinalized, Newest, EvaluationsOf, ReviewInv, TypeOK
  <2>3. ReevaluationRow(o, e, status) \in Evaluation
    BY <1>2, <2>2 DEF CommitReevaluation, ReevaluationRow, Evaluation, Tick, ReviewInv, TypeOK
  <2>4. ReevaluationRow(o, e, status).id = tick + 1
    BY DEF ReevaluationRow
  <2>5. QED
    BY <1>2, <2>1, <2>3, <2>4 DEF CommitReevaluation
<1>3. \/ UNCHANGED rows
      \/ \E p \in Proposal : AppendProposal(p)
      \/ \E o \in Operator : CommitReevaluation(o)
      \/ evaluations' = evaluations /\ \E h \in Human : AppendDecision(h)
  BY DEF Next, vars, BeginReevaluation, AbandonReevaluation, Call, CheckEvaluation,
         Replay, RefuseSecond, AppendDecision, AbandonDecision
<1>4. QED
  BY <1>1, <1>2, <1>3

IdsOf(p) == {e.id : e \in EvaluationsOf(p)}

\* A new evaluation is an abstract Evaluate step of its proposal.
LEMMA AddsEvaluation ==
  ASSUME ReviewInv, UNCHANGED <<decisions, exclusions>>,
         NEW r \in Evaluation, r.id = tick + 1, evaluations' = evaluations \cup {r}
  PROVE  Abstract!Evaluate(r.proposal)
<1> USE ReviewAssumption
<1>1. r.proposal \in Proposal /\ r.id \in Tick
  BY DEF Evaluation
<1>2. \A q \in Proposal : r.id \notin IdsOf(q)
  BY DEF ReviewInv, TypeOK, Committed, Evaluation, Tick, EvaluationsOf, IdsOf
<1>3. \A q \in Proposal :
        IdsOf(q)' = IF q = r.proposal THEN IdsOf(q) \cup {r.id} ELSE IdsOf(q)
  BY DEF IdsOf, EvaluationsOf
<1>4. [q \in Proposal |-> IdsOf(q)]'
        = [[q \in Proposal |-> IdsOf(q)] EXCEPT ![r.proposal] = @ \cup {r.id}]
  BY <1>1, <1>3
<1>5. [q \in Proposal |-> OutcomeOf(q)]' = [q \in Proposal |-> OutcomeOf(q)]
  BY DEF OutcomeOf, DecisionsOf
<1>6. QED
  BY <1>1, <1>2, <1>4, <1>5 DEF Abstract!Evaluate, IdsOf

\* Recording a decision is an abstract Settle step of its proposal.
LEMMA RecordsDecision ==
  ASSUME ReviewInv, NEW h \in Human, AppendDecision(h), evaluations' = evaluations,
         NEW m \in Request, m = request[h]
  PROVE  Abstract!Settle(m.proposal)
<1> DEFINE s == [evaluation |-> m.evaluation, value |-> m.value, excluded |-> m.exclude]
<1>1. /\ m \in Request /\ m.proposal \in Proposal /\ m.evaluation \in Tick
      /\ m.value \in Value /\ m.exclude \in BOOLEAN
  BY NewDecision DEF Request
<1>2. /\ decisions' = decisions \cup {DecisionRow(m)}
      /\ \A d \in decisions : d.key # m.key /\ d.proposal # m.proposal
      /\ m.key \in exclusions' <=> m.exclude
      /\ \A d \in decisions : d.key \in exclusions' <=> d.key \in exclusions
  BY NewDecision
<1>3. /\ DecisionRow(m).proposal = m.proposal /\ DecisionRow(m).key = m.key
      /\ DecisionRow(m).evaluation = m.evaluation /\ DecisionRow(m).value = m.value
  BY DEF DecisionRow
<1>4. s \in Abstract!Settlement
  BY <1>1, ReviewAssumption DEF Abstract!Settlement
<1>5. m.exclude => m.value = "REJECT"
  BY DEF ReviewInv, Admissible, AppendDecision
<1>6. \E e \in EvaluationsOf(m.proposal) : e.id = m.evaluation
  BY DEF ReviewInv, CheckedIsCurrent, AppendDecision
<1>7. OutcomeOf(m.proposal) = {}
  BY <1>2 DEF OutcomeOf, DecisionsOf
<1>8. OutcomeOf(m.proposal)' = {s}
  <2>1. DecisionsOf(m.proposal)' = {DecisionRow(m)}
    BY <1>2, <1>3 DEF DecisionsOf
  <2>2. DecisionRow(m).key \in exclusions' <=> m.exclude
    BY <1>2, <1>3
  <2>3. OutcomeOf(m.proposal)' =
          {[evaluation |-> d.evaluation, value |-> d.value, excluded |-> d.key \in exclusions'] :
             d \in DecisionsOf(m.proposal)'}
    BY DEF OutcomeOf
  <2>4. (DecisionRow(m).key \in exclusions') = m.exclude
    BY <1>1, <2>2
  <2>5. QED
    BY <1>3, <2>1, <2>3, <2>4
<1>9. \A q \in Proposal : q # m.proposal => OutcomeOf(q)' = OutcomeOf(q)
  <2> SUFFICES ASSUME NEW q \in Proposal, q # m.proposal PROVE OutcomeOf(q)' = OutcomeOf(q)
    OBVIOUS
  <2>1. DecisionsOf(q)' = DecisionsOf(q)
    BY <1>2, <1>3 DEF DecisionsOf
  <2>2. \A d \in DecisionsOf(q) : (d.key \in exclusions') = (d.key \in exclusions)
    BY <1>2 DEF DecisionsOf
  <2>3. QED
    BY <2>1, <2>2 DEF OutcomeOf
<1> HIDE DEF s
<1>10. [q \in Proposal |-> OutcomeOf(q)]'
         = [[q \in Proposal |-> OutcomeOf(q)] EXCEPT ![m.proposal] = {s}]
  BY <1>1, <1>8, <1>9
<1>11. [q \in Proposal |-> {e.id : e \in EvaluationsOf(q)}]'
         = [q \in Proposal |-> {e.id : e \in EvaluationsOf(q)}]
  BY DEF EvaluationsOf
<1>12. s.evaluation \in [q \in Proposal |-> {e.id : e \in EvaluationsOf(q)}][m.proposal]
  BY <1>1, <1>6 DEF s
<1>13. s.excluded => s.value = "REJECT"
  BY <1>5 DEF s
<1>14. [q \in Proposal |-> OutcomeOf(q)][m.proposal] = {}
  BY <1>1, <1>7
<1>15. QED
  BY <1>4, <1>10, <1>11, <1>12, <1>13, <1>14 DEF Abstract!Settle

\* Every step of review is an abstract step or leaves the abstract state alone.
LEMMA RefinementStep ==
  ASSUME ReviewInv, [Next]_vars
  PROVE  [Abstract!ANext]_(Abstract!avars)
<1>1. CASE UNCHANGED rows
  BY <1>1 DEF rows, Abstract!avars, EvaluationsOf, OutcomeOf, DecisionsOf
<1>2. CASE /\ UNCHANGED <<decisions, exclusions>>
           /\ \E r \in Evaluation : r.id = tick + 1 /\ evaluations' = evaluations \cup {r}
  <2>1. PICK r \in Evaluation : r.id = tick + 1 /\ evaluations' = evaluations \cup {r}
    BY <1>2
  <2>2. r.proposal \in Proposal
    BY DEF Evaluation
  <2>3. QED
    BY <1>2, <2>1, <2>2, AddsEvaluation DEF Abstract!ANext
<1>3. CASE evaluations' = evaluations /\ \E h \in Human : AppendDecision(h)
  <2>1. PICK h \in Human : AppendDecision(h)
    BY <1>3
  <2>2. PICK m \in Request : m = request[h]
    BY <2>1, NewDecision
  <2>3. m.proposal \in Proposal /\ Abstract!Settle(m.proposal)
    BY <1>3, <2>1, <2>2, RecordsDecision DEF Request
  <2>4. QED
    BY <2>3 DEF Abstract!ANext
<1>4. QED
  BY <1>1, <1>2, <1>3, TableSteps

\* Review, with its concurrent humans and operators, keys, stale checks and
\* crashes, implements the abstract Adjudication (Implements).
THEOREM ReviewImplementsAdjudication == Spec => Implements
<1>1. Init => Abstract!AInit
  BY DEF Init, Abstract!AInit, EvaluationsOf, OutcomeOf, DecisionsOf
<1>2. ReviewInv /\ [Next]_vars => [Abstract!ANext]_(Abstract!avars)
  BY RefinementStep
<1>3. QED
  BY <1>1, <1>2, ReviewCorrect, PTL DEF Spec, Implements, Abstract!ASpec
=============================================================================
