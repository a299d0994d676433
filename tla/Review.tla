-------------------------------- MODULE Review --------------------------------
(***************************************************************************)
(* Evaluations, human decisions and exclusions: AppMemory's evaluation     *)
(* appends (src/src/memory.py), DeciderMemory (src/src/cli.py) and         *)
(* reevaluate_with_consequence (src/src/consequences.py).                  *)
(*                                                                         *)
(* A proposal enters with its first evaluation.  Operators re-evaluate it: *)
(* a transaction reads the latest FINALIZED evaluation, evaluates again    *)
(* and appends the result with that evaluation as its prior.  Humans       *)
(* decide on an evaluation in two steps: exact_evaluation checks, in a     *)
(* transaction of its own, that the evaluation is the latest one, then     *)
(* append_decision inserts the decision, with its exclusion if asked.      *)
(*                                                                         *)
(* Abstractions.  A serializable transaction takes effect atomically at    *)
(* its commit, but created_at is DEFAULT now(), the time it began: an      *)
(* evaluation row has both, "id" from the order of commits and "at" from   *)
(* the order of begins.  After a 40001 failure the operation runs again    *)
(* from its start: for a decision this leaves no trace, for a re-evaluation *)
(* it is an abandoned transaction and a new one.  A call whose retries are  *)
(* used up is abandoned.  decided_by and rationale are compared and stored *)
(* like the decision's value, which stands for them.                       *)
(***************************************************************************)
EXTENDS Naturals, FiniteSets

CONSTANTS
  Proposal,          \* proposal ids
  Human,             \* concurrent decide calls
  Operator,          \* concurrent reevaluate calls
  Key,               \* idempotency keys of decide calls
  Value,             \* the decision values humans use
  MaxTick,           \* bound: transaction begins and evaluation commits
  NoEvaluation,      \* prior_evaluation_id IS NULL
  NoRequest,         \* a human who never called
  NoProposal         \* an operator without a transaction

Tick == 1 .. MaxTick

\* Arguments of append_decision; the trace digest is that of the evaluation.
Request == [proposal : Proposal, evaluation : Tick, value : Value,
            exclude : BOOLEAN, key : Key]

ASSUME ReviewAssumption ==
  /\ MaxTick \in Nat
  /\ Value \subseteq {"APPROVE", "REJECT", "MODIFY"}
  /\ NoEvaluation \notin Nat /\ NoRequest \notin Request /\ NoProposal \notin Proposal

VARIABLES
  evaluations,  \* rows of gate_evaluations
  decisions,    \* rows of decisions
  exclusions,   \* idempotency keys of the decisions that are source of an exclusions row
  tick,         \* begins and commits so far
  hpc,          \* what each decide call does next
  request,      \* its arguments
  since,        \* tick at which it was called
  reply,        \* what it last returned
  opc,          \* what each reevaluate call does next
  subject,      \* the proposal it re-evaluates
  began         \* now() of its transaction

rows == <<evaluations, decisions, exclusions>>
humanVars == <<hpc, request, since, reply>>
operatorVars == <<opc, subject, began>>
vars == <<rows, tick, humanVars, operatorVars>>

-----------------------------------------------------------------------------
(* Rows *)

Status == {"FINALIZED", "BLOCKED"}

Evaluation == [id : Tick, proposal : Proposal, at : Tick, status : Status,
               prior : Tick \cup {NoEvaluation}]

Decision == [proposal : Proposal, evaluation : Tick, value : Value, key : Key]

\* CliBlocked from exact_evaluation is "stale"; every other CliBlocked and
\* MemoryConflictError is "refused"; what tells nothing is "raised".
Answer == {"none", "decided", "stale", "refused", "raised"}

EvaluationsOf(p) == {e \in evaluations : e.proposal = p}

\* ORDER BY created_at DESC LIMIT 1
Newest(S) == {e \in S : \A f \in S : f.at <= e.at}

LatestFinalized(p) == Newest({e \in EvaluationsOf(p) : e.status = "FINALIZED"})

\* The check of append_re_evaluation looks at rows of any status.
LatestAny(p) == Newest(EvaluationsOf(p))

\* Mutant: the profile of a BLOCKED result is not compared.
StorableAny(status) == status \in Status

\* _validate_evaluation_binding: the result must carry the snapshot's profile,
\* which validate_blocked_result forbids to a BLOCKED one.
Storable(status) == status = "FINALIZED"

DecisionRow(m) == [proposal |-> m.proposal, evaluation |-> m.evaluation,
                   value |-> m.value, key |-> m.key]
-----------------------------------------------------------------------------
(* Proposals and re-evaluations *)

Init ==
  /\ evaluations = {} /\ decisions = {} /\ exclusions = {}
  /\ tick = 0
  /\ hpc = [h \in Human |-> "idle"]
  /\ request = [h \in Human |-> NoRequest]
  /\ since = [h \in Human |-> 0]
  /\ reply = [h \in Human |-> "none"]
  /\ opc = [o \in Operator |-> "idle"]
  /\ subject = [o \in Operator |-> NoProposal]
  /\ began = [o \in Operator |-> 0]

\* append_proposal_and_evaluation: a new proposal with its first evaluation.
AppendProposal(p) ==
  /\ EvaluationsOf(p) = {}
  /\ tick < MaxTick
  /\ tick' = tick + 1
  /\ \E status \in Status :
       /\ Storable(status)
       /\ evaluations' = evaluations \cup
            {[id |-> tick + 1, proposal |-> p, at |-> tick + 1, status |-> status,
              prior |-> NoEvaluation]}
  /\ UNCHANGED <<decisions, exclusions, humanVars, operatorVars>>

\* reevaluate_with_consequence opens its transaction; now() is fixed here.
BeginReevaluation(o, p) ==
  /\ opc[o] = "idle"
  /\ EvaluationsOf(p) # {}
  /\ tick < MaxTick
  /\ tick' = tick + 1
  /\ opc' = [opc EXCEPT ![o] = "running"]
  /\ subject' = [subject EXCEPT ![o] = p]
  /\ began' = [began EXCEPT ![o] = tick']
  /\ UNCHANGED <<rows, humanVars>>

\* Mutant: the transaction is not left.
CloseHalf(o) ==
  /\ subject' = [subject EXCEPT ![o] = NoProposal]
  /\ began' = [began EXCEPT ![o] = 0]
  /\ UNCHANGED opc

Close(o) ==
  /\ opc' = [opc EXCEPT ![o] = "idle"]
  /\ subject' = [subject EXCEPT ![o] = NoProposal]
  /\ began' = [began EXCEPT ![o] = 0]

\* Mutant: the prior of the reused snapshot is kept.
ReevaluationRowKeepsPrior(o, e, status) ==
  [id |-> tick + 1, proposal |-> subject[o], at |-> began[o], status |-> status,
   prior |-> e.prior]

ReevaluationRow(o, e, status) ==
  [id |-> tick + 1, proposal |-> subject[o], at |-> began[o], status |-> status,
   prior |-> e.id]

\* The transaction's reads, the evaluation and the append.
CommitReevaluation(o) ==
  LET p == subject[o]
  IN /\ opc[o] = "running"
     /\ tick < MaxTick
     /\ tick' = tick + 1
     /\ \E e \in LatestFinalized(p), status \in Status :
          /\ Storable(status)
          /\ e \in LatestAny(p)
          /\ evaluations' = evaluations \cup {ReevaluationRow(o, e, status)}
     /\ Close(o)
     /\ UNCHANGED <<decisions, exclusions, humanVars>>

\* No consequence to build on, a result that cannot be stored, a stale prior,
\* a lost connection, a crash: nothing is written.
AbandonReevaluation(o) ==
  /\ opc[o] = "running"
  /\ Close(o)
  /\ UNCHANGED <<rows, tick, humanVars>>
-----------------------------------------------------------------------------
(* Decisions *)

\* The call of h returns or raises; only a decided request is remembered.
Answered(h, answer) ==
  /\ hpc' = [hpc EXCEPT ![h] = "idle"]
  /\ since' = [since EXCEPT ![h] = 0]
  /\ reply' = [reply EXCEPT ![h] = answer]
  /\ request' = IF answer = "decided" THEN request
                ELSE [request EXCEPT ![h] = NoRequest]

\* A human runs the decide command, for the first time or again.
Call(h, m) ==
  /\ hpc[h] = "idle"
  /\ IF m.exclude /\ m.value # "REJECT"
     THEN Answered(h, "refused")
     ELSE /\ request' = [request EXCEPT ![h] = m]
          /\ hpc' = [hpc EXCEPT ![h] = "check"]
          /\ since' = [since EXCEPT ![h] = tick]
          /\ reply' = [reply EXCEPT ![h] = "none"]
  /\ UNCHANGED <<rows, tick, operatorVars>>

\* Mutant: any evaluation of the proposal will do.
ExactAnyEvaluation(m) == \E e \in EvaluationsOf(m.proposal) : e.id = m.evaluation

\* The evaluation named by the request is FINALIZED and the latest one.
Exact(m) == \E e \in LatestFinalized(m.proposal) : e.id = m.evaluation

\* exact_evaluation, before and outside the decision's transaction
CheckEvaluation(h) ==
  /\ hpc[h] = "check"
  /\ \/ /\ Exact(request[h])
        /\ hpc' = [hpc EXCEPT ![h] = "append"]
        /\ UNCHANGED <<request, since, reply>>
     \/ /\ ~Exact(request[h])
        /\ Answered(h, "stale")
  /\ UNCHANGED <<rows, tick, operatorVars>>

\* Mutant: the exclusion of a replayed decision is not compared.
SameRequestLoosely(d, m) == d = DecisionRow(m)

\* A stored decision is this very request, exclusion included.
SameRequest(d, m) ==
  /\ d = DecisionRow(m)
  /\ m.exclude <=> d.key \in exclusions

\* Mutant: a replay appends the exclusion that the stored decision lacks.
ReplayRepairs(h) ==
  /\ hpc[h] = "append"
  /\ \E d \in decisions :
       /\ d.key = request[h].key
       /\ d = DecisionRow(request[h])
       /\ exclusions' = IF request[h].exclude THEN exclusions \cup {d.key} ELSE exclusions
  /\ Answered(h, "decided")
  /\ UNCHANGED <<evaluations, decisions, tick, operatorVars>>

\* A decision is stored under the key of the request.
Replay(h) ==
  /\ hpc[h] = "append"
  /\ \E d \in decisions :
       /\ d.key = request[h].key
       /\ IF SameRequest(d, request[h]) THEN Answered(h, "decided")
                                       ELSE Answered(h, "refused")
  /\ UNCHANGED <<rows, tick, operatorVars>>

KeyIsNew(m) == \A d \in decisions : d.key # m.key

\* The proposal already has its decision, under another key.
RefuseSecond(h) ==
  /\ hpc[h] = "append"
  /\ KeyIsNew(request[h])
  /\ \E d \in decisions : d.proposal = request[h].proposal
  /\ Answered(h, "refused")
  /\ UNCHANGED <<rows, tick, operatorVars>>

\* The exclusion row that goes with the decision, when one was requested.
ExclusionsWith(m) == IF m.exclude THEN exclusions \cup {m.key} ELSE exclusions

\* Decision and exclusion are committed together; the acknowledgement may be
\* lost.
AppendDecision(h) ==
  LET m == request[h]
  IN /\ hpc[h] = "append"
     /\ KeyIsNew(m)
     /\ \A d \in decisions : d.proposal # m.proposal
     /\ decisions' = decisions \cup {DecisionRow(m)}
     /\ exclusions' = ExclusionsWith(m)
     /\ Answered(h, "decided") \/ Answered(h, "raised")
     /\ UNCHANGED <<evaluations, tick, operatorVars>>

\* The process dies or the call fails before anything is committed.
AbandonDecision(h) ==
  /\ hpc[h] # "idle"
  /\ Answered(h, "raised")
  /\ UNCHANGED <<rows, tick, operatorVars>>

Next ==
  \/ \E p \in Proposal : AppendProposal(p)
  \/ \E o \in Operator : \/ \E p \in Proposal : BeginReevaluation(o, p)
                        \/ CommitReevaluation(o) \/ AbandonReevaluation(o)
  \/ \E h \in Human : \/ \E m \in Request : Call(h, m)
                     \/ CheckEvaluation(h) \/ Replay(h) \/ RefuseSecond(h)
                     \/ AppendDecision(h) \/ AbandonDecision(h)

Spec == Init /\ [][Next]_vars

-----------------------------------------------------------------------------
(* Properties *)

\* The shape of the tables and of the calls' local state.
TypeOK ==
  /\ evaluations \subseteq Evaluation
  /\ decisions \subseteq Decision
  /\ exclusions \subseteq Key
  /\ tick \in 0 .. MaxTick
  /\ hpc \in [Human -> {"idle", "check", "append"}]
  /\ request \in [Human -> Request \cup {NoRequest}]
  /\ since \in [Human -> 0 .. MaxTick]
  /\ reply \in [Human -> Answer]
  /\ opc \in [Operator -> {"idle", "running"}]
  /\ subject \in [Operator -> Proposal \cup {NoProposal}]
  /\ began \in [Operator -> 0 .. MaxTick]
  /\ \A h \in Human : hpc[h] # "idle" => request[h] \in Request
  /\ \A o \in Operator : opc[o] = "running" => subject[o] \in Proposal /\ began[o] \in Tick

\* A human who was told "decided" sees in the tables exactly what was asked:
\* the decision on that evaluation with that value, and an exclusion if and
\* only if one was requested, whoever else used the same key before or after
\* (append_decision's replay comparison, cli.py:180-201).
ReplyHonest ==
  \A h \in Human : reply[h] = "decided" =>
    /\ DecisionRow(request[h]) \in decisions
    /\ request[h].exclude <=> request[h].key \in exclusions

\* The evaluations of a proposal descend from its first one: every other
\* evaluation continues one of the same proposal that was committed before it
\* (append_re_evaluation's prior binding, memory.py:863-904).
Rooted ==
  \A e, f \in evaluations :
    /\ e.prior # NoEvaluation =>
         \E g \in EvaluationsOf(e.proposal) : g.id = e.prior /\ g.id < e.id
    /\ e.prior = NoEvaluation /\ f.prior = NoEvaluation /\ e.proposal = f.proposal => e = f

\* reevaluate_with_consequence continues the latest FINALIZED evaluation while
\* append_re_evaluation compares with the latest of any status: a proposal
\* where they differ could never be re-evaluated again.
NeverWedged ==
  \A p \in Proposal : LatestFinalized(p) = LatestAny(p)

\* A decide call that passed exact_evaluation does not rest on an evaluation
\* that was already superseded when the human called.
CheckedIsCurrent ==
  \A h \in Human : hpc[h] = "append" =>
    \E e \in EvaluationsOf(request[h].proposal) :
      /\ e.id = request[h].evaluation
      /\ \A f \in EvaluationsOf(e.proposal) : f.id <= since[h] => f.at <= e.at

\* "evaluation is stale or superseded" (cli.py:153): a decision is recorded
\* only on the latest evaluation of its proposal.
DecidesOnLatest ==
  [][\A d \in decisions' \ decisions :
       \E e \in LatestFinalized(d.proposal) : e.id = d.evaluation]_vars

\* "re-evaluation prior is stale" (memory.py:897): an evaluation is continued
\* by one re-evaluation at most.
Linear ==
  \A e, f \in evaluations :
    e.prior # NoEvaluation /\ e.prior = f.prior => e = f

-----------------------------------------------------------------------------
(* Refinement of Adjudication *)

DecisionsOf(p) == {d \in decisions : d.proposal = p}

OutcomeOf(p) ==
  {[evaluation |-> d.evaluation, value |-> d.value, excluded |-> d.key \in exclusions] :
     d \in DecisionsOf(p)}

Abstract == INSTANCE Adjudication WITH
  Evaluations <- Tick,
  history <- [p \in Proposal |-> {e.id : e \in EvaluationsOf(p)}],
  outcome <- [p \in Proposal |-> OutcomeOf(p)]

\* Seen through its tables, review settles each proposal at most once, in one
\* step together with its exclusion, on an evaluation of that proposal.
Implements == Abstract!ASpec
=============================================================================
