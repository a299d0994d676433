----------------------------- MODULE Consequences -----------------------------
(***************************************************************************)
(* What follows an executed decision: report_consequence,                  *)
(* get_divergence_warnings and reevaluate_with_consequence of              *)
(* src/src/consequences.py over search_precedents and append_consequence   *)
(* of src/src/memory.py, composed with the proposals, decisions and        *)
(* receipts they read.                                                     *)
(*                                                                         *)
(* Abstractions.  Each operation is one serializable transaction and takes *)
(* effect at its commit; a repetition after 40001 leaves no trace.         *)
(* Evaluations are numbered in the order of commits: re-evaluations whose  *)
(* transactions cross are the subject of module Review, decisions that     *)
(* race that of Review, executions that race that of Executor.  Their      *)
(* abstract specifications Adjudication and Execution justify what is used *)
(* here: a proposal has one decision at most, a decision one outcome, so a *)
(* receipt is known by its proposal.  The vector index (init.sql:590) is   *)
(* taken to find what the query's ORDER BY asks for.  Of the evaluator     *)
(* this module takes the limit on precedents and the check F08.            *)
(* reported_by is compared and stored like the actual outcome, which       *)
(* stands for both.                                                        *)
(***************************************************************************)
EXTENDS Divergence

CONSTANTS
  Proposal,         \* proposal ids
  Class,            \* action type and target of each proposal
  Similarity,       \* 1 - cosine distance of the embeddings of two proposals
  Near,             \* _NEAR_THRESHOLD, 0.85 in the code
  Prediction,       \* predicted outcome of each proposal
  Outcome,          \* actual outcomes that are reported
  DecisionValue,    \* the decision values humans use
  Observation,      \* observation numbers of reports
  Key,              \* idempotency keys of reports
  Reporter,         \* callers of report_consequence
  Threshold,        \* _DEFAULT_THRESHOLD, in millionths
  Limit,            \* LIMIT of the vector search, 5 in the code
  TopK,             \* precedent_top_k of the gate, 5 in the code
  WarningLimit,     \* the limit of get_divergence_warnings, 3 by default
  MaxEvaluations,   \* bound: evaluations in all
  NoRequest         \* a reporter that was not told of a stored report

\* Arguments of report_consequence; the receipt is that of the proposal's decision.
Request == [proposal : Proposal, number : Observation, actual : Outcome, key : Key]

\* Proposals may be equally similar: the embedding is that of the task's text
\* alone, so that proposals of one task tie (agent.py:615-616).
ASSUME ConsequencesAssumption ==
  /\ Similarity \in [Proposal -> [Proposal -> Nat]]
  /\ Prediction \in [Proposal -> Json] /\ Outcome \subseteq Json
  /\ DecisionValue \subseteq {"APPROVE", "REJECT", "MODIFY"}
  /\ Limit \in Nat /\ TopK \in Nat /\ WarningLimit \in Nat /\ MaxEvaluations \in Nat
  /\ NoRequest \notin Request

VARIABLES
  drafted,      \* proposals whose precedents the gate accepted before they are stored
  evaluations,  \* rows of gate_evaluations, all FINALIZED
  decisions,    \* rows of decisions
  receipts,     \* rows of execution_receipts
  reports,      \* rows of consequence_reports
  reply         \* what each reporter was last told, and of which request

tables == <<evaluations, decisions, receipts, reports>>
vars == <<drafted, tables, reply>>

-----------------------------------------------------------------------------
(* Rows *)

Id == 1 .. MaxEvaluations

Evaluation == [id : Id, proposal : Proposal]
Decision   == [proposal : Proposal, evaluation : Id, value : DecisionValue]
Receipt    == [proposal : Proposal, status : {"OBSERVED", "ERROR"}]

\* "conflict" is MemoryConflictError, "refused" MemoryIntegrityError, and
\* "raised" what the database or the connection raises.
Answer == {"none", "reported", "conflict", "refused", "raised"}

Stored == {e.proposal : e \in evaluations}
EvaluationsOf(p) == {e \in evaluations : e.proposal = p}
Latest(p) == {e \in EvaluationsOf(p) : \A f \in EvaluationsOf(p) : f.id <= e.id}

DecisionsOn(e) == {d \in decisions : d.evaluation = e.id}
Observed(p) == [proposal |-> p, status |-> "OBSERVED"] \in receipts

Divergent(r) == Score[<<Prediction[r.proposal], r.actual>>]
More(r) == Divergent(r) >= Threshold

-----------------------------------------------------------------------------
(* Precedents *)

\* What ORDER BY embedding <=> $1 LIMIT 5 may return: the most similar
\* proposals, of those that tie for the last places any.
Searches(p) ==
  {C \in kSubset(Min({Limit, Cardinality(Stored)}), Stored) :
     \A q \in C, r \in Stored \ C : Similarity[p][q] >= Similarity[p][r]}

\* Mutant: only the latest evaluation of each candidate is a precedent.
PrecedentsLatestOnly(C, current) == UNION {Latest(q) : q \in C} \ current

\* search_precedents: every evaluation of the candidates C but the current one
Precedents(C, current) == {e \in evaluations : e.proposal \in C} \ current

\* A precedent carries the reports on the receipt of the decision taken on it.
ReportsOn(e) == {r \in reports : \E d \in DecisionsOn(e) : d.proposal = r.proposal}

IsExact(p, e) ==
  /\ Similarity[p][e.proposal] >= Near
  /\ Class[e.proposal] = Class[p]

\* Mutant: one precedent more.
WithinLimitOneMore(precedents) == Cardinality(precedents) <= TopK + 1

\* PRECEDENT_LIMIT_EXCEEDED blocks an evaluation, and a blocked one is not stored.
WithinLimit(precedents) == Cardinality(precedents) <= TopK

\* What F08 warns of when the proposal is evaluated again and its search finds C.
Warned(p, C) ==
  LET Approved == {e \in Precedents(C, Latest(p)) :
                     IsExact(p, e) /\ \E d \in DecisionsOn(e) : d.value = "APPROVE"}
  IN {r \in UNION {ReportsOn(e) : e \in Approved} : More(r)}

\* Mutant: the class of the precedent is not compared.
QualifyingAnyClass(p, C) ==
  LET near == {e \in Precedents(C, Latest(p)) : Similarity[p][e.proposal] >= Near}
  IN {r \in UNION {ReportsOn(e) : e \in near} : Observed(r.proposal) /\ More(r)}

\* qualifying_ids of get_divergence_warnings
QualifyingReports(p, C) ==
  LET exact == {e \in Precedents(C, Latest(p)) : IsExact(p, e)}
  IN {r \in UNION {ReportsOn(e) : e \in exact} : Observed(r.proposal) /\ More(r)}

\* get_divergence_warnings returns the most divergent ones, ties broken by id.
Warnings(p, C) ==
  LET qualifying == QualifyingReports(p, C)
  IN {W \in kSubset(Min({WarningLimit, Cardinality(qualifying)}), qualifying) :
        \A r \in W, s \in qualifying \ W : Divergent(r) >= Divergent(s)}

-----------------------------------------------------------------------------
(* Proposals, decisions and executions *)

Init ==
  /\ drafted = {}
  /\ evaluations = {} /\ decisions = {} /\ receipts = {} /\ reports = {}
  /\ reply = [c \in Reporter |-> [answer |-> "none", request |-> NoRequest]]

\* process_task reads the exact precedents of a proposal it is about to store.
Draft(p) ==
  /\ p \notin Stored \cup drafted
  /\ \E C \in Searches(p) : WithinLimit({e \in Precedents(C, {}) : IsExact(p, e)})
  /\ drafted' = drafted \cup {p}
  /\ UNCHANGED <<tables, reply>>

\* Mutant: the number of the last evaluation is used again.
NextEvaluationStale(p) == [id |-> Cardinality(evaluations), proposal |-> p]

NextEvaluation(p) == [id |-> Cardinality(evaluations) + 1, proposal |-> p]

AppendProposal(p) ==
  /\ p \in drafted
  /\ Cardinality(evaluations) < MaxEvaluations
  /\ evaluations' = evaluations \cup {NextEvaluation(p)}
  /\ drafted' = drafted \ {p}
  /\ UNCHANGED <<decisions, receipts, reports, reply>>

\* The terminal decision, on any evaluation of the proposal (see module Review).
Decide(p) ==
  /\ \A d \in decisions : d.proposal # p
  /\ \E e \in EvaluationsOf(p), v \in DecisionValue :
       decisions' = decisions \cup {[proposal |-> p, evaluation |-> e.id, value |-> v]}
  /\ UNCHANGED <<drafted, evaluations, receipts, reports, reply>>

\* The executor acts on an APPROVE only.
Executable(d) == d.value = "APPROVE"

Execute(p) ==
  /\ \A r \in receipts : r.proposal # p
  /\ \E d \in decisions : d.proposal = p /\ Executable(d)
  /\ \E s \in {"OBSERVED", "ERROR"} :
       receipts' = receipts \cup {[proposal |-> p, status |-> s]}
  /\ UNCHANGED <<drafted, evaluations, decisions, reports, reply>>

-----------------------------------------------------------------------------
(* Reports *)

Told(c, answer, m) == reply' = [reply EXCEPT ![c] = [answer |-> answer, request |-> m]]

WithKey(m) == {r \in reports : r.key = m.key}

\* Mutant: a replay is not compared with the receipt it names.
SameReportAnyReceipt(r, m) == r.actual = m.actual /\ r.number = m.number

\* A stored report is this very request.
SameReport(r, m) == r = m

\* The report's key is stored: the stored row is the answer, or a conflict.
Replay(c, m) ==
  /\ WithKey(m) # {}
  /\ IF \E r \in WithKey(m) : SameReport(r, m) THEN Told(c, "reported", m)
     ELSE Told(c, "conflict", NoRequest)
  /\ UNCHANGED <<drafted, tables>>

\* The receipt binds an observed effect.
Reportable(m) == Observed(m.proposal)

RefuseReport(c, m) ==
  /\ WithKey(m) = {}
  /\ ~Reportable(m)
  /\ Told(c, "refused", NoRequest)
  /\ UNCHANGED <<drafted, tables>>

\* Mutant: no UNIQUE (receipt_id, observation_number).
AdmittedTwice(m) == m \notin reports

\* UNIQUE (receipt_id, observation_number)
Admitted(m) == \A r \in reports : <<r.proposal, r.number>> # <<m.proposal, m.number>>

\* The INSERT of a second report on one observation raises.
RejectReport(c, m) ==
  /\ WithKey(m) = {}
  /\ Reportable(m) /\ ~Admitted(m)
  /\ Told(c, "raised", NoRequest)
  /\ UNCHANGED <<drafted, tables>>

\* The report is committed; its acknowledgement may be lost.
AppendReport(c, m) ==
  /\ WithKey(m) = {}
  /\ Reportable(m) /\ Admitted(m)
  /\ reports' = reports \cup {m}
  /\ Told(c, "reported", m) \/ Told(c, "raised", NoRequest)
  /\ UNCHANGED <<drafted, evaluations, decisions, receipts>>

\* Mutant: the receipt is looked at before the key.
ReportReceiptFirst(c, m) ==
  \/ RefuseReport(c, m)
  \/ /\ Reportable(m) /\ ~Admitted(m)
     /\ Told(c, "refused", NoRequest)
     /\ UNCHANGED <<drafted, tables>>
  \/ Admitted(m) /\ (Replay(c, m) \/ AppendReport(c, m))

Report(c, m) ==
  Replay(c, m) \/ RefuseReport(c, m) \/ RejectReport(c, m) \/ AppendReport(c, m)

-----------------------------------------------------------------------------
(* Re-evaluation *)

\* The named consequence must be among those of the current precedents.
Reevaluate(p, r) ==
  /\ p \in Stored
  /\ Cardinality(evaluations) < MaxEvaluations
  /\ \E C \in Searches(p) :
       /\ \E e \in Precedents(C, Latest(p)) : r \in ReportsOn(e)
       /\ WithinLimit(Precedents(C, Latest(p)))
  /\ evaluations' = evaluations \cup {NextEvaluation(p)}
  /\ UNCHANGED <<drafted, decisions, receipts, reports, reply>>

Next ==
  \/ \E p \in Proposal : \/ Draft(p) \/ AppendProposal(p) \/ Decide(p) \/ Execute(p)
                        \/ \E r \in reports : Reevaluate(p, r)
  \/ \E c \in Reporter, m \in Request : Report(c, m)

Spec == Init /\ [][Next]_vars

-----------------------------------------------------------------------------
(* Properties *)

\* The shape of the tables and of the answers.
TypeOK ==
  /\ drafted \subseteq Proposal
  /\ evaluations \subseteq Evaluation
  /\ decisions \subseteq Decision
  /\ receipts \subseteq Receipt
  /\ reports \subseteq Request
  /\ reply \in [Reporter -> [answer : Answer, request : Request \cup {NoRequest}]]

\* Whatever keys reporters use and repeat, an observation of a receipt has one
\* report, a key names one report, and a report rests on the observed effect
\* of an approved decision on a stored evaluation of the same proposal
\* (consequences.py:407-440, init.sql:492-505).
ReportsBound ==
  /\ \A r, s \in reports :
       r.key = s.key \/ <<r.proposal, r.number>> = <<s.proposal, s.number>> => r = s
  /\ \A r \in reports :
       /\ Observed(r.proposal)
       /\ \E e \in EvaluationsOf(r.proposal) : \E d \in DecisionsOn(e) :
            d.proposal = r.proposal /\ d.value = "APPROVE"

\* A reporter who was handed a report finds in the table exactly what was
\* asked for, and does so for good, although keys are reused and
\* acknowledgements lost (consequences.py:392-406).
ReplyHonest ==
  \A c \in Reporter : reply[c].answer = "reported" => reply[c].request \in reports

\* A report that is stored is never refused when its command is repeated: the
\* key is looked at before everything that changed since (consequences.py:392).
RetrySettles ==
  [][\A c \in Reporter, m \in Request :
       m \in reports /\ Report(c, m) => reply'[c] = [answer |-> "reported", request |-> m]]_vars

\* get_divergence_warnings and check F08 of the gate agree although they
\* classify precedents apart: of what a search finds, the first returns only
\* what the second warns of, and leaves out nothing more divergent.  Two
\* searches may break ties differently and find different proposals
\* (consequences.py:501-523, governance.py:993-1019).
WarningsAgree ==
  \A p \in Stored : \A C \in Searches(p) :
    LET warned == Warned(p, C)
    IN \A W \in Warnings(p, C) :
         /\ W \subseteq warned
         /\ \A s \in warned \ W : /\ Cardinality(W) = WarningLimit
                                   /\ \A r \in W : Divergent(r) >= Divergent(s)

\* A consequence can be named in the re-evaluation of every proposal whose
\* search finds the proposal it is of, however often that was re-evaluated
\* since: the decision it follows from stays among the precedents.  Whether
\* the gate then accepts their number is another matter, see below
\* (memory.py:961-979, consequences.py:587-595).
StaysReachable ==
  \A p \in Stored, r \in reports : \A C \in Searches(p) :
    r.proposal \in C \ {p} => \E e \in Precedents(C, Latest(p)) : r \in ReportsOn(e)

\* No two leaves of a stored report are named by one JSON pointer.
PointersDistinct ==
  \A r \in reports :
    \A k, l \in Leaves[<<Prediction[r.proposal], r.actual>>] :
      Pointer(k.path) = Pointer(l.path) => k = l

\* The score of a stored report passes the CHECK of its table, and is zero for
\* an outcome as predicted.
ScoreInRange ==
  \A r \in reports : /\ Divergent(r) \in 0 .. Unit
                     /\ r.actual = Prediction[r.proposal] => Divergent(r) = 0

\* What is stored of a comparison can be read back and passes the table's
\* CHECK: its leaves are told apart by their pointers, whatever characters
\* keys have, and its rounded mean lies between a perfect and an utter miss,
\* whatever signs numbers have (consequences.py:166-168, 182-186, 237-244,
\* init.sql:485-486).
ComparisonSound == PointersDistinct /\ ScoreInRange

\* No more proposals than a search returns are as similar to p as p itself,
\* among which are all that were drafted for its task; so a search finds p.
FewAlike(p) == Cardinality({q \in Stored : Similarity[p][q] >= Similarity[p][p]}) <= Limit

\* Re-evaluation wears itself out: all but the latest evaluation of a proposal
\* are its own precedents, and next to them there is one of the proposal that
\* the first consequence was of.  With the five precedents the gate accepts, a
\* proposal has six evaluations at most, unless others of its task may take
\* its place in the search (memory.py:961-979, governance.py:341).
EvaluationsBounded ==
  \A p \in Stored : FewAlike(p) => Cardinality(EvaluationsOf(p)) <= TopK + 1
=============================================================================
