------------------------- MODULE ConsequencesProofs -------------------------
(* Proofs about Consequences: what reports rest on, what reporters are told, *)
(* that the two readers of precedents agree, and that what is taken of       *)
(* review and execution is what Adjudication and Execution promise, for any  *)
(* numbers of proposals, outcomes, keys and reporters.                       *)
EXTENDS Consequences, DivergenceProofs

-----------------------------------------------------------------------------
(* Types *)

Finite == IsFiniteSet(evaluations) /\ IsFiniteSet(reports)

Typed == TypeOK /\ Finite

LEMMA NextTyped == Typed /\ [Next]_vars => Typed'
<1> SUFFICES ASSUME Typed, [Next]_vars PROVE Typed'
  OBVIOUS
<1> USE ConsequencesAssumption
<1> USE DEF Typed, TypeOK, tables
<1>1. CASE UNCHANGED vars
  BY <1>1 DEF vars, Finite
<1>2. ASSUME NEW p \in Proposal, Cardinality(evaluations) < MaxEvaluations
      PROVE /\ evaluations \cup {NextEvaluation(p)} \subseteq Evaluation
            /\ IsFiniteSet(evaluations \cup {NextEvaluation(p)})
  <2>1. Cardinality(evaluations) \in Nat
    BY FS_CardinalityType DEF Finite
  <2>2. NextEvaluation(p) \in Evaluation
    BY <2>1, <1>2 DEF NextEvaluation, Evaluation, Id
  <2>3. QED
    BY <2>2, FS_AddElement DEF Finite
<1>3. ASSUME NEW p \in Proposal, Draft(p) PROVE Typed'
  BY <1>3 DEF Draft, Finite
<1>4. ASSUME NEW p \in Proposal, AppendProposal(p) PROVE Typed'
  BY <1>4, <1>2 DEF AppendProposal, Finite
<1>5. ASSUME NEW p \in Proposal, Decide(p) PROVE Typed'
  BY <1>5 DEF Decide, EvaluationsOf, Evaluation, Decision, Finite
<1>6. ASSUME NEW p \in Proposal, Execute(p) PROVE Typed'
  BY <1>6 DEF Execute, Receipt, Finite
<1>7. ASSUME NEW p \in Proposal, NEW r \in reports, Reevaluate(p, r) PROVE Typed'
  BY <1>7, <1>2 DEF Reevaluate, Finite
<1>8. ASSUME NEW c \in Reporter, NEW m \in Request, Report(c, m) PROVE Typed'
  <2>1. CASE Replay(c, m)
    BY <2>1 DEF Replay, Told, Answer, Finite
  <2>2. CASE RefuseReport(c, m)
    BY <2>2 DEF RefuseReport, Told, Answer, Finite
  <2>3. CASE RejectReport(c, m)
    BY <2>3 DEF RejectReport, Told, Answer, Finite
  <2>4. CASE AppendReport(c, m)
    <3>1. IsFiniteSet(reports \cup {m})
      BY FS_AddElement DEF Finite
    <3>2. QED
      BY <2>4, <3>1 DEF AppendReport, Told, Answer, Finite
  <2>5. QED
    BY <1>8, <2>1, <2>2, <2>3, <2>4 DEF Report
<1>9. QED
  BY <1>1, <1>3, <1>4, <1>5, <1>6, <1>7, <1>8 DEF Next

LEMMA InitTyped == Init => Typed
BY FS_EmptySet DEF Init, Typed, TypeOK, Finite, Answer

\* Every reachable state has its type (TypeOK), however drafts, decisions,
\* executions, reports and re-evaluations interleave.
THEOREM TypeCorrect == Spec => []TypeOK
<1>1. Typed => TypeOK
  BY DEF Typed
<1>2. QED
  BY <1>1, InitTyped, NextTyped, PTL DEF Spec

-----------------------------------------------------------------------------
(* The invariant *)

\* A proposal has one decision at most, on an evaluation of its own.
DecisionsBound ==
  /\ \A d, f \in decisions : d.proposal = f.proposal => d = f
  /\ \A d \in decisions : \E e \in EvaluationsOf(d.proposal) : d \in DecisionsOn(e)

\* A receipt rests on an approval.
ReceiptsBound ==
  \A r \in receipts : \E d \in decisions : d.proposal = r.proposal /\ d.value = "APPROVE"

\* The keys and the observations of reports are theirs, and so are their receipts.
ReportsUnique ==
  \A r, s \in reports :
    r.key = s.key \/ <<r.proposal, r.number>> = <<s.proposal, s.number>> => r = s

ReportsObserved == \A r \in reports : Observed(r.proposal)

IInv == /\ Typed /\ DecisionsBound /\ ReceiptsBound /\ ReportsUnique
        /\ ReportsObserved /\ ReplyHonest

LEMMA InitIInv == Init => IInv
BY InitTyped DEF Init, IInv, DecisionsBound, ReceiptsBound, ReportsUnique,
   ReportsObserved, ReplyHonest

\* An observed receipt rests on an approval of an evaluation of its proposal.
LEMMA ObservedApproved ==
  ASSUME DecisionsBound, ReceiptsBound, NEW p, Observed(p)
  PROVE \E e \in EvaluationsOf(p) : \E d \in DecisionsOn(e) :
          d.proposal = p /\ d.value = "APPROVE"
<1>1. PICK d \in decisions : d.proposal = p /\ d.value = "APPROVE"
  BY DEF ReceiptsBound, Observed
<1>2. QED
  BY <1>1 DEF DecisionsBound

LEMMA NextIInv == IInv /\ [Next]_vars => IInv'
<1> SUFFICES ASSUME IInv, [Next]_vars PROVE IInv'
  OBVIOUS
<1>1. Typed'
  BY NextTyped DEF IInv
<1> USE DEF IInv, tables
<1>2. CASE UNCHANGED vars
  BY <1>1, <1>2 DEF vars, DecisionsBound, ReceiptsBound, ReportsUnique,
     ReportsObserved, ReplyHonest, EvaluationsOf, DecisionsOn, Observed
<1>3. ASSUME evaluations \subseteq evaluations', UNCHANGED decisions PROVE DecisionsBound'
  BY <1>3 DEF DecisionsBound, EvaluationsOf, DecisionsOn
<1>4. ASSUME UNCHANGED <<receipts, reports>>
      PROVE ReportsUnique' /\ ReportsObserved'
  BY <1>4 DEF ReportsUnique, ReportsObserved, Observed
<1>5. ASSUME NEW p \in Proposal, Draft(p) PROVE IInv'
  <2>1. UNCHANGED <<evaluations, decisions, receipts, reports, reply>>
    BY <1>5 DEF Draft
  <2>2. QED
    BY <2>1, <1>1, <1>3, <1>4 DEF ReceiptsBound, ReplyHonest
<1>6. ASSUME NEW p \in Proposal, AppendProposal(p) PROVE IInv'
  <2>1. /\ evaluations \subseteq evaluations'
        /\ UNCHANGED <<decisions, receipts, reports, reply>>
    BY <1>6 DEF AppendProposal
  <2>2. QED
    BY <2>1, <1>1, <1>3, <1>4 DEF ReceiptsBound, ReplyHonest
<1>7. ASSUME NEW p \in Proposal, Decide(p) PROVE IInv'
  <2>1. PICK e \in EvaluationsOf(p), v \in DecisionValue :
          decisions' = decisions \cup {[proposal |-> p, evaluation |-> e.id, value |-> v]}
    BY <1>7 DEF Decide
  <2>2. UNCHANGED <<evaluations, receipts, reports, reply>> /\ \A d \in decisions : d.proposal # p
    BY <1>7 DEF Decide
  <2>3. DecisionsBound'
    <3> DEFINE new == [proposal |-> p, evaluation |-> e.id, value |-> v]
    <3>1. \A d, f \in decisions' : d.proposal = f.proposal => d = f
      BY <2>1, <2>2 DEF DecisionsBound
    <3>2. \A d \in decisions : \E f \in EvaluationsOf(d.proposal)' : d \in DecisionsOn(f)'
      BY <2>1, <2>2 DEF DecisionsBound, EvaluationsOf, DecisionsOn
    <3>3. e \in EvaluationsOf(new.proposal)' /\ new \in DecisionsOn(e)'
      BY <2>1, <2>2 DEF EvaluationsOf, DecisionsOn
    <3>4. QED
      BY <3>1, <3>2, <3>3, <2>1 DEF DecisionsBound
  <2>4. ReceiptsBound'
    BY <2>1, <2>2 DEF ReceiptsBound
  <2>5. QED
    BY <2>2, <2>3, <2>4, <1>1, <1>4 DEF ReplyHonest
<1>8. ASSUME NEW p \in Proposal, Execute(p) PROVE IInv'
  <2>1. PICK s \in {"OBSERVED", "ERROR"} :
          receipts' = receipts \cup {[proposal |-> p, status |-> s]}
    BY <1>8 DEF Execute
  <2>2. UNCHANGED <<evaluations, decisions, reports, reply>>
    BY <1>8 DEF Execute
  <2>3. \E d \in decisions : d.proposal = p /\ d.value = "APPROVE"
    BY <1>8 DEF Execute, Executable
  <2>4. ReceiptsBound'
    BY <2>1, <2>2, <2>3 DEF ReceiptsBound
  <2>5. ReportsUnique' /\ ReportsObserved'
    BY <2>1, <2>2 DEF ReportsUnique, ReportsObserved, Observed
  <2>6. QED
    BY <2>2, <2>4, <2>5, <1>1, <1>3 DEF ReplyHonest
<1>9. ASSUME NEW p \in Proposal, NEW r \in reports, Reevaluate(p, r) PROVE IInv'
  <2>1. /\ evaluations \subseteq evaluations'
        /\ UNCHANGED <<decisions, receipts, reports, reply>>
    BY <1>9 DEF Reevaluate
  <2>2. QED
    BY <2>1, <1>1, <1>3, <1>4 DEF ReceiptsBound, ReplyHonest
<1>10. ASSUME NEW c \in Reporter, NEW m \in Request, Report(c, m) PROVE IInv'
  <2>1. UNCHANGED <<evaluations, decisions, receipts>>
    BY <1>10 DEF Report, Replay, RefuseReport, RejectReport, AppendReport
  <2>2. DecisionsBound' /\ ReceiptsBound'
    BY <2>1, <1>3 DEF ReceiptsBound
  <2>3. reply \in [Reporter -> [answer : Answer, request : Request \cup {NoRequest}]]
    BY DEF Typed, TypeOK
  <2>4. CASE Replay(c, m)
    <3>1. UNCHANGED reports
      BY <2>4 DEF Replay
    <3>2. ReplyHonest'
      BY <2>3, <2>4, <3>1 DEF Replay, Told, ReplyHonest, WithKey, SameReport
    <3>3. QED
      BY <2>1, <2>2, <3>1, <3>2, <1>1, <1>4
  <2>5. CASE RefuseReport(c, m) \/ RejectReport(c, m)
    <3>1. UNCHANGED reports
      BY <2>5 DEF RefuseReport, RejectReport
    <3>2. ReplyHonest'
      BY <2>3, <2>5, <3>1 DEF RefuseReport, RejectReport, Told, ReplyHonest
    <3>3. QED
      BY <2>1, <2>2, <3>1, <3>2, <1>1, <1>4
  <2>6. CASE AppendReport(c, m)
    <3>1. reports' = reports \cup {m} /\ WithKey(m) = {} /\ Reportable(m) /\ Admitted(m)
      BY <2>6 DEF AppendReport
    <3>2. ReportsUnique'
      BY <3>1 DEF ReportsUnique, WithKey, Admitted
    <3>3. ReportsObserved'
      BY <3>1, <2>1 DEF ReportsObserved, Reportable, Observed
    <3>4. ReplyHonest'
      BY <2>3, <2>6, <3>1 DEF AppendReport, Told, ReplyHonest
    <3>5. QED
      BY <2>2, <3>2, <3>3, <3>4, <1>1
  <2>7. QED
    BY <1>10, <2>4, <2>5, <2>6 DEF Report
<1>11. QED
  BY <1>2, <1>5, <1>6, <1>7, <1>8, <1>9, <1>10 DEF Next

LEMMA Invariance == Spec => []IInv
BY InitIInv, NextIInv, PTL DEF Spec

-----------------------------------------------------------------------------
(* Reports and replies *)

LEMMA ReportsRest == IInv => ReportsBound
BY ObservedApproved DEF IInv, ReportsBound, ReportsUnique, ReportsObserved

\* A report has its key and its observation for itself and follows from an
\* approved, observed decision on an evaluation of its proposal (ReportsBound).
THEOREM ReportsAreBound == Spec => []ReportsBound
BY Invariance, ReportsRest, PTL

\* A reporter who was handed a report finds it stored for good (ReplyHonest).
THEOREM ReportersAreToldTheTruth == Spec => []ReplyHonest
<1>1. IInv => ReplyHonest
  BY DEF IInv
<1>2. QED
  BY <1>1, Invariance, PTL

\* A repeated command is answered with the report it stored (RetrySettles).
THEOREM RetriesSettle == Spec => RetrySettles
<1> DEFINE Settles ==
      \A c \in Reporter, m \in Request :
        m \in reports /\ Report(c, m) => reply'[c] = [answer |-> "reported", request |-> m]
<1>1. Typed /\ [Next]_vars => [Settles]_vars
  <2> SUFFICES ASSUME Typed, NEW c \in Reporter, NEW m \in Request,
                      m \in reports, Report(c, m)
               PROVE reply'[c] = [answer |-> "reported", request |-> m]
    OBVIOUS
  <2>1. m \in WithKey(m)
    BY DEF WithKey
  <2>2. Replay(c, m)
    BY <2>1 DEF Report, RefuseReport, RejectReport, AppendReport
  <2>3. Told(c, "reported", m)
    BY <2>1, <2>2 DEF Replay, SameReport
  <2>4. QED
    BY <2>3 DEF Told, Typed, TypeOK
<1>2. QED
  BY <1>1, InitTyped, NextTyped, PTL DEF Spec, RetrySettles

-----------------------------------------------------------------------------
(* Precedents *)

\* A consequence of a proposal that the search found can be named in a re-evaluation, however often
\* that proposal was re-evaluated after its decision (StaysReachable).
THEOREM ConsequencesStayReachable == Spec => []StaysReachable
<1>1. ReportsBound => StaysReachable
  <2> SUFFICES ASSUME ReportsBound, NEW p \in Stored, NEW r \in reports,
                      NEW C \in Searches(p), r.proposal \in C \ {p}
               PROVE \E e \in Precedents(C, Latest(p)) : r \in ReportsOn(e)
    BY DEF StaysReachable
  <2>1. PICK e \in EvaluationsOf(r.proposal) : \E d \in DecisionsOn(e) :
               d.proposal = r.proposal /\ d.value = "APPROVE"
    BY DEF ReportsBound
  <2>2. e \in Precedents(C, Latest(p))
    BY <2>1 DEF Precedents, Latest, EvaluationsOf
  <2>3. QED
    BY <2>1, <2>2 DEF ReportsOn
<1>2. QED
  BY <1>1, ReportsAreBound, PTL

\* The reports that get_divergence_warnings qualifies are those the gate warns of.
LEMMA QualifyingWarned == IInv => \A p, C : QualifyingReports(p, C) = Warned(p, C)
<1> SUFFICES ASSUME IInv, NEW p, NEW C PROVE QualifyingReports(p, C) = Warned(p, C)
  OBVIOUS
<1>1. ASSUME NEW r \in QualifyingReports(p, C) PROVE r \in Warned(p, C)
  <2>1. PICK e \in Precedents(C, Latest(p)) : IsExact(p, e) /\ r \in ReportsOn(e)
    BY DEF QualifyingReports
  <2>2. PICK d \in DecisionsOn(e) : d.proposal = r.proposal
    BY <2>1 DEF ReportsOn
  <2>3. r \in reports /\ More(r)
    BY <2>1 DEF QualifyingReports, ReportsOn
  <2>4. PICK f \in decisions : f.proposal = r.proposal /\ f.value = "APPROVE"
    BY <2>3 DEF IInv, ReportsObserved, ReceiptsBound, Observed
  <2>5. d.value = "APPROVE"
    BY <2>2, <2>4 DEF IInv, DecisionsBound, DecisionsOn
  <2>6. QED
    BY <2>1, <2>2, <2>3, <2>5 DEF Warned
<1>2. ASSUME NEW r \in Warned(p, C) PROVE r \in QualifyingReports(p, C)
  <2>1. PICK e \in Precedents(C, Latest(p)) : IsExact(p, e) /\ r \in ReportsOn(e)
    BY DEF Warned
  <2>2. r \in reports /\ More(r)
    BY <2>1 DEF Warned, ReportsOn
  <2>3. Observed(r.proposal)
    BY <2>2 DEF IInv, ReportsObserved
  <2>4. QED
    BY <2>1, <2>2, <2>3 DEF QualifyingReports
<1>3. QED
  BY <1>1, <1>2

\* get_divergence_warnings returns nothing the gate does not warn of, and
\* leaves out nothing more divergent (WarningsAgree).
THEOREM WarningsDoAgree == Spec => []WarningsAgree
<1>1. IInv => WarningsAgree
  <2> SUFFICES ASSUME IInv, NEW p \in Stored, NEW C \in Searches(p), NEW W \in Warnings(p, C)
               PROVE /\ W \subseteq Warned(p, C)
                     /\ \A s \in Warned(p, C) \ W :
                          /\ Cardinality(W) = WarningLimit
                          /\ \A r \in W : Divergent(r) >= Divergent(s)
    BY DEF WarningsAgree
  <2> DEFINE Q == QualifyingReports(p, C)
  <2>1. Q = Warned(p, C)
    BY QualifyingWarned
  <2>2. W \subseteq Q /\ Cardinality(W) = Min({WarningLimit, Cardinality(Q)})
    BY DEF Warnings, kSubset
  <2>3. ASSUME NEW s \in Q \ W PROVE \A r \in W : Divergent(r) >= Divergent(s)
    BY <2>3 DEF Warnings
  <2>4. ASSUME NEW s \in Q \ W PROVE Cardinality(W) = WarningLimit
    <3>1. Q \subseteq reports
      BY DEF QualifyingReports, ReportsOn
    <3>2. IsFiniteSet(Q)
      BY <3>1, FS_Subset DEF IInv, Typed, Finite
    <3>3. IsFiniteSet(W) /\ Cardinality(W) <= Cardinality(Q) /\ (Cardinality(W) = Cardinality(Q) => W = Q)
      BY <2>2, <3>2, FS_Subset
    <3>4. Cardinality(W) \in Nat /\ Cardinality(Q) \in Nat
      BY <3>2, <3>3, FS_CardinalityType
    <3>5. Cardinality(W) # Cardinality(Q)
      BY <3>3, <2>4
    <3>6. Min({WarningLimit, Cardinality(Q)}) \in {WarningLimit, Cardinality(Q)}
      BY <3>4, MinOfTwo, ConsequencesAssumption
    <3>7. QED
      BY <2>2, <3>5, <3>6
  <2>5. QED
    BY <2>1, <2>2, <2>3, <2>4
<1>2. QED
  BY <1>1, Invariance, PTL

-----------------------------------------------------------------------------
(* The limit on precedents *)

\* Drafts are not stored yet, and an evaluation of a stored proposal keeps the
\* others.
Fresh == drafted \cap Stored = {}

LEMMA NextStored ==
  ASSUME Typed, [Next]_vars
  PROVE  \/ evaluations' = evaluations
         \/ \E p \in drafted : evaluations' = evaluations \cup {NextEvaluation(p)}
         \/ \E p \in Stored, r \in reports : Reevaluate(p, r)
<1>1. CASE UNCHANGED vars
  BY <1>1 DEF vars, tables
<1>2. ASSUME NEW p \in Proposal, Draft(p) \/ Decide(p) \/ Execute(p) PROVE evaluations' = evaluations
  BY <1>2 DEF Draft, Decide, Execute, tables
<1>3. ASSUME NEW p \in Proposal, AppendProposal(p)
      PROVE  p \in drafted /\ evaluations' = evaluations \cup {NextEvaluation(p)}
  BY <1>3 DEF AppendProposal
<1>4. ASSUME NEW p \in Proposal, NEW r \in reports, Reevaluate(p, r) PROVE p \in Stored
  BY <1>4 DEF Reevaluate
<1>5. ASSUME NEW c \in Reporter, NEW m \in Request, Report(c, m) PROVE evaluations' = evaluations
  BY <1>5 DEF Report, Replay, RefuseReport, RejectReport, AppendReport, tables
<1>6. QED
  BY <1>1, <1>2, <1>3, <1>4, <1>5 DEF Next

LEMMA NextFresh == Typed /\ Fresh /\ [Next]_vars => Fresh'
<1> SUFFICES ASSUME Typed, Fresh, [Next]_vars PROVE Fresh'
  OBVIOUS
<1>0. \A p : NextEvaluation(p).proposal = p
  BY DEF NextEvaluation
<1>1. CASE UNCHANGED vars
  BY <1>1 DEF vars, tables, Fresh, Stored
<1>2. ASSUME NEW p \in Proposal, Draft(p) PROVE Fresh'
  BY <1>2 DEF Draft, Fresh, Stored, tables
<1>3. ASSUME NEW p \in Proposal, AppendProposal(p) PROVE Fresh'
  BY <1>0, <1>3 DEF AppendProposal, Fresh, Stored
<1>4. ASSUME NEW p \in Proposal, Decide(p) \/ Execute(p) PROVE Fresh'
  BY <1>4 DEF Decide, Execute, Fresh, Stored
<1>5. ASSUME NEW p \in Proposal, NEW r \in reports, Reevaluate(p, r) PROVE Fresh'
  BY <1>0, <1>5 DEF Reevaluate, Fresh, Stored
<1>6. ASSUME NEW c \in Reporter, NEW m \in Request, Report(c, m) PROVE Fresh'
  BY <1>6 DEF Report, Replay, RefuseReport, RejectReport, AppendReport, tables, Fresh, Stored
<1>7. QED
  BY <1>1, <1>2, <1>3, <1>4, <1>5, <1>6 DEF Next

LEMMA FiniteTables ==
  ASSUME Typed
  PROVE  /\ IsFiniteSet(Stored) /\ Stored \subseteq Proposal
         /\ \A p : IsFiniteSet(EvaluationsOf(p)) /\ Cardinality(EvaluationsOf(p)) \in Nat
<1>1. IsFiniteSet(evaluations) /\ evaluations \subseteq Evaluation
  BY DEF Typed, TypeOK, Finite
<1>2. [e \in evaluations |-> e.proposal] \in Surjection(evaluations, Stored)
  BY DEF Surjection, Stored
<1>3. IsFiniteSet(Stored)
  BY <1>1, <1>2, FS_Surjection
<1>4. Stored \subseteq Proposal
  BY <1>1 DEF Stored, Evaluation
<1>5. \A p : IsFiniteSet(EvaluationsOf(p)) /\ Cardinality(EvaluationsOf(p)) \in Nat
  BY <1>1, FS_Subset, FS_CardinalityType DEF EvaluationsOf
<1>6. QED
  BY <1>3, <1>4, <1>5

\* A search has as many places as there are proposals to fill them.
LEMMA SearchSize ==
  ASSUME Typed, NEW p, NEW C \in Searches(p)
  PROVE  /\ C \subseteq Stored /\ IsFiniteSet(C) /\ Cardinality(C) \in Nat
         /\ Cardinality(C) = Limit \/ C = Stored
         /\ Cardinality(C) <= Limit
         /\ 2 <= Limit /\ Stored # {p} /\ p \in C => \E q \in C : q # p
<1>1. IsFiniteSet(Stored) /\ Cardinality(Stored) \in Nat /\ Limit \in Nat
  BY FiniteTables, FS_CardinalityType, ConsequencesAssumption
<1>2. C \subseteq Stored /\ Cardinality(C) = Min({Limit, Cardinality(Stored)})
  BY DEF Searches, kSubset
<1>3. IsFiniteSet(C) /\ Cardinality(C) \in Nat
  BY <1>1, <1>2, FS_Subset, FS_CardinalityType
<1>4. /\ Min({Limit, Cardinality(Stored)}) \in {Limit, Cardinality(Stored)}
      /\ Min({Limit, Cardinality(Stored)}) <= Limit
  BY <1>1, MinOfTwo
<1>5. Cardinality(C) = Cardinality(Stored) => C = Stored
  BY <1>1, <1>2, FS_Subset
<1>6. Cardinality(C) = Limit \/ C = Stored
  BY <1>2, <1>4, <1>5
<1>7. ASSUME 2 <= Limit, Stored # {p}, p \in C PROVE \E q \in C : q # p
  <2>1. CASE C = Stored
    BY <2>1, <1>7
  <2>2. CASE Cardinality(C) = Limit
    <3>1. Cardinality(C \ {p}) = Cardinality(C) - 1 /\ IsFiniteSet(C \ {p})
      BY <1>3, <1>7, FS_RemoveElement
    <3>2. C \ {p} # {}
      BY <3>1, <2>2, <1>1, <1>7, FS_EmptySet
    <3>3. QED
      BY <3>2
  <2>3. QED
    BY <1>6, <2>1, <2>2
<1>8. QED
  BY <1>2, <1>3, <1>4, <1>6, <1>7

\* Where few proposals are as similar to p as itself, every search finds p: it
\* could be left out for Limit others only, and there are fewer.
LEMMA SearchFindsItself ==
  ASSUME Typed, NEW p \in Stored, FewAlike(p), NEW C \in Searches(p)
  PROVE  p \in C
<1> SUFFICES ASSUME p \notin C PROVE FALSE
  OBVIOUS
<1> DEFINE Alike == {q \in Stored : Similarity[p][q] >= Similarity[p][p]}
<1>1. C \subseteq Stored /\ IsFiniteSet(C) /\ Cardinality(C) = Limit
  BY SearchSize
<1>2. p \in Alike
  BY FiniteTables, ConsequencesAssumption
<1>3. C \subseteq Alike
  BY <1>1 DEF Searches
<1>4. IsFiniteSet(Alike) /\ Cardinality(Alike) <= Limit
  BY FiniteTables, FS_Subset DEF FewAlike
<1> HIDE DEF Alike
<1>5. IsFiniteSet(C \cup {p}) /\ Cardinality(C \cup {p}) = Limit + 1
  BY <1>1, FS_AddElement
<1>6. Cardinality(C \cup {p}) <= Cardinality(Alike) /\ Cardinality(Alike) \in Nat
  <2>1. C \cup {p} \subseteq Alike
    BY <1>2, <1>3
  <2>2. QED
    BY <2>1, <1>4, FS_Subset, FS_CardinalityType
<1>7. QED
  BY <1>4, <1>5, <1>6, ConsequencesAssumption

\* All but one evaluation of p are among the precedents of a search that finds
\* p, and one of another proposal that it finds comes on top.
LEMMA PrecedentsCounted ==
  ASSUME Typed, NEW p \in Stored, NEW C \in Searches(p), p \in C,
         \E q \in C : q # p
  PROVE  /\ Cardinality(Precedents(C, Latest(p))) \in Nat
         /\ Cardinality(EvaluationsOf(p)) <= Cardinality(Precedents(C, Latest(p)))
<1> DEFINE P == Precedents(C, Latest(p))
           E == EvaluationsOf(p)
           L == Latest(p)
<1>1. IsFiniteSet(P) /\ Cardinality(P) \in Nat
  BY FS_Subset, FS_CardinalityType DEF Precedents, Typed, Finite
<1>2. IsFiniteSet(E) /\ Cardinality(E) \in Nat
  BY FiniteTables
<1>3. PICK e \in evaluations : e.proposal \in C /\ e.proposal # p
  <2>1. PICK q \in C : q # p
    OBVIOUS
  <2>2. q \in Stored
    BY <2>1, SearchSize
  <2>3. QED
    BY <2>1, <2>2 DEF Stored
<1>4. (E \ L) \cup {e} \subseteq P /\ e \notin E
  BY <1>3 DEF Precedents, EvaluationsOf, Latest
<1>5. \A f, g \in L : f = g
  <2> SUFFICES ASSUME NEW f \in L, NEW g \in L PROVE f = g
    OBVIOUS
  <2>1. f \in Evaluation /\ g \in Evaluation
    BY DEF Latest, EvaluationsOf, Typed, TypeOK
  <2>2. f.id \in Int /\ g.id \in Int
    BY <2>1, ConsequencesAssumption DEF Evaluation, Id
  <2>3. f.id <= g.id /\ g.id <= f.id /\ f.proposal = g.proposal
    BY DEF Latest, EvaluationsOf
  <2>4. f.id = g.id
    BY <2>2, <2>3
  <2>5. QED
    BY <2>1, <2>3, <2>4 DEF Evaluation
<1>6. L \subseteq E
  BY DEF Latest
<1> HIDE DEF P, E, L
<1>7. IsFiniteSet(E \ L) /\ Cardinality(E) <= Cardinality(E \ L) + 1 /\ Cardinality(E \ L) \in Nat
  <2>1. CASE L = {}
    <3>1. E \ L = E
      BY <2>1
    <3>2. QED
      BY <3>1, <1>2
  <2>2. CASE L # {}
    <3>1. PICK f \in L : L = {f}
      BY <2>2, <1>5
    <3>2. E \ L = E \ {f} /\ f \in E
      BY <3>1, <1>6
    <3>3. IsFiniteSet(E \ L) /\ Cardinality(E \ L) = Cardinality(E) - 1
      BY <3>2, <1>2, FS_RemoveElement
    <3>4. Cardinality(E \ L) \in Nat
      BY <3>3, FS_CardinalityType
    <3>5. Cardinality(E) <= Cardinality(E \ L) + 1
      BY <3>3, <1>2
    <3>6. QED
      BY <3>3, <3>4, <3>5
  <2>3. QED
    BY <2>1, <2>2
<1>8. IsFiniteSet((E \ L) \cup {e}) /\ Cardinality((E \ L) \cup {e}) = Cardinality(E \ L) + 1
  BY <1>4, <1>7, FS_AddElement
<1>9. Cardinality((E \ L) \cup {e}) <= Cardinality(P)
  BY <1>1, <1>4, FS_Subset
<1>10. QED
  BY <1>1, <1>2, <1>7, <1>8, <1>9 DEF P, E

\* A proposal that was evaluated again has had another beside it since.
Accompanied(p) ==
  Cardinality(EvaluationsOf(p)) >= 2 => 2 <= Limit /\ Stored # {p}

Worn(p) == Cardinality(EvaluationsOf(p)) <= TopK + 1 /\ Accompanied(p)

WornInv == \A p \in Stored : FewAlike(p) => Worn(p)

\* What becomes of p when a proposal q gets a new evaluation.
LEMMA OthersStayWorn ==
  ASSUME Typed, NEW p, NEW q, q # p, Worn(p),
         evaluations' = evaluations \cup {NextEvaluation(q)}
  PROVE  Worn(p)'
<1>1. NextEvaluation(q).proposal = q
  BY DEF NextEvaluation
<1>2. EvaluationsOf(p)' = EvaluationsOf(p)
  BY <1>1 DEF EvaluationsOf
<1>3. Stored # {p} => Stored' # {p}
  BY <1>1 DEF Stored
<1>4. QED
  BY <1>2, <1>3 DEF Worn, Accompanied

\* The more proposals there are, the more are alike.
LEMMA FewAlikeBefore ==
  ASSUME Typed', NEW p, evaluations \subseteq evaluations', FewAlike(p)'
  PROVE  FewAlike(p)
<1> DEFINE Before == {q \in Stored : Similarity[p][q] >= Similarity[p][p]}
           After == {q \in Stored' : Similarity[p][q] >= Similarity[p][p]}
<1>1. IsFiniteSet(After)
  <2>1. IsFiniteSet(evaluations')
    BY DEF Typed, Finite
  <2>2. [e \in evaluations' |-> e.proposal] \in Surjection(evaluations', Stored')
    BY DEF Surjection, Stored
  <2>3. IsFiniteSet(Stored')
    BY <2>1, <2>2, FS_Surjection
  <2>4. QED
    BY <2>3, FS_Subset
<1>2. Before \subseteq After
  BY DEF Stored
<1>3. Cardinality(After) <= Limit
  BY DEF FewAlike
<1> HIDE DEF Before, After
<1>4. /\ Cardinality(Before) <= Cardinality(After)
      /\ Cardinality(Before) \in Nat /\ Cardinality(After) \in Nat
  BY <1>1, <1>2, FS_Subset, FS_CardinalityType
<1>5. Cardinality(Before) <= Limit
  BY <1>3, <1>4, ConsequencesAssumption
<1>6. QED
  BY <1>5 DEF FewAlike, Before

LEMMA ReevaluationWears ==
  ASSUME Typed, NEW p \in Stored, NEW r \in reports, Reevaluate(p, r), FewAlike(p), Worn(p)
  PROVE  Worn(p)'
<1> DEFINE E == EvaluationsOf(p)
<1>1. PICK C \in Searches(p) : /\ \E e \in Precedents(C, Latest(p)) : r \in ReportsOn(e)
                               /\ WithinLimit(Precedents(C, Latest(p)))
  BY DEF Reevaluate
<1>2. IsFiniteSet(E) /\ Cardinality(E) \in Nat /\ TopK \in Nat /\ Limit \in Nat
  BY FiniteTables, ConsequencesAssumption
<1>3. p \in C
  BY SearchFindsItself
<1>4. \E q \in C : q # p
  <2>1. CASE Cardinality(E) >= 2
    BY <2>1, <1>3, SearchSize DEF Worn, Accompanied
  <2>2. CASE ~(Cardinality(E) >= 2)
    <3>1. PICK e \in evaluations : e.proposal \in C /\ e \notin Latest(p)
      BY <1>1 DEF Precedents
    <3>2. CASE e.proposal = p
      <4>1. e \in E
        BY <3>2 DEF EvaluationsOf
      <4>2. Cardinality(E) = 1
        <5>1. Cardinality(E) # 0
          BY <4>1, <1>2, FS_EmptySet
        <5>2. QED
          BY <5>1, <1>2, <2>2
      <4>3. E = {e}
        BY <4>1, <4>2, <1>2, FS_Singleton
      <4>4. e.id <= e.id
        BY ConsequencesAssumption DEF Typed, TypeOK, Evaluation, Id
      <4>5. e \in Latest(p)
        BY <4>3, <4>4 DEF Latest
      <4>6. QED
        BY <3>1, <4>5
    <3>3. QED
      BY <3>1, <3>2
  <2>3. QED
    BY <2>1, <2>2
<1>5. Cardinality(E) <= TopK
  BY <1>1, <1>2, <1>3, <1>4, PrecedentsCounted DEF WithinLimit
<1>6. Cardinality(E') <= TopK + 1
  <2>1. E' = E \cup {NextEvaluation(p)}
    BY DEF EvaluationsOf, Reevaluate, NextEvaluation
  <2> HIDE DEF E
  <2>2. Cardinality(E \cup {NextEvaluation(p)}) \in {Cardinality(E), Cardinality(E) + 1}
    BY <1>2, FS_AddElement
  <2>3. QED
    BY <1>2, <1>5, <2>1, <2>2
<1>7. 2 <= Limit
  <2>1. PICK q \in C : q # p
    BY <1>4
  <2>2. Cardinality({p, q}) = 2 /\ {p, q} \subseteq C
    <3>1. IsFiniteSet({p}) /\ Cardinality({p}) = 1 /\ {p, q} = {p} \cup {q}
      BY FS_Singleton
    <3>2. Cardinality({p} \cup {q}) = Cardinality({p}) + 1
      BY <2>1, <3>1, FS_AddElement
    <3>3. QED
      BY <1>3, <3>1, <3>2
  <2>3. Cardinality(C) <= Limit /\ IsFiniteSet(C) /\ Cardinality(C) \in Nat
    BY SearchSize
  <2>4. Cardinality({p, q}) <= Cardinality(C)
    BY <2>2, <2>3, FS_Subset
  <2>5. QED
    BY <1>2, <2>2, <2>3, <2>4
<1>8. Stored' # {p}
  <2>1. PICK q \in C : q # p
    BY <1>4
  <2>2. q \in Stored'
    BY <2>1, SearchSize DEF Stored, Reevaluate
  <2>3. QED
    BY <2>1, <2>2
<1>9. QED
  BY <1>6, <1>7, <1>8 DEF Worn, Accompanied

LEMMA NextWorn == Typed /\ Fresh /\ WornInv /\ [Next]_vars => WornInv'
<1> SUFFICES ASSUME Typed, Fresh, WornInv, [Next]_vars,
                    NEW p \in Stored', FewAlike(p)'
             PROVE  Worn(p)'
  BY DEF WornInv
<1>1. Typed'
  BY NextTyped
<1>2. CASE evaluations' = evaluations
  BY <1>2 DEF WornInv, Worn, Accompanied, FewAlike, Stored, EvaluationsOf
<1>3. ASSUME NEW q \in drafted, evaluations' = evaluations \cup {NextEvaluation(q)}
      PROVE  Worn(p)'
  <2>1. CASE p # q
    <3>1. p \in Stored /\ FewAlike(p)
      BY <1>1, <1>3, <2>1, FewAlikeBefore DEF Stored, NextEvaluation
    <3>2. QED
      BY <1>3, <2>1, <3>1, OthersStayWorn DEF WornInv
  <2>2. CASE p = q
    <3>1. EvaluationsOf(p) = {}
      BY <2>2 DEF Fresh, Stored, EvaluationsOf
    <3>2. EvaluationsOf(p)' = {NextEvaluation(p)}
      BY <1>3, <2>2, <3>1 DEF EvaluationsOf, NextEvaluation
    <3>3. Cardinality(EvaluationsOf(p)') = 1
      BY <3>2, FS_Singleton
    <3>4. QED
      BY <3>3, ConsequencesAssumption DEF Worn, Accompanied
  <2>3. QED
    BY <2>1, <2>2
<1>4. ASSUME NEW q \in Stored, NEW r \in reports, Reevaluate(q, r)
      PROVE  Worn(p)'
  <2>1. evaluations' = evaluations \cup {NextEvaluation(q)}
    BY <1>4 DEF Reevaluate
  <2>2. p \in Stored
    BY <2>1 DEF Stored, NextEvaluation
  <2>3. FewAlike(p) /\ Worn(p)
    BY <1>1, <2>1, <2>2, FewAlikeBefore DEF WornInv
  <2>4. QED
    BY <1>4, <2>1, <2>2, <2>3, OthersStayWorn, ReevaluationWears
<1>5. QED
  BY <1>2, <1>3, <1>4, NextStored

\* A proposal is evaluated once more often than the gate accepts precedents at
\* most, whatever similarities, ties and numbers of proposals, unless more are
\* alike than a search returns (EvaluationsBounded).
THEOREM EvaluationsStayBounded == Spec => []EvaluationsBounded
<1>1. Init => Typed /\ Fresh /\ WornInv
  BY InitTyped DEF Init, Fresh, WornInv, Stored
<1>2. Typed /\ Fresh /\ WornInv /\ [Next]_vars => (Typed /\ Fresh /\ WornInv)'
  BY NextTyped, NextFresh, NextWorn
<1>3. WornInv => EvaluationsBounded
  BY DEF WornInv, Worn, EvaluationsBounded
<1>4. QED
  BY <1>1, <1>2, <1>3, PTL DEF Spec

-----------------------------------------------------------------------------
(* Comparisons *)

LEMMA TypedComparisons == Typed => ComparisonSound
<1> SUFFICES ASSUME Typed, NEW r \in reports
             PROVE  /\ \A k, l \in Leaves[<<Prediction[r.proposal], r.actual>>] :
                         Pointer(k.path) = Pointer(l.path) => k = l
                    /\ Divergent(r) \in 0 .. Unit
                    /\ r.actual = Prediction[r.proposal] => Divergent(r) = 0
  BY DEF ComparisonSound, PointersDistinct, ScoreInRange
<1>1. r \in Request
  BY DEF Typed, TypeOK
<1>2. Prediction[r.proposal] \in Json /\ r.actual \in Json
  BY <1>1, ConsequencesAssumption DEF Request
<1>3. QED
  BY <1>2, LeavesHavePointers, ScoresWithinUnit DEF Divergent

\* Whatever JSON values were predicted and reported, the leaves of a stored
\* comparison are told apart by their pointers, and its score passes the CHECK
\* of its table (ComparisonSound).
THEOREM ComparisonsAreSound == Spec => []ComparisonSound
BY InitTyped, NextTyped, TypedComparisons, PTL DEF Spec

-----------------------------------------------------------------------------
(* What Adjudication and Execution promise *)

IdsOf(p) == {e.id : e \in EvaluationsOf(p)}

SettlementsOf(p) ==
  {[evaluation |-> d.evaluation, value |-> d.value, excluded |-> FALSE] :
     d \in {f \in decisions : f.proposal = p}}

ReviewView == INSTANCE Adjudication WITH
  Evaluations <- Id,
  history <- [p \in Proposal |-> IdsOf(p)],
  outcome <- [p \in Proposal |-> SettlementsOf(p)]

Approved(p) == \E d \in decisions : d.proposal = p /\ Executable(d)

OutcomeOf(p) ==
  IF Observed(p) THEN "OBSERVED"
  ELSE IF \E r \in receipts : r.proposal = p THEN "ERROR" ELSE "NONE"

\* The versions of effects do not matter here: each has a key of its own.
ExecutorView == INSTANCE Execution WITH
  Decision <- Proposal, EffectKey <- Proposal, Target <- [p \in Proposal |-> p],
  authorized <- {p \in Proposal : Approved(p)},
  outcome <- [p \in Proposal |-> OutcomeOf(p)],
  version <- [p \in Proposal |-> IF Observed(p) THEN 1 ELSE 0]

\* Evaluations are numbered in the order they were appended.
Numbered == \A e \in evaluations : e.id <= Cardinality(evaluations)

LEMMA NumberIsFree ==
  ASSUME Typed, Numbered, NEW p
  PROVE  \A e \in evaluations : e.id # NextEvaluation(p).id
<1>1. Cardinality(evaluations) \in Nat
  BY FS_CardinalityType DEF Typed, Finite
<1>2. \A e \in evaluations : e.id \in Int
  BY ConsequencesAssumption DEF Typed, TypeOK, Evaluation, Id
<1>3. QED
  BY <1>1, <1>2 DEF NextEvaluation, Numbered

LEMMA NumberedStays ==
  ASSUME Typed, Numbered,
         \/ UNCHANGED evaluations
         \/ \E p \in Proposal : evaluations' = evaluations \cup {NextEvaluation(p)}
  PROVE  Numbered'
<1>1. CASE UNCHANGED evaluations
  BY <1>1 DEF Numbered
<1>2. ASSUME NEW p \in Proposal, evaluations' = evaluations \cup {NextEvaluation(p)}
      PROVE  Numbered'
  <2>1. Cardinality(evaluations) \in Nat /\ IsFiniteSet(evaluations)
    BY FS_CardinalityType DEF Typed, Finite
  <2>2. NextEvaluation(p) \notin evaluations
    BY NumberIsFree
  <2>3. Cardinality(evaluations') = Cardinality(evaluations) + 1
    BY <1>2, <2>1, <2>2, FS_AddElement
  <2>4. NextEvaluation(p).id = Cardinality(evaluations')
    BY <2>3 DEF NextEvaluation
  <2>5. \A e \in evaluations : e.id \in Int /\ e.id <= Cardinality(evaluations)
    BY ConsequencesAssumption DEF Typed, TypeOK, Evaluation, Id, Numbered
  <2>6. QED
    BY <1>2, <2>1, <2>3, <2>4, <2>5 DEF Numbered
<1>3. QED
  BY <1>1, <1>2

\* What a step may do to the tables that Adjudication and Execution see.
LEMMA TableSteps ==
  ASSUME [Next]_vars
  PROVE  \/ UNCHANGED <<evaluations, decisions, receipts>>
         \/ /\ UNCHANGED <<decisions, receipts>>
            /\ \E p \in Proposal : /\ Cardinality(evaluations) < MaxEvaluations
                                   /\ evaluations' = evaluations \cup {NextEvaluation(p)}
         \/ \E p \in Proposal : Decide(p)
         \/ \E p \in Proposal : Execute(p)
<1> USE DEF tables
<1>1. CASE UNCHANGED vars
  BY <1>1 DEF vars
<1>2. ASSUME NEW p \in Proposal, Draft(p) PROVE UNCHANGED <<evaluations, decisions, receipts>>
  BY <1>2 DEF Draft
<1>3. ASSUME NEW p \in Proposal, AppendProposal(p)
      PROVE  /\ UNCHANGED <<decisions, receipts>>
             /\ Cardinality(evaluations) < MaxEvaluations
             /\ evaluations' = evaluations \cup {NextEvaluation(p)}
  BY <1>3 DEF AppendProposal
<1>4. ASSUME NEW p \in Proposal, NEW r \in reports, Reevaluate(p, r)
      PROVE  /\ UNCHANGED <<decisions, receipts>>
             /\ Cardinality(evaluations) < MaxEvaluations
             /\ evaluations' = evaluations \cup {NextEvaluation(p)}
  BY <1>4 DEF Reevaluate
<1>5. ASSUME NEW c \in Reporter, NEW m \in Request, Report(c, m)
      PROVE  UNCHANGED <<evaluations, decisions, receipts>>
  BY <1>5 DEF Report, Replay, RefuseReport, RejectReport, AppendReport
<1>6. QED
  BY <1>1, <1>2, <1>3, <1>4, <1>5 DEF Next

LEMMA EvaluatesOnce ==
  ASSUME Typed, Numbered, NEW p \in Proposal, Cardinality(evaluations) < MaxEvaluations,
         evaluations' = evaluations \cup {NextEvaluation(p)}, UNCHANGED decisions
  PROVE  ReviewView!Evaluate(p)
<1> DEFINE n == NextEvaluation(p).id
<1>1. n \in Id
  <2>1. Cardinality(evaluations) \in Nat
    BY FS_CardinalityType DEF Typed, Finite
  <2>2. QED
    BY <2>1, ConsequencesAssumption DEF NextEvaluation, Id
<1>2. \A q \in Proposal : n \notin IdsOf(q)
  BY NumberIsFree DEF IdsOf, EvaluationsOf
<1>3. NextEvaluation(p).proposal = p
  BY DEF NextEvaluation
<1> HIDE DEF n
<1>4. \A q \in Proposal : IdsOf(q)' = IF q = p THEN IdsOf(q) \cup {n} ELSE IdsOf(q)
  BY <1>3 DEF IdsOf, EvaluationsOf, n
<1>5. [q \in Proposal |-> IdsOf(q)]' = [[q \in Proposal |-> IdsOf(q)] EXCEPT ![p] = @ \cup {n}]
  BY <1>4
<1>6. [q \in Proposal |-> SettlementsOf(q)]' = [q \in Proposal |-> SettlementsOf(q)]
  BY DEF SettlementsOf
<1>7. \A q \in Proposal : n \notin [r \in Proposal |-> IdsOf(r)][q]
  BY <1>2
<1>8. QED
  BY <1>1, <1>5, <1>6, <1>7 DEF ReviewView!Evaluate

LEMMA DecidesOnce ==
  ASSUME Typed, NEW p \in Proposal, Decide(p)
  PROVE  ReviewView!Settle(p)
<1>1. PICK e \in EvaluationsOf(p), v \in DecisionValue :
        decisions' = decisions \cup {[proposal |-> p, evaluation |-> e.id, value |-> v]}
  BY DEF Decide
<1> DEFINE d == [proposal |-> p, evaluation |-> e.id, value |-> v]
           s == [evaluation |-> e.id, value |-> v, excluded |-> FALSE]
<1>2. e.id \in Id /\ v \in {"APPROVE", "REJECT", "MODIFY"}
  BY ConsequencesAssumption DEF Typed, TypeOK, EvaluationsOf, Evaluation
<1>3. s \in ReviewView!Settlement /\ ~s.excluded /\ s.evaluation \in IdsOf(p)
  BY <1>2 DEF ReviewView!Settlement, IdsOf
<1>4. d.proposal = p /\ s = [evaluation |-> d.evaluation, value |-> d.value, excluded |-> FALSE]
  OBVIOUS
<1> HIDE DEF d, s
<1>5. \A f \in decisions : f.proposal # p
  BY DEF Decide
<1>6. SettlementsOf(p) = {} /\ SettlementsOf(p)' = {s}
  <2>1. {f \in decisions : f.proposal = p} = {} /\ {f \in decisions' : f.proposal = p} = {d}
    BY <1>1, <1>4, <1>5 DEF d
  <2>2. QED
    BY <2>1, <1>4 DEF SettlementsOf
<1>7. \A q \in Proposal : q # p => SettlementsOf(q)' = SettlementsOf(q)
  <2> SUFFICES ASSUME NEW q \in Proposal, q # p PROVE SettlementsOf(q)' = SettlementsOf(q)
    OBVIOUS
  <2>1. {f \in decisions' : f.proposal = q} = {f \in decisions : f.proposal = q}
    BY <1>1, <1>4 DEF d
  <2>2. QED
    BY <2>1 DEF SettlementsOf
<1>8. [q \in Proposal |-> SettlementsOf(q)]'
        = [[q \in Proposal |-> SettlementsOf(q)] EXCEPT ![p] = {s}]
  BY <1>6, <1>7
<1>9. UNCHANGED evaluations
  BY DEF Decide
<1>10. [q \in Proposal |-> IdsOf(q)]' = [q \in Proposal |-> IdsOf(q)]
  BY <1>9 DEF IdsOf, EvaluationsOf
<1>11. [q \in Proposal |-> SettlementsOf(q)][p] = {}
  BY <1>6
<1>12. s.evaluation \in [q \in Proposal |-> IdsOf(q)][p]
  BY <1>3
<1>13. s.excluded => s.value = "REJECT"
  BY <1>3
<1>14. QED
  BY <1>3, <1>8, <1>10, <1>11, <1>12, <1>13 DEF ReviewView!Settle

LEMMA ExecutesOnce ==
  ASSUME Typed, NEW p \in Proposal, Execute(p)
  PROVE  ExecutorView!Apply(p) \/ ExecutorView!Reject(p)
<1> DEFINE Versions == [q \in Proposal |-> IF Observed(q) THEN 1 ELSE 0]
           Outcomes == [q \in Proposal |-> OutcomeOf(q)]
           Target == [q \in Proposal |-> q]
<1>1. PICK s \in {"OBSERVED", "ERROR"} : receipts' = receipts \cup {[proposal |-> p, status |-> s]}
  BY DEF Execute
<1>2. /\ \A r \in receipts : r.proposal # p
      /\ Approved(p) /\ UNCHANGED <<evaluations, decisions>>
  BY DEF Execute, Approved
<1>3. ~Observed(p) /\ OutcomeOf(p) = "NONE"
  BY <1>2 DEF Observed, OutcomeOf
<1>4. \A q \in Proposal : q # p => (Observed(q)' <=> Observed(q)) /\ OutcomeOf(q)' = OutcomeOf(q)
  <2> SUFFICES ASSUME NEW q \in Proposal, q # p
               PROVE  (Observed(q)' <=> Observed(q)) /\ OutcomeOf(q)' = OutcomeOf(q)
    OBVIOUS
  <2>1. Observed(q)' <=> Observed(q)
    BY <1>1 DEF Observed
  <2>2. (\E r \in receipts' : r.proposal = q) <=> \E r \in receipts : r.proposal = q
    BY <1>1
  <2>3. QED
    BY <2>1, <2>2 DEF OutcomeOf
<1>5. {q \in Proposal : Approved(q)}' = {q \in Proposal : Approved(q)}
  BY <1>2 DEF Approved, Executable
<1>6. p \in {q \in Proposal : Approved(q)}
  BY <1>2
<1>7. CASE s = "OBSERVED"
  <2>1. Observed(p)' /\ OutcomeOf(p)' = "OBSERVED"
    BY <1>1, <1>7 DEF Observed, OutcomeOf
  <2>2. Outcomes' = [Outcomes EXCEPT ![p] = "OBSERVED"]
    BY <1>4, <2>1
  <2>3. Versions' = [Versions EXCEPT ![p] = 1]
    BY <1>4, <2>1
  <2>4. 1 \in ExecutorView!NextVersions(Target[p])
    BY <1>3 DEF ExecutorView!NextVersions, ExecutorView!OnKey
  <2>5. Outcomes[p] = "NONE"
    BY <1>3
  <2>6. QED
    BY <1>5, <1>6, <2>2, <2>3, <2>4, <2>5 DEF ExecutorView!Apply
<1>8. CASE s = "ERROR"
  <2>1. ~Observed(p)' /\ OutcomeOf(p)' = "ERROR"
    BY <1>1, <1>3, <1>8 DEF Observed, OutcomeOf
  <2>2. Outcomes' = [Outcomes EXCEPT ![p] = "ERROR"]
    BY <1>4, <2>1
  <2>3. Versions' = Versions
    BY <1>3, <1>4, <2>1
  <2>4. Outcomes[p] = "NONE"
    BY <1>3
  <2>5. QED
    BY <1>5, <1>6, <2>2, <2>3, <2>4 DEF ExecutorView!Reject
<1>9. QED
  BY <1>7, <1>8

\* A decision is an authorization or leaves what the executor may do alone.
LEMMA DecideAuthorizes ==
  ASSUME NEW p \in Proposal, Decide(p)
  PROVE  ExecutorView!Authorize(p) \/ UNCHANGED ExecutorView!avars
<1>1. PICK e \in EvaluationsOf(p), v \in DecisionValue :
        decisions' = decisions \cup {[proposal |-> p, evaluation |-> e.id, value |-> v]}
  BY DEF Decide
<1>2. UNCHANGED receipts
  BY DEF Decide
<1>3. /\ [q \in Proposal |-> OutcomeOf(q)]' = [q \in Proposal |-> OutcomeOf(q)]
      /\ [q \in Proposal |-> IF Observed(q) THEN 1 ELSE 0]'
           = [q \in Proposal |-> IF Observed(q) THEN 1 ELSE 0]
  BY <1>2 DEF OutcomeOf, Observed
<1>4. \A q \in Proposal : Approved(q)' <=> Approved(q) \/ (q = p /\ v = "APPROVE")
  <2> DEFINE d == [proposal |-> p, evaluation |-> e.id, value |-> v]
  <2>1. d.proposal = p /\ d.value = v /\ decisions' = decisions \cup {d}
    BY <1>1
  <2> HIDE DEF d
  <2>2. QED
    BY <2>1 DEF Approved, Executable
<1>5. \/ {q \in Proposal : Approved(q)}' = {q \in Proposal : Approved(q)} \cup {p}
      \/ {q \in Proposal : Approved(q)}' = {q \in Proposal : Approved(q)}
  BY <1>4
<1>6. QED
  BY <1>3, <1>5 DEF ExecutorView!Authorize, ExecutorView!avars

\* What this module takes of review is no more than Adjudication allows: each
\* proposal is settled once, on an evaluation of its own, whatever is reported
\* and re-evaluated meanwhile.
THEOREM ConsequencesRestOnAdjudication == Spec => ReviewView!ASpec
<1>1. Init => ReviewView!AInit
  BY DEF Init, ReviewView!AInit, IdsOf, EvaluationsOf, SettlementsOf
<1>2. Typed /\ Numbered /\ [Next]_vars => [ReviewView!ANext]_(ReviewView!avars)
  <2> SUFFICES ASSUME Typed, Numbered, [Next]_vars
               PROVE  [ReviewView!ANext]_(ReviewView!avars)
    OBVIOUS
  <2>1. CASE UNCHANGED <<evaluations, decisions>>
    BY <2>1 DEF ReviewView!avars, IdsOf, EvaluationsOf, SettlementsOf
  <2>2. CASE UNCHANGED decisions /\
             \E p \in Proposal : /\ Cardinality(evaluations) < MaxEvaluations
                                 /\ evaluations' = evaluations \cup {NextEvaluation(p)}
    BY <2>2, EvaluatesOnce DEF ReviewView!ANext
  <2>3. CASE \E p \in Proposal : Decide(p)
    BY <2>3, DecidesOnce DEF ReviewView!ANext
  <2>4. CASE \E p \in Proposal : Execute(p)
    BY <2>1, <2>4 DEF Execute
  <2>5. QED
    BY <2>1, <2>2, <2>3, <2>4, TableSteps
<1>3. Init => Typed /\ Numbered
  BY InitTyped DEF Init, Numbered
<1>4. Typed /\ Numbered /\ [Next]_vars => (Typed /\ Numbered)'
  <2> SUFFICES ASSUME Typed, Numbered, [Next]_vars PROVE Numbered'
    BY NextTyped
  <2>1. \/ UNCHANGED evaluations
        \/ \E p \in Proposal : evaluations' = evaluations \cup {NextEvaluation(p)}
    BY TableSteps DEF Decide, Execute
  <2>2. QED
    BY <2>1, NumberedStays
<1>5. QED
  BY <1>1, <1>2, <1>3, <1>4, PTL DEF Spec, ReviewView!ASpec

\* Nor is what it takes of the executor more than Execution allows: an approved
\* decision is executed once, with one outcome.
THEOREM ConsequencesRestOnExecution == Spec => ExecutorView!ASpec
<1>1. Init => ExecutorView!AInit
  BY DEF Init, ExecutorView!AInit, Approved, OutcomeOf, Observed
<1>2. Typed /\ [Next]_vars => [ExecutorView!ANext]_(ExecutorView!avars)
  <2> SUFFICES ASSUME Typed, [Next]_vars
               PROVE  [ExecutorView!ANext]_(ExecutorView!avars)
    OBVIOUS
  <2>1. CASE UNCHANGED <<decisions, receipts>>
    BY <2>1 DEF ExecutorView!avars, Approved, OutcomeOf, Observed
  <2>2. CASE \E p \in Proposal : Decide(p)
    BY <2>2, DecideAuthorizes DEF ExecutorView!ANext
  <2>3. CASE \E p \in Proposal : Execute(p)
    BY <2>3, ExecutesOnce DEF ExecutorView!ANext
  <2>4. QED
    BY <2>1, <2>2, <2>3, TableSteps
<1>3. QED
  BY <1>1, <1>2, InitTyped, NextTyped, PTL DEF Spec, ExecutorView!ASpec
=============================================================================
