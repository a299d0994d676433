-------------------------------- MODULE Gate --------------------------------
(***************************************************************************)
(* The governance gate, src/governance.py: evaluate_proposal maps one      *)
(* frozen snapshot, and the evaluation it continues, to a FINALIZED or a   *)
(* BLOCKED result.  The checks F02 to F10 each add predicates to one of    *)
(* three lists, and the reducer R1..R4 picks the verdict from the lists.   *)
(*                                                                         *)
(* The operators take a snapshot as a record of facts.  The actions put    *)
(* the evaluator to use: a proposal is evaluated, and evaluated again over *)
(* a snapshot in which one kind of fact is another, each time with the     *)
(* latest FINALIZED evaluation as its prior.                               *)
(***************************************************************************)
EXTENDS Naturals, FiniteSets

CONSTANTS
  Class,                \* exact class keys: action_type_key + target_key
  ProposalClass,        \* the one of the proposal under evaluation
  Kind,                 \* kinds of evidence
  Capability,           \* capability identities
  Rule,                 \* policy rules
  Precedent,            \* retrieved evaluations of similar proposals
  Dependency,           \* dependency facts of the proposal
  Unresolved,           \* similarity is None
  SimilarityThreshold,  \* similarity_threshold, 0.85 in the code
  DivergenceThreshold,  \* divergence_threshold, 0.5 in the code
  TopK,                 \* precedent_top_k, 5 in the code
  MaxTrace,             \* longest trace, 99 in the code
  NoPrior,              \* prior_evaluation is None
  Inputs                \* per field of a snapshot, the values callers pass

State == {"TRUE", "FALSE", "UNRESOLVED"}    \* DependencyState

\* A consequence report as a precedent carries it.  bound: its receipt is
\* OBSERVED and its threshold is the pinned one.
IsReport(r) == /\ r.divergence \in Nat
               /\ r.bound \in BOOLEAN

\* scope is the set of classes the rule's action type and target cover.
RuleAssumption ==
  \A r \in Rule : /\ r.effect \in {"ALLOW", "DENY"}
                  /\ r.scope \subseteq Class
                  /\ r.required_evidence \subseteq Kind
                  /\ r.required_capability_ids \subseteq Capability
                  /\ r.require_consequence \in BOOLEAN

PrecedentAssumption ==
  \A p \in Precedent : /\ p.class \in Class
                       /\ p.similarity \in Nat \cup {Unresolved}
                       /\ p.decision \in {"APPROVE", "REJECT", "MODIFY", "NONE"}
                       /\ \A r \in p.reports : IsReport(r)

DependencyAssumption ==
  \A d \in Dependency : /\ d.state \in State
                        /\ d.necessary_for_yes \in BOOLEAN
                        /\ d.sufficient_if_true \in BOOLEAN

Snapshot == [ policy       : SUBSET Rule,
              exclusions   : SUBSET Class,
              precedents   : SUBSET Precedent,
              evidence     : SUBSET Kind,
              capabilities : SUBSET [id : Capability, state : State],
              dependencies : SUBSET Dependency ]

Field == {"policy", "exclusions", "precedents", "evidence", "capabilities",
          "dependencies"}

InputAssumption ==
  /\ Inputs.policy \subseteq SUBSET Rule
  /\ Inputs.exclusions \subseteq SUBSET Class
  /\ Inputs.precedents \subseteq SUBSET Precedent
  /\ Inputs.evidence \subseteq SUBSET Kind
  /\ Inputs.capabilities \subseteq SUBSET [id : Capability, state : State]
  /\ Inputs.dependencies \subseteq SUBSET Dependency

ASSUME GateAssumption ==
  /\ ProposalClass \in Class
  /\ SimilarityThreshold \in Nat /\ DivergenceThreshold \in Nat
  /\ TopK \in Nat /\ MaxTrace \in Nat
  /\ Unresolved \notin Nat
  /\ NoPrior \notin Snapshot
  /\ RuleAssumption /\ PrecedentAssumption /\ DependencyAssumption
  /\ InputAssumption

VARIABLES
  prior,      \* snapshot of the FINALIZED evaluation that is continued
  snapshot,   \* snapshot of the last evaluation made
  result      \* and what evaluate_proposal returned for it

vars == <<prior, snapshot, result>>

-----------------------------------------------------------------------------
(* What the checks read off a snapshot. *)

Applicable(s) == {r \in s.policy : ProposalClass \in r.scope}
Allow(s)      == {r \in Applicable(s) : r.effect = "ALLOW"}
Deny(s)       == {r \in Applicable(s) : r.effect = "DENY"}

NoSimilarity(s) == {p \in s.precedents : p.similarity = Unresolved}
Near(s) == {p \in s.precedents \ NoSimilarity(s) :
                                  p.similarity >= SimilarityThreshold}
Qualifying(s)  == {p \in Near(s) : p.class = ProposalClass}
Decided(s, v)  == {p \in Qualifying(s) : p.decision = v}
Approved(s)    == Decided(s, "APPROVE")
Conflict(s)    == /\ Approved(s) # {}
                  /\ Decided(s, "REJECT") \cup Decided(s, "MODIFY") # {}

RequiredEvidence(s) == UNION {r.required_evidence : r \in Allow(s)}
Unevidenced(s)      == RequiredEvidence(s) \ s.evidence

Reports(s)   == UNION {p.reports : p \in Approved(s)}
\* Mutant: divergence_equal_is_high is lost.
MoreStrictly(s) == {r \in Reports(s) : r.divergence > DivergenceThreshold}
More(s)      == {r \in Reports(s) : r.divergence >= DivergenceThreshold}
Unreported(s) == {p \in Approved(s) : /\ \E r \in Allow(s) : r.require_consequence
                                      /\ p.reports = {}}

RequiredCapabilities(s) == UNION {r.required_capability_ids : r \in Allow(s)}
Capabilities(s, v) == {c \in RequiredCapabilities(s) :
                                    [id |-> c, state |-> v] \in s.capabilities}
NoCapability(s)    == {c \in RequiredCapabilities(s) :
                                    \A f \in s.capabilities : f.id # c}

Dependencies(s, v) == {d \in s.dependencies : d.state = v}
Complete(s) == {d \in Dependencies(s, "UNRESOLVED") :
                              d.necessary_for_yes /\ d.sufficient_if_true}

-----------------------------------------------------------------------------
(* The predicates each check appends to raw_r1, raw_r2 and raw_r3: the     *)
(* check, its finding, and what it is about.                               *)

R1(s) ==
  {<<"F02", "OUTSIDE", ProposalClass>> : r \in Deny(s)}
    \cup {<<"F03", "SAME", c>> : c \in s.exclusions \cap {ProposalClass}}
    \cup {<<"F09", "FALSE", c>> : c \in Capabilities(s, "FALSE")}
    \cup {<<"F10", "FALSE", d>> : d \in Dependencies(s, "FALSE")}

R2(s) ==
  {<<"F02", "UNRESOLVED", c>> :
               c \in IF Applicable(s) = {} THEN {ProposalClass} ELSE {}}
    \cup {<<"F04", "UNRESOLVED", p>> : p \in NoSimilarity(s)}
    \cup {<<"F05", "NO_APPROVE", c>> :
               c \in IF Approved(s) = {} THEN {ProposalClass} ELSE {}}
    \cup {<<"F06", "CONFLICT", c>> :
               c \in IF Conflict(s) THEN {ProposalClass} ELSE {}}
    \cup {<<"F07", "MISSING", k>> : k \in Unevidenced(s)}
    \cup {<<"F08", "HIGH", r>> : r \in More(s)}
    \cup {<<"F08", "MISSING", p>> : p \in Unreported(s)}
    \cup {<<"F09", "MISSING", c>> : c \in NoCapability(s)}
    \cup {<<"F09", "UNRESOLVED", c>> : c \in Capabilities(s, "UNRESOLVED")}
    \cup {<<"F10", "INCOMPLETE", d>> :
               d \in Dependencies(s, "UNRESOLVED") \ Complete(s)}

R3(s) == {<<"F10", "COMPLETE", d>> : d \in Complete(s)}

Triggered(s) == R1(s) \cup R2(s) \cup R3(s)

\* The conditions of the R4 branch, which the code states afresh.
Earned(s) ==
  /\ Allow(s) # {} /\ Approved(s) # {} /\ Unevidenced(s) = {}
  /\ \/ \A r \in Allow(s) : ~r.require_consequence
     \/ \A p \in Approved(s) : p.reports # {}
  /\ \A r \in Reports(s) : r.divergence < DivergenceThreshold
  /\ RequiredCapabilities(s) = Capabilities(s, "TRUE")
  /\ s.dependencies = Dependencies(s, "TRUE")

\* Mutant: gaps are asked for before a NO is given.
VerdictAsksFirst(s) == IF R2(s) # {} THEN "MAYBE"
                       ELSE IF R1(s) # {} THEN "NO"
                       ELSE IF R3(s) # {} THEN "IFF"
                       ELSE IF Earned(s) THEN "YES" ELSE "NONE"

\* NONE: no branch of the reducer applies.
Verdict(s) == IF R1(s) # {} THEN "NO"
              ELSE IF R2(s) # {} THEN "MAYBE"
              ELSE IF R3(s) # {} THEN "IFF"
              ELSE IF Earned(s) THEN "YES" ELSE "NONE"

Risk(s) == IF Verdict(s) = "YES" THEN "LOW"
           ELSE IF R1(s) # {} \/ More(s) # {} THEN "HIGH" ELSE "MEDIUM"

\* The evidence gaps of a MAYBE.  Every predicate of R2 comes with its
\* gaps, so the set of predicates tells gap sets apart.
Gaps(s) == IF Verdict(s) = "MAYBE" THEN R2(s) ELSE {}

-----------------------------------------------------------------------------
(* The trace: which checks leave a step, which steps are decisive, and     *)
(* the projection of every step that two evaluations are compared on.      *)

FactRule == {"F02", "F03", "F04", "F05", "F06", "F07", "F08", "F09", "F10"}

Steps(s) == {"F01", "F04", "F07", "F11"}
              \cup (IF Applicable(s) # {} THEN {"F02"} ELSE {})
              \cup (IF s.exclusions # {} THEN {"F03"} ELSE {})
              \cup (IF Near(s) # {} THEN {"F05"} ELSE {})
              \cup (IF Qualifying(s) # {} THEN {"F06"} ELSE {})
              \cup (IF Approved(s) # {} THEN {"F08"} ELSE {})
              \cup (IF RequiredCapabilities(s) # {} THEN {"F09"} ELSE {})
              \cup (IF s.dependencies # {} THEN {"F10"} ELSE {})

\* Two steps per dependency, and the reducer and F12 at the end.
TraceLength(s) == Cardinality(Steps(s) \ {"F10"})
                    + 2 * Cardinality(s.dependencies) + 2

Decisive(s) ==
  LET found == IF R1(s) # {} THEN R1(s) ELSE R2(s)
  IN  Steps(s) \cap (CASE found # {} -> {"F01", "F11"} \cup {h[1] : h \in found}
                        [] found = {} /\ Verdict(s) = "IFF" -> {"F01", "F11", "F10"}
                        [] OTHER -> Steps(s) \ {"F03"})

\* The keys that _fact_projection keeps of a step, as the set of those that
\* are true; "step" tells a check that left a step from one that did not.
Flag(key, holds) == IF holds THEN {key} ELSE {}

Projection(s) ==
  [ F02 |-> Flag("step", Applicable(s) # {}) \cup Flag("allow", Allow(s) # {})
              \cup Flag("deny", Deny(s) # {}),
    F03 |-> Flag("step", s.exclusions # {})
              \cup Flag("same", ProposalClass \in s.exclusions),
    F04 |-> Flag("near", Near(s) # {}) \cup Flag("unresolved", NoSimilarity(s) # {})
              \cup Flag("all", s.precedents # {} /\ s.precedents = NoSimilarity(s)),
    F05 |-> Flag("step", Near(s) # {}) \cup Flag("qualifying", Qualifying(s) # {}),
    F06 |-> Flag("step", Qualifying(s) # {})
              \cup Flag("approved", Approved(s) # {})
              \cup Flag("rejected", Decided(s, "REJECT") # {})
              \cup Flag("modified", Decided(s, "MODIFY") # {})
              \cup Flag("undecided", Decided(s, "NONE") # {})
              \cup Flag("conflict", Conflict(s)),
    F07 |-> Flag("satisfied", Unevidenced(s) = {}),
    F08 |-> Flag("step", Approved(s) # {}) \cup Flag("more", More(s) # {})
              \cup Flag("missing", Unreported(s) # {}),
    F09 |-> Flag("step", RequiredCapabilities(s) # {})
              \cup Flag("false", Capabilities(s, "FALSE") # {})
              \cup Flag("unresolved", Capabilities(s, "UNRESOLVED") # {})
              \cup Flag("missing", NoCapability(s) # {}),
    F10 |-> s.dependencies,
    F11 |-> Triggered(s),
    F12 |-> <<Verdict(s), Risk(s), Decisive(s), Gaps(s)>> ]

\* Mutant: only checks with a step in both traces are compared.
ChangedInBoth(p, s) ==
  LET before == Projection(p)
      after  == Projection(s)
  IN  IF p = NoPrior THEN {}
      ELSE {f \in (FactRule \cap Steps(p) \cap Steps(s)) \cup {"F11", "F12"} :
                                                       before[f] # after[f]}

\* Mutant: the identities are left in the projection of F01.
ChangedWithThis(p, s) ==
  IF p = NoPrior THEN {}
  ELSE {"F01"} \cup {f \in FactRule : Projection(p)[f] # Projection(s)[f]}

\* _changed_fact_ids: the rules whose projections differ from the prior's.
Changed(p, s) ==
  LET before == Projection(p)
      after  == Projection(s)
  IN  IF p = NoPrior THEN {}
      ELSE {f \in FactRule \cup {"F11", "F12"} : before[f] # after[f]}

-----------------------------------------------------------------------------
(* evaluate_proposal *)

Duplicates(s) == \E f, g \in s.capabilities : f.id = g.id /\ f # g

\* The error code of a BLOCKED result: the first stop that is reached.
Error(p, s) ==
  IF Cardinality(s.precedents) > TopK THEN "PRECEDENT_LIMIT_EXCEEDED"
  ELSE IF p # NoPrior /\ p.policy # s.policy THEN "PRIOR_BINDING_MISMATCH"
  ELSE IF \E r \in Reports(s) : ~r.bound THEN "INVALID_CONSEQUENCE"
  ELSE IF Duplicates(s) THEN "DUPLICATE_CAPABILITY"
  ELSE IF Verdict(s) = "NONE" THEN "REDUCER_NON_TOTAL"
  ELSE IF TraceLength(s) > MaxTrace THEN "TRACE_LIMIT_EXCEEDED"
  ELSE "NONE"

Evaluation(p, s) ==
  IF Error(p, s) = "NONE"
  THEN [ status |-> "FINALIZED", verdict |-> Verdict(s), risk |-> Risk(s),
         gaps |-> Gaps(s), changed |-> Changed(p, s) ]
  ELSE [ status |-> "BLOCKED", error |-> Error(p, s) ]

\* The latest FINALIZED evaluation of the proposal; a BLOCKED one is
\* never stored and never continued.
Latest == IF result.status = "FINALIZED" THEN snapshot ELSE prior

-----------------------------------------------------------------------------
Init ==
  /\ prior = NoPrior
  /\ snapshot \in [ policy : Inputs.policy,
                    exclusions : Inputs.exclusions,
                    precedents : Inputs.precedents,
                    evidence : Inputs.evidence,
                    capabilities : Inputs.capabilities,
                    dependencies : Inputs.dependencies ]
  /\ result = Evaluation(NoPrior, snapshot)

\* An evaluation over snapshot s that continues the latest one.
Evaluate(s) ==
  /\ prior' = Latest
  /\ snapshot' = s
  /\ result' = Evaluation(Latest, s)

\* Bound: one kind of fact is another in the next snapshot.
Base == IF Latest = NoPrior THEN snapshot ELSE Latest
Reevaluate(f) == \E v \in Inputs[f] : Evaluate([Base EXCEPT ![f] = v])

Next == \E f \in Field : Reevaluate(f)

Spec == Init /\ [][Next]_vars

-----------------------------------------------------------------------------
(* Properties *)

\* The type of every evaluation the gate returns.
TypeOK ==
  /\ snapshot \in Snapshot
  /\ prior \in Snapshot \cup {NoPrior}
  /\ \/ /\ result.status = "FINALIZED"
        /\ result.verdict \in {"NO", "MAYBE", "IFF", "YES"}
        /\ result.risk \in {"LOW", "MEDIUM", "HIGH"}
        /\ result.changed \subseteq FactRule \cup {"F11", "F12"}
     \/ result.status = "BLOCKED"

\* The reducer is total: whatever combination of checks fired, one of its
\* four branches takes the snapshot, so REDUCER_NON_TOTAL (governance.py
\* 1286) is never the reason why an evaluation is BLOCKED.
ReducerTotal ==
  result.status = "BLOCKED" => result.error # "REDUCER_NON_TOTAL"

\* An evaluation whose verdict or risk is not its prior's names a check
\* other than the aggregate F11 and the conclusion F12 as changed: the
\* projections of _fact_projection keep every fact the reducer tells apart.
ChangeExplained ==
  (/\ result.status = "FINALIZED" /\ prior # NoPrior
   /\ <<result.verdict, result.risk>> # <<Verdict(prior), Risk(prior)>>)
    => result.changed \cap FactRule # {}

\* From s to t facts only get worse under one policy: an exclusion is added,
\* evidence is lost, a capability or a dependency falls, a precedent is added
\* that is no approval or that diverged, or another diverging report of a
\* known one.
Diverged(p) == \E r \in p.reports : r.divergence >= DivergenceThreshold

Harms(s, t) ==
  /\ s.policy = t.policy
  /\ s.exclusions \subseteq t.exclusions
  /\ t.evidence \subseteq s.evidence
  /\ \A f \in t.capabilities : f.state = "TRUE" => f \in s.capabilities
  /\ \A f \in s.capabilities : f.state = "FALSE" => f \in t.capabilities
  /\ \A d \in s.dependencies : d.state = "FALSE" => d \in t.dependencies
  /\ \A d \in s.dependencies : d.state = "UNRESOLVED" =>
       \E e \in t.dependencies : \/ e.state = "FALSE"
                                 \/ e = d
  /\ \A p \in t.precedents : p \in s.precedents \/ p.decision # "APPROVE"
                                                \/ Diverged(p)
  /\ \A p \in s.precedents : \E q \in t.precedents :
       /\ <<q.class, q.similarity, q.decision>> = <<p.class, p.similarity, p.decision>>
       /\ p.reports \subseteq q.reports
       /\ q = p \/ Diverged(q)

Rank == [NO |-> 0, MAYBE |-> 1, IFF |-> 2, YES |-> 3]

\* Facts that only get worse never raise the verdict, and never lower a
\* NO to anything else: none of the checks turns harm into permission,
\* alone or through the reducer's precedence.
HarmNeverHelps ==
  (result.status = "FINALIZED" /\ prior # NoPrior /\ Harms(prior, snapshot))
    => Rank[result.verdict] <= Rank[Verdict(prior)]
=============================================================================
