----------------------------- MODULE GateProofs -----------------------------
(***************************************************************************)
(* Theorems of Gate.  The only thing an execution has to remember is that  *)
(* its result is the evaluation of its two snapshots, and that a FINALIZED *)
(* one has no capability twice (Evaluated); the rest are facts about       *)
(* single snapshots (the reducer is total) and about pairs of snapshots    *)
(* (what a changed verdict implies, what harm does).                       *)
(***************************************************************************)
EXTENDS Gate, TLAPS

Evaluated ==
  /\ snapshot \in Snapshot
  /\ prior \in Snapshot \cup {NoPrior}
  /\ prior # NoPrior => ~Duplicates(prior)
  /\ result = Evaluation(prior, snapshot)

-----------------------------------------------------------------------------
(* The reducer *)

\* A list of predicates is empty exactly when none of its checks fired.
LEMMA NoHardStop ==
  ASSUME NEW s
  PROVE  R1(s) = {} <=> /\ Deny(s) = {}
                        /\ ProposalClass \notin s.exclusions
                        /\ Capabilities(s, "FALSE") = {}
                        /\ Dependencies(s, "FALSE") = {}
<1>1. ASSUME R1(s) # {}
      PROVE  \/ Deny(s) # {}
             \/ ProposalClass \in s.exclusions
             \/ Capabilities(s, "FALSE") # {}
             \/ Dependencies(s, "FALSE") # {}
  BY <1>1 DEF R1
<1>2. \A r \in Deny(s) : <<"F02", "OUTSIDE", ProposalClass>> \in R1(s)
  BY DEF R1
<1>3. ProposalClass \in s.exclusions => <<"F03", "SAME", ProposalClass>> \in R1(s)
  BY DEF R1
<1>4. \A c \in Capabilities(s, "FALSE") : <<"F09", "FALSE", c>> \in R1(s)
  BY DEF R1
<1>5. \A d \in Dependencies(s, "FALSE") : <<"F10", "FALSE", d>> \in R1(s)
  BY DEF R1
<1> QED
  BY <1>1, <1>2, <1>3, <1>4, <1>5

LEMMA NothingOpen ==
  ASSUME NEW s
  PROVE  R2(s) = {} <=> /\ Applicable(s) # {}
                        /\ NoSimilarity(s) = {}
                        /\ Approved(s) # {}
                        /\ ~Conflict(s)
                        /\ Unevidenced(s) = {}
                        /\ More(s) = {}
                        /\ Unreported(s) = {}
                        /\ NoCapability(s) = {}
                        /\ Capabilities(s, "UNRESOLVED") = {}
                        /\ Dependencies(s, "UNRESOLVED") \ Complete(s) = {}
<1>1. Applicable(s) = {} => <<"F02", "UNRESOLVED", ProposalClass>> \in R2(s)
  BY DEF R2
<1>2. \A p \in NoSimilarity(s) : <<"F04", "UNRESOLVED", p>> \in R2(s)
  BY DEF R2
<1>3. Approved(s) = {} => <<"F05", "NO_APPROVE", ProposalClass>> \in R2(s)
  BY DEF R2
<1>4. Conflict(s) => <<"F06", "CONFLICT", ProposalClass>> \in R2(s)
  BY DEF R2
<1>5. \A k \in Unevidenced(s) : <<"F07", "MISSING", k>> \in R2(s)
  BY DEF R2
<1>6. \A r \in More(s) : <<"F08", "HIGH", r>> \in R2(s)
  BY DEF R2
<1>7. \A p \in Unreported(s) : <<"F08", "MISSING", p>> \in R2(s)
  BY DEF R2
<1>8. \A c \in NoCapability(s) : <<"F09", "MISSING", c>> \in R2(s)
  BY DEF R2
<1>9. \A c \in Capabilities(s, "UNRESOLVED") : <<"F09", "UNRESOLVED", c>> \in R2(s)
  BY DEF R2
<1>10. \A d \in Dependencies(s, "UNRESOLVED") \ Complete(s) :
                                   <<"F10", "INCOMPLETE", d>> \in R2(s)
  BY DEF R2
<1>11. ASSUME Applicable(s) # {}, NoSimilarity(s) = {}, Approved(s) # {},
              ~Conflict(s), Unevidenced(s) = {}, More(s) = {},
              Unreported(s) = {}, NoCapability(s) = {},
              Capabilities(s, "UNRESOLVED") = {},
              Dependencies(s, "UNRESOLVED") \ Complete(s) = {}
       PROVE  R2(s) = {}
  BY <1>11 DEF R2
<1> QED
  BY <1>1, <1>2, <1>3, <1>4, <1>5, <1>6, <1>7, <1>8, <1>9, <1>10, <1>11

LEMMA NothingConditional ==
  ASSUME NEW s
  PROVE  R3(s) = {} <=> Complete(s) = {}
<1>1. \A d \in Complete(s) : <<"F10", "COMPLETE", d>> \in R3(s)
  BY DEF R3
<1>2. Complete(s) = {} => R3(s) = {}
  BY DEF R3
<1> QED
  BY <1>1, <1>2

\* When no check fired, every condition of the R4 branch holds.
LEMMA NothingFiredIsEarned ==
  ASSUME NEW s \in Snapshot, R1(s) = {}, R2(s) = {}, R3(s) = {}
  PROVE  Earned(s)
<1>1. Deny(s) = {} /\ Dependencies(s, "FALSE") = {} /\ Capabilities(s, "FALSE") = {}
  BY NoHardStop
<1>2. Applicable(s) # {} /\ Approved(s) # {} /\ Unevidenced(s) = {}
  BY NothingOpen
<1>3. /\ More(s) = {} /\ Unreported(s) = {} /\ NoCapability(s) = {}
      /\ Capabilities(s, "UNRESOLVED") = {}
  BY NothingOpen
<1>4. Dependencies(s, "UNRESOLVED") = {}
  BY NothingOpen, NothingConditional
<1>5. Allow(s) # {}
  BY <1>1, <1>2, GateAssumption
  DEF RuleAssumption, Snapshot, Applicable, Allow, Deny
<1>6. \/ \A r \in Allow(s) : ~r.require_consequence
      \/ \A p \in Approved(s) : p.reports # {}
  BY <1>3 DEF Unreported
<1>7. \A r \in Reports(s) : r.divergence < DivergenceThreshold
  <2>1. Reports(s) = UNION {p.reports : p \in Approved(s)}
    BY DEF Reports
  <2>2. \A p \in Approved(s) : p \in Precedent
    BY DEF Approved, Decided, Qualifying, Near, Snapshot
  <2>3. \A r \in Reports(s) : r.divergence \in Nat
    BY <2>1, <2>2, GateAssumption DEF PrecedentAssumption, IsReport
  <2> QED
    BY <2>3, <1>3, GateAssumption DEF More
<1>8. RequiredCapabilities(s) = Capabilities(s, "TRUE")
  <2>1. Capabilities(s, "TRUE") \subseteq RequiredCapabilities(s)
    BY DEF Capabilities
  <2>2. ASSUME NEW c \in RequiredCapabilities(s)
        PROVE  c \in Capabilities(s, "TRUE")
    <3>1. PICK f \in s.capabilities : f.id = c
      BY <1>3 DEF NoCapability
    <3>2. f \in [id : Capability, state : State]
      BY <3>1 DEF Snapshot
    <3>3. f = [id |-> c, state |-> f.state] /\ f.state \in State
      BY <3>1, <3>2
    <3>4. f.state = "TRUE"
      BY <3>1, <3>3, <1>1, <1>3 DEF Capabilities, State
    <3> QED
      BY <3>1, <3>3, <3>4 DEF Capabilities
  <2> QED
    BY <2>1, <2>2
<1>9. s.dependencies = Dependencies(s, "TRUE")
  BY <1>1, <1>4, GateAssumption
  DEF Dependencies, DependencyAssumption, Snapshot, State
<1> QED
  BY <1>2, <1>5, <1>6, <1>7, <1>8, <1>9 DEF Earned

\* So the reducer falls through for no snapshot.
LEMMA SomeBranchApplies ==
  ASSUME NEW s \in Snapshot
  PROVE  Verdict(s) \in {"NO", "MAYBE", "IFF", "YES"}
BY NothingFiredIsEarned DEF Verdict

LEMMA NeverNonTotal ==
  ASSUME NEW s \in Snapshot, NEW p
  PROVE  Error(p, s) # "REDUCER_NON_TOTAL"
<1>1. Verdict(s) # "NONE"
  BY SomeBranchApplies
<1> QED
  BY <1>1 DEF Error

-----------------------------------------------------------------------------
(* Changed facts *)

\* What two snapshots have in common when the projections of F02 to F10 are
\* equal: every condition that the reducer takes into account.
LEMMA SameProjections ==
  ASSUME NEW s \in Snapshot, NEW t \in Snapshot,
         \A f \in FactRule : Projection(s)[f] = Projection(t)[f]
  PROVE  /\ Deny(s) = {} <=> Deny(t) = {}
         /\ Applicable(s) = {} <=> Applicable(t) = {}
         /\ Allow(s) = {} <=> Allow(t) = {}
         /\ ProposalClass \in s.exclusions <=> ProposalClass \in t.exclusions
         /\ NoSimilarity(s) = {} <=> NoSimilarity(t) = {}
         /\ Approved(s) = {} <=> Approved(t) = {}
         /\ Conflict(s) <=> Conflict(t)
         /\ Unevidenced(s) = {} <=> Unevidenced(t) = {}
         /\ More(s) = {} <=> More(t) = {}
         /\ Unreported(s) = {} <=> Unreported(t) = {}
         /\ Capabilities(s, "FALSE") = {} <=> Capabilities(t, "FALSE") = {}
         /\ Capabilities(s, "UNRESOLVED") = {} <=> Capabilities(t, "UNRESOLVED") = {}
         /\ NoCapability(s) = {} <=> NoCapability(t) = {}
         /\ s.dependencies = t.dependencies
<1>1. \A f \in FactRule : Projection(s)[f] = Projection(t)[f]
  OBVIOUS
<1>2. /\ Applicable(s) = {} <=> Applicable(t) = {}
      /\ Deny(s) = {} <=> Deny(t) = {}
      /\ Allow(s) = {} <=> Allow(t) = {}
  <2>1. Projection(s)["F02"] = Projection(t)["F02"]
    BY <1>1 DEF FactRule
  <2> QED
    BY <2>1 DEF Projection, Flag
<1>3. ProposalClass \in s.exclusions <=> ProposalClass \in t.exclusions
  <2>1. Projection(s)["F03"] = Projection(t)["F03"]
    BY <1>1 DEF FactRule
  <2> QED
    BY <2>1 DEF Projection, Flag
<1>4. NoSimilarity(s) = {} <=> NoSimilarity(t) = {}
  <2>1. Projection(s)["F04"] = Projection(t)["F04"]
    BY <1>1 DEF FactRule
  <2> QED
    BY <2>1 DEF Projection, Flag
<1>5. /\ Approved(s) = {} <=> Approved(t) = {}
      /\ Conflict(s) <=> Conflict(t)
  <2>1. Projection(s)["F06"] = Projection(t)["F06"]
    BY <1>1 DEF FactRule
  <2> QED
    BY <2>1 DEF Projection, Flag
<1>6. Unevidenced(s) = {} <=> Unevidenced(t) = {}
  <2>1. Projection(s)["F07"] = Projection(t)["F07"]
    BY <1>1 DEF FactRule
  <2> QED
    BY <2>1 DEF Projection, Flag
<1>7. /\ More(s) = {} <=> More(t) = {}
      /\ Unreported(s) = {} <=> Unreported(t) = {}
  <2>1. Projection(s)["F08"] = Projection(t)["F08"]
    BY <1>1 DEF FactRule
  <2> QED
    BY <2>1 DEF Projection, Flag
<1>8. /\ Capabilities(s, "FALSE") = {} <=> Capabilities(t, "FALSE") = {}
      /\ Capabilities(s, "UNRESOLVED") = {} <=> Capabilities(t, "UNRESOLVED") = {}
      /\ NoCapability(s) = {} <=> NoCapability(t) = {}
  <2>1. Projection(s)["F09"] = Projection(t)["F09"]
    BY <1>1 DEF FactRule
  <2> QED
    BY <2>1 DEF Projection, Flag
<1>9. s.dependencies = t.dependencies
  <2>1. Projection(s)["F10"] = Projection(t)["F10"]
    BY <1>1 DEF FactRule
  <2> QED
    BY <2>1 DEF Projection
<1> QED
  BY <1>2, <1>3, <1>4, <1>5, <1>6, <1>7, <1>8, <1>9

LEMMA SameFactsSameVerdict ==
  ASSUME NEW s \in Snapshot, NEW t \in Snapshot,
         \A f \in FactRule : Projection(s)[f] = Projection(t)[f]
  PROVE  Verdict(s) = Verdict(t) /\ Risk(s) = Risk(t)
<1>1. /\ \A v : Dependencies(s, v) = Dependencies(t, v)
      /\ Complete(s) = Complete(t)
  BY SameProjections DEF Dependencies, Complete
<1>2. R1(s) = {} <=> R1(t) = {}
  BY <1>1, NoHardStop, SameProjections
<1>3. R2(s) = {} <=> R2(t) = {}
  BY <1>1, NothingOpen, SameProjections
<1>4. R3(s) = {} <=> R3(t) = {}
  BY <1>1, NothingConditional
<1>5. Verdict(s) = Verdict(t)
  BY <1>2, <1>3, <1>4, NothingFiredIsEarned DEF Verdict
<1>6. More(s) = {} <=> More(t) = {}
  BY SameProjections
<1> QED
  BY <1>2, <1>5, <1>6 DEF Risk

\* Hence a changed verdict or risk leaves one of them in Changed.
LEMMA ChangeIsNamed ==
  ASSUME NEW s \in Snapshot, NEW p \in Snapshot,
         Changed(p, s) \cap FactRule = {}
  PROVE  Verdict(s) = Verdict(p) /\ Risk(s) = Risk(p)
<1>1. \A f \in FactRule : Projection(s)[f] = Projection(p)[f]
  BY GateAssumption DEF Changed
<1> QED
  BY <1>1, SameFactsSameVerdict

-----------------------------------------------------------------------------
(* Harm *)

\* Under an unchanged policy, harm keeps every reason against a YES, or
\* replaces it by one that is at least as strong.
LEMMA SamePolicy ==
  ASSUME NEW s, NEW t, Harms(s, t)
  PROVE  /\ Applicable(s) = Applicable(t) /\ Allow(s) = Allow(t)
         /\ Deny(s) = Deny(t)
         /\ RequiredEvidence(s) = RequiredEvidence(t)
         /\ RequiredCapabilities(s) = RequiredCapabilities(t)
BY DEF Harms, Applicable, Allow, Deny, RequiredEvidence, RequiredCapabilities

LEMMA HarmKeepsNo ==
  ASSUME NEW s \in Snapshot, NEW t \in Snapshot, Harms(s, t), R1(s) # {}
  PROVE  R1(t) # {}
<1>1. CASE Deny(s) # {}
  BY <1>1, SamePolicy, NoHardStop
<1>2. CASE ProposalClass \in s.exclusions
  BY <1>2, NoHardStop DEF Harms
<1>3. CASE Capabilities(s, "FALSE") # {}
  <2>1. PICK c \in RequiredCapabilities(s) :
                              [id |-> c, state |-> "FALSE"] \in s.capabilities
    BY <1>3 DEF Capabilities
  <2>2. [id |-> c, state |-> "FALSE"] \in t.capabilities
    BY <2>1 DEF Harms
  <2>3. c \in Capabilities(t, "FALSE")
    BY <2>1, <2>2, SamePolicy DEF Capabilities
  <2> QED
    BY <2>3, NoHardStop
<1>4. CASE Dependencies(s, "FALSE") # {}
  <2>1. PICK d \in s.dependencies : d.state = "FALSE"
    BY <1>4 DEF Dependencies
  <2>2. d \in Dependencies(t, "FALSE")
    BY <2>1 DEF Harms, Dependencies
  <2> QED
    BY <2>2, NoHardStop
<1> QED
  BY <1>1, <1>2, <1>3, <1>4, NoHardStop

\* A precedent of s is still there in t, with all that F04 to F06 ask of it.
Continues(p, q) == p.reports \subseteq q.reports /\ (q = p \/ Diverged(q))

LEMMA PrecedentsStay ==
  ASSUME NEW s \in Snapshot, NEW t \in Snapshot, Harms(s, t)
  PROVE  \A v : \A p \in Decided(s, v) : \E q \in Decided(t, v) : Continues(p, q)
<1> SUFFICES ASSUME NEW v, NEW p \in Decided(s, v)
             PROVE  \E q \in Decided(t, v) : Continues(p, q)
  OBVIOUS
<1>1. /\ p \in s.precedents /\ p.similarity # Unresolved
      /\ p.similarity >= SimilarityThreshold /\ p.class = ProposalClass
      /\ p.decision = v
  BY DEF Decided, Qualifying, Near, NoSimilarity
<1>2. PICK q \in t.precedents :
        /\ <<q.class, q.similarity, q.decision>> = <<p.class, p.similarity, p.decision>>
        /\ p.reports \subseteq q.reports
        /\ q = p \/ Diverged(q)
  BY <1>1 DEF Harms
<1>3. q.class = p.class /\ q.similarity = p.similarity /\ q.decision = p.decision
  BY <1>2
<1>4. q \in Decided(t, v)
  BY <1>1, <1>2, <1>3 DEF Decided, Qualifying, Near, NoSimilarity
<1> QED
  BY <1>2, <1>4 DEF Continues

LEMMA ApprovalsStay ==
  ASSUME NEW s \in Snapshot, NEW t \in Snapshot, Harms(s, t)
  PROVE  \A p \in Approved(s) : \E q \in Approved(t) : Continues(p, q)
BY PrecedentsStay DEF Approved

LEMMA DivergedIsMore ==
  ASSUME NEW t, NEW q \in Approved(t), Diverged(q)
  PROVE  More(t) # {}
BY DEF Diverged, More, Reports

LEMMA HarmKeepsMaybe ==
  ASSUME NEW s \in Snapshot, NEW t \in Snapshot, Harms(s, t),
         ~Duplicates(s), R2(s) # {}
  PROVE  R1(t) # {} \/ R2(t) # {}
<1>1. CASE Applicable(s) = {}
  BY <1>1, SamePolicy, NothingOpen
<1>2. CASE NoSimilarity(s) # {}
  <2>1. PICK p \in s.precedents : p.similarity = Unresolved
    BY <1>2 DEF NoSimilarity
  <2>2. PICK q \in t.precedents :
          <<q.class, q.similarity, q.decision>> = <<p.class, p.similarity, p.decision>>
    BY <2>1 DEF Harms
  <2>3. q \in NoSimilarity(t)
    BY <2>1, <2>2 DEF NoSimilarity
  <2> QED
    BY <2>3, NothingOpen
<1>3. CASE Approved(s) = {}
  <2>1. CASE Approved(t) = {}
    BY <2>1, NothingOpen
  <2>2. CASE Approved(t) # {}
    <3>1. PICK q \in Approved(t) : TRUE
      BY <2>2
    <3>2. q \in t.precedents /\ q.decision = "APPROVE" /\ q \notin s.precedents
      BY <3>1, <1>3 DEF Approved, Decided, Qualifying, Near, NoSimilarity
    <3>3. Diverged(q)
      BY <3>2 DEF Harms
    <3> QED
      BY <3>1, <3>3, DivergedIsMore, NothingOpen
  <2> QED
    BY <2>1, <2>2
<1>4. CASE Conflict(s)
  <2>1. Approved(t) # {}
    BY <1>4, ApprovalsStay DEF Conflict
  <2>2. Decided(t, "REJECT") \cup Decided(t, "MODIFY") # {}
    <3>1. PICK v \in {"REJECT", "MODIFY"} : Decided(s, v) # {}
      BY <1>4 DEF Conflict
    <3>2. Decided(t, v) # {}
      BY <3>1, PrecedentsStay
    <3> QED
      BY <3>2
  <2> QED
    BY <2>1, <2>2, NothingOpen DEF Conflict
<1>5. CASE Unevidenced(s) # {}
  <2>1. Unevidenced(s) \subseteq Unevidenced(t)
    BY SamePolicy DEF Unevidenced, Harms
  <2> QED
    BY <2>1, <1>5, NothingOpen
<1>6. CASE More(s) # {}
  <2>1. PICK p \in Approved(s) :
               \E r \in p.reports : r.divergence >= DivergenceThreshold
    BY <1>6 DEF More, Reports
  <2>2. PICK q \in Approved(t) : Continues(p, q)
    BY ApprovalsStay
  <2>3. Diverged(q)
    BY <2>1, <2>2 DEF Diverged, Continues
  <2> QED
    BY <2>3, DivergedIsMore, NothingOpen
<1>7. CASE Unreported(s) # {}
  <2>1. PICK p \in Approved(s) :
               (\E r \in Allow(s) : r.require_consequence) /\ p.reports = {}
    BY <1>7 DEF Unreported
  <2>2. PICK q \in Approved(t) : Continues(p, q)
    BY ApprovalsStay
  <2>3. CASE q = p
    BY <2>1, <2>2, <2>3, SamePolicy, NothingOpen DEF Unreported
  <2>4. CASE Diverged(q)
    BY <2>4, DivergedIsMore, NothingOpen
  <2> QED
    BY <2>2, <2>3, <2>4 DEF Continues
<1>8. ASSUME NEW c \in RequiredCapabilities(s),
             [id |-> c, state |-> "TRUE"] \notin s.capabilities
      PROVE  R1(t) # {} \/ R2(t) # {}
  <2>1. [id |-> c, state |-> "TRUE"] \notin t.capabilities
    BY <1>8 DEF Harms
  <2>2. CASE c \in NoCapability(t)
    BY <2>2, NothingOpen
  <2>3. CASE c \notin NoCapability(t)
    <3>1. PICK f \in t.capabilities : f.id = c
      BY <2>3, SamePolicy DEF NoCapability
    <3>2. f \in [id : Capability, state : State]
      BY <3>1 DEF Snapshot
    <3>3. f = [id |-> c, state |-> f.state] /\ f.state \in State
      BY <3>1, <3>2
    <3>4. c \in Capabilities(t, "FALSE") \/ c \in Capabilities(t, "UNRESOLVED")
      BY <2>1, <3>1, <3>3, SamePolicy DEF Capabilities, State
    <3> QED
      BY <3>4, NoHardStop, NothingOpen
  <2> QED
    BY <2>2, <2>3
<1>9. CASE NoCapability(s) # {}
  BY <1>9, <1>8 DEF NoCapability
<1>10. CASE Capabilities(s, "UNRESOLVED") # {}
  <2>1. PICK c \in RequiredCapabilities(s) :
                         [id |-> c, state |-> "UNRESOLVED"] \in s.capabilities
    BY <1>10 DEF Capabilities
  <2>2. [id |-> c, state |-> "TRUE"] \notin s.capabilities
    BY <2>1 DEF Duplicates
  <2> QED
    BY <2>2, <1>8
<1>11. CASE Dependencies(s, "UNRESOLVED") \ Complete(s) # {}
  <2>1. PICK d \in s.dependencies : d.state = "UNRESOLVED" /\ d \notin Complete(s)
    BY <1>11 DEF Dependencies
  <2>2. PICK e \in t.dependencies : e.state = "FALSE" \/ e = d
    BY <2>1 DEF Harms
  <2>3. CASE e.state = "FALSE"
    BY <2>2, <2>3, NoHardStop DEF Dependencies
  <2>4. CASE e = d
    <3>1. d \in Dependencies(t, "UNRESOLVED") \ Complete(t)
      BY <2>1, <2>2, <2>4 DEF Dependencies, Complete
    <3> QED
      BY <3>1, NothingOpen
  <2> QED
    BY <2>2, <2>3, <2>4
<1> QED
  BY <1>1, <1>2, <1>3, <1>4, <1>5, <1>6, <1>7, <1>9, <1>10, <1>11, NothingOpen

LEMMA HarmKeepsIff ==
  ASSUME NEW s \in Snapshot, NEW t \in Snapshot, Harms(s, t), R3(s) # {}
  PROVE  R1(t) # {} \/ R3(t) # {}
<1>1. PICK d \in Complete(s) : TRUE
  BY NothingConditional
<1>2. d \in s.dependencies /\ d.state = "UNRESOLVED"
  BY <1>1 DEF Complete, Dependencies
<1>3. PICK e \in t.dependencies : e.state = "FALSE" \/ e = d
  BY <1>2 DEF Harms
<1>4. CASE e.state = "FALSE"
  BY <1>3, <1>4, NoHardStop DEF Dependencies
<1>5. CASE e = d
  BY <1>1, <1>3, <1>5, NothingConditional DEF Complete, Dependencies
<1> QED
  BY <1>3, <1>4, <1>5

LEMMA HarmLowers ==
  ASSUME NEW s \in Snapshot, NEW t \in Snapshot, Harms(s, t), ~Duplicates(s)
  PROVE  Rank[Verdict(t)] <= Rank[Verdict(s)]
<1>1. R1(s) # {} => R1(t) # {}
  BY HarmKeepsNo
<1>2. R2(s) # {} => R1(t) # {} \/ R2(t) # {}
  BY HarmKeepsMaybe
<1>3. R3(s) # {} => R1(t) # {} \/ R3(t) # {}
  BY HarmKeepsIff
<1>4. /\ Verdict(s) \in {"NO", "MAYBE", "IFF", "YES"}
      /\ Verdict(t) \in {"NO", "MAYBE", "IFF", "YES"}
  BY SomeBranchApplies
<1>5. /\ Verdict(s) = "NO" => Verdict(t) = "NO"
      /\ Verdict(s) = "MAYBE" => Verdict(t) \in {"NO", "MAYBE"}
      /\ Verdict(s) = "IFF" => Verdict(t) \in {"NO", "MAYBE", "IFF"}
  BY <1>1, <1>2, <1>3 DEF Verdict
<1> QED
  BY <1>4, <1>5 DEF Rank

-----------------------------------------------------------------------------
(* Theorems *)

LEMMA EvaluatedInvariant == Spec => []Evaluated
<1>1. Init => Evaluated
  BY GateAssumption DEF Init, Evaluated, Snapshot, InputAssumption
<1>2. Evaluated /\ [Next]_vars => Evaluated'
  <2> SUFFICES ASSUME Evaluated, [Next]_vars PROVE Evaluated'
    OBVIOUS
  <2>1. CASE UNCHANGED vars
    BY <2>1 DEF Evaluated, vars
  <2>2. ASSUME NEW f \in Field, Reevaluate(f) PROVE Evaluated'
    <3>1. /\ Latest \in Snapshot \cup {NoPrior}
          /\ Latest # NoPrior => ~Duplicates(Latest)
      BY DEF Evaluated, Latest, Evaluation, Error
    <3>2. Base \in Snapshot
      BY <3>1 DEF Base, Evaluated
    <3>3. PICK v \in Inputs[f] : Evaluate([Base EXCEPT ![f] = v])
      BY <2>2 DEF Reevaluate
    <3>4. [Base EXCEPT ![f] = v] \in Snapshot
      BY <3>2, <3>3, GateAssumption DEF Snapshot, InputAssumption, Field
    <3> QED
      BY <3>1, <3>3, <3>4 DEF Evaluate, Evaluated
  <2> QED
    BY <2>1, <2>2 DEF Next
<1> QED
  BY <1>1, <1>2, PTL DEF Spec

\* A FINALIZED result carries the verdict, the risk and the changed facts of
\* its snapshot; a BLOCKED one its error.
LEMMA ResultOf ==
  ASSUME Evaluated
  PROVE  /\ result.status \in {"FINALIZED", "BLOCKED"}
         /\ result.status = "FINALIZED" =>
              /\ result.verdict = Verdict(snapshot)
              /\ result.risk = Risk(snapshot)
              /\ result.changed = Changed(prior, snapshot)
         /\ result.status = "BLOCKED" => result.error = Error(prior, snapshot)
BY DEF Evaluated, Evaluation

\* Every evaluation is FINALIZED with one of four verdicts, three risks and
\* changed checks, or BLOCKED (evaluate_proposal).
THEOREM TypeCorrect == Spec => []TypeOK
<1>1. Evaluated => TypeOK
  <2> SUFFICES ASSUME Evaluated PROVE TypeOK
    OBVIOUS
  <2>1. Verdict(snapshot) \in {"NO", "MAYBE", "IFF", "YES"}
    BY SomeBranchApplies DEF Evaluated
  <2>2. Risk(snapshot) \in {"LOW", "MEDIUM", "HIGH"}
    BY DEF Risk
  <2>3. Changed(prior, snapshot) \subseteq FactRule \cup {"F11", "F12"}
    BY DEF Changed
  <2> QED
    BY <2>1, <2>2, <2>3, ResultOf DEF TypeOK, Evaluated
<1> QED
  BY <1>1, EvaluatedInvariant, PTL

\* The reducer of evaluate_proposal is total: its last else (governance.py
\* 1286) is dead code, for every policy, snapshot and threshold.
THEOREM ReducerIsTotal == Spec => []ReducerTotal
<1>1. Evaluated => ReducerTotal
  BY NeverNonTotal, ResultOf DEF ReducerTotal, Evaluated
<1> QED
  BY <1>1, EvaluatedInvariant, PTL

\* A verdict or risk that is not the prior's comes with a changed check of
\* F02 to F10 (_changed_fact_ids keeps all that the reducer tells apart).
THEOREM ChangesAreExplained == Spec => []ChangeExplained
<1>1. Evaluated => ChangeExplained
  <2> SUFFICES ASSUME Evaluated, result.status = "FINALIZED", prior # NoPrior,
                      result.changed \cap FactRule = {}
               PROVE  <<result.verdict, result.risk>> = <<Verdict(prior), Risk(prior)>>
    BY DEF ChangeExplained
  <2>1. Changed(prior, snapshot) \cap FactRule = {}
    BY ResultOf
  <2>2. Verdict(snapshot) = Verdict(prior) /\ Risk(snapshot) = Risk(prior)
    BY <2>1, ChangeIsNamed DEF Evaluated
  <2> QED
    BY <2>2, ResultOf
<1> QED
  BY <1>1, EvaluatedInvariant, PTL

\* Harm never raises the verdict of a proposal that is evaluated again.
THEOREM HarmsNeverHelp == Spec => []HarmNeverHelps
<1>1. Evaluated => HarmNeverHelps
  BY HarmLowers, ResultOf DEF HarmNeverHelps, Evaluated
<1> QED
  BY <1>1, EvaluatedInvariant, PTL
=============================================================================
