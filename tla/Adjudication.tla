----------------------------- MODULE Adjudication -----------------------------
(***************************************************************************)
(* What human review promises, without keys, staleness checks or crashes:  *)
(* a proposal gathers evaluations and is settled at most once and for      *)
(* good, on one of its own evaluations, and is excluded only in the step   *)
(* that rejects it.  Module Review is shown to implement this one.         *)
(***************************************************************************)
CONSTANTS Proposal,      \* proposal ids
          Evaluations    \* evaluation ids

VARIABLES history,       \* the evaluations of each proposal
          outcome        \* how each proposal was settled: a set of at most one record

avars == <<history, outcome>>

Settlement ==
  [evaluation : Evaluations, value : {"APPROVE", "REJECT", "MODIFY"}, excluded : BOOLEAN]

AInit ==
  /\ history = [p \in Proposal |-> {}]
  /\ outcome = [p \in Proposal |-> {}]

\* A further evaluation, of one proposal only.
Evaluate(p) ==
  /\ \E e \in Evaluations :
       /\ \A q \in Proposal : e \notin history[q]
       /\ history' = [history EXCEPT ![p] = @ \cup {e}]
  /\ UNCHANGED outcome

\* The terminal decision.
Settle(p) ==
  /\ outcome[p] = {}
  /\ \E s \in Settlement :
       /\ s.evaluation \in history[p]
       /\ s.excluded => s.value = "REJECT"
       /\ outcome' = [outcome EXCEPT ![p] = {s}]
  /\ UNCHANGED history

ANext == \E p \in Proposal : Evaluate(p) \/ Settle(p)

ASpec == AInit /\ [][ANext]_avars
=============================================================================
