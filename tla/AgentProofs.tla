----------------------------- MODULE AgentProofs -----------------------------
(* Proofs about Agent: its types, its reports, the order of its proposals    *)
(* and how long an exclusion can be missed, for any number of tasks.         *)
EXTENDS Agent, TLAPS

-----------------------------------------------------------------------------
(* Types *)

LEMMA NextTypeOK == TypeOK /\ [Next]_vars => TypeOK'
<1> USE AgentAssumption
<1> SUFFICES ASSUME TypeOK, [Next]_vars PROVE TypeOK'
  OBVIOUS
<1> USE DEF TypeOK, Time, Verdict, Answer, Stage, tables, local, Go, Return
<1>1. CASE UNCHANGED vars
  BY <1>1 DEF vars
<1>2. CASE TimePasses
  BY <1>2 DEF TimePasses
<1>3. ASSUME NEW x \in Target, Exclude(x) PROVE TypeOK'
  BY <1>3 DEF Exclude
<1>4. ASSUME NEW t \in Task, Start(t) PROVE TypeOK'
  BY <1>4 DEF Start
<1>5. ASSUME NEW t \in Task, Step(t) PROVE TypeOK'
  <2>1. CASE Capture(t)
    BY <2>1 DEF Capture
  <2>2. CASE CaptureFails(t)
    BY <2>2 DEF CaptureFails
  <2>3. CASE AppendEvidence(t)
    BY <2>3 DEF AppendEvidence, EvidenceRow, Evidence
  <2>4. CASE Generate(t)
    BY <2>4 DEF Generate
  <2>5. CASE Evaluate(t)
    BY <2>5 DEF Evaluate, Judge
  <2>6. CASE BeginPersist(t)
    BY <2>6 DEF BeginPersist
  <2>7. CASE CommitPersist(t)
    BY <2>7 DEF CommitPersist, ProposalRow, Proposal
  <2>8. CASE RefusePersist(t)
    BY <2>8 DEF RefusePersist
  <2>9. CASE SerializationFailure(t)
    BY <2>9 DEF SerializationFailure
  <2>10. CASE ConnectionFails(t)
    BY <2>10 DEF ConnectionFails
  <2>11. QED
    BY <1>5, <2>1, <2>2, <2>3, <2>4, <2>5, <2>6, <2>7, <2>8, <2>9, <2>10 DEF Step
<1>6. ASSUME NEW t \in Task, Crash(t) PROVE TypeOK'
  BY <1>6 DEF Crash
<1>7. QED
  BY <1>1, <1>2, <1>3, <1>4, <1>5, <1>6 DEF Next

\* Every reachable state has its type (TypeOK), whatever tasks interleave, fail
\* or are retried.
THEOREM TypeCorrect == Spec => []TypeOK
<1>1. Init => TypeOK
  BY AgentAssumption DEF Init, TypeOK, Time, Verdict, Answer
<1>2. QED
  BY <1>1, NextTypeOK, PTL DEF Spec

-----------------------------------------------------------------------------
(* The invariant *)

\* Nothing lies in the future.
Past ==
  /\ \A t \in Task : captured[t] <= now /\ began[t] <= now
  /\ \A x \in Target : excludedAt[x] <= now

\* Captures have different times.
Distinct ==
  /\ \A t, u \in Task : t # u /\ captured[t] = captured[u] => captured[t] = 0
  /\ \A t \in Task : pc[t] \notin {"idle", "capture", "done"} => captured[t] # 0

\* A stored proposal is the last thing its task did, on evidence that is stored.
Recorded ==
  \A r \in proposals :
    /\ r = ProposalRow(r.task)
    /\ pc[r.task] = "done"
    /\ EvidenceRow(r.task) \in evidence
    /\ captured[r.task] # 0
    /\ answer[r.task] \in {"none", "persisted", "PERSISTENCE"}

\* Unfinished tasks have not been answered, and a task that was told its
\* proposal is stored has it stored.
Answers ==
  \A t \in Task :
    /\ pc[t] # "done" => answer[t] = "none"
    /\ answer[t] = "persisted" => ProposalRow(t) \in proposals

\* A target judged YES was not excluded before the evidence was captured.
JudgedInTime ==
  \A t \in Task :
    pc[t] \in {"begin", "persist"} /\ verdict[t] = "YES" =>
      excludedAt[target[t]] = 0 \/ excludedAt[target[t]] > captured[t]

AgentInv ==
  /\ TypeOK /\ Past /\ Distinct /\ Recorded /\ Answers
  /\ JudgedInTime /\ ExclusionsBite

LEMMA PastStep == AgentInv /\ [Next]_vars => Past'
<1> SUFFICES ASSUME AgentInv, [Next]_vars PROVE Past'
  OBVIOUS
<1> USE DEF AgentInv, TypeOK, Time, Past, tables, local, Go, Return
<1>1. CASE UNCHANGED vars
  BY <1>1 DEF vars
<1>2. CASE TimePasses
  BY <1>2 DEF TimePasses
<1>3. ASSUME NEW x \in Target, Exclude(x) PROVE Past'
  BY <1>3 DEF Exclude
<1>4. ASSUME NEW t \in Task, Capture(t) PROVE Past'
  BY <1>4 DEF Capture
<1>5. ASSUME NEW t \in Task, BeginPersist(t) PROVE Past'
  BY <1>5 DEF BeginPersist
<1>6. ASSUME NEW t \in Task,
             \/ Start(t) \/ Crash(t) \/ CaptureFails(t) \/ AppendEvidence(t) \/ Generate(t)
             \/ Evaluate(t) \/ CommitPersist(t) \/ RefusePersist(t)
             \/ SerializationFailure(t) \/ ConnectionFails(t)
      PROVE  Past'
  BY <1>6 DEF Start, Crash, CaptureFails, AppendEvidence, Generate, Evaluate,
              CommitPersist, RefusePersist, SerializationFailure, ConnectionFails
<1>7. QED
  BY <1>1, <1>2, <1>3, <1>4, <1>5, <1>6 DEF Next, Step

LEMMA DistinctStep == AgentInv /\ [Next]_vars => Distinct'
<1> SUFFICES ASSUME AgentInv, [Next]_vars PROVE Distinct'
  OBVIOUS
<1> USE DEF AgentInv, TypeOK, Time, Past, Distinct, tables, local, Go, Return
<1>1. CASE UNCHANGED vars
  BY <1>1 DEF vars
<1>2. CASE TimePasses
  BY <1>2 DEF TimePasses
<1>3. ASSUME NEW x \in Target, Exclude(x) PROVE Distinct'
  BY <1>3 DEF Exclude
<1>4. ASSUME NEW t \in Task, Capture(t) PROVE Distinct'
  BY <1>4 DEF Capture
<1>5. ASSUME NEW t \in Task,
             \/ Start(t) \/ Crash(t) \/ CaptureFails(t) \/ AppendEvidence(t) \/ Generate(t)
             \/ Evaluate(t) \/ BeginPersist(t) \/ CommitPersist(t) \/ RefusePersist(t)
             \/ SerializationFailure(t) \/ ConnectionFails(t)
      PROVE  Distinct'
  BY <1>5 DEF Start, Crash, CaptureFails, AppendEvidence, Generate, Evaluate, BeginPersist,
              CommitPersist, RefusePersist, SerializationFailure, ConnectionFails
<1>6. QED
  BY <1>1, <1>2, <1>3, <1>4, <1>5 DEF Next, Step

\* Only the task of a row moves its captured_at, target, verdict and began, and
\* it is done.
LEMMA RecordedStep == AgentInv /\ [Next]_vars => Recorded' /\ Answers'
<1> SUFFICES ASSUME AgentInv, [Next]_vars PROVE Recorded' /\ Answers'
  OBVIOUS
<1> USE DEF AgentInv, TypeOK, Recorded, Answers, tables, local, Go, Return,
            ProposalRow, EvidenceRow
<1>1. CASE UNCHANGED vars
  BY <1>1 DEF vars
<1>2. CASE TimePasses
  BY <1>2 DEF TimePasses
<1>3. ASSUME NEW x \in Target, Exclude(x) PROVE Recorded' /\ Answers'
  BY <1>3 DEF Exclude
<1>4. ASSUME NEW t \in Task, CommitPersist(t) PROVE Recorded' /\ Answers'
  BY <1>4 DEF CommitPersist, HoldsFresh, Distinct, Proposal
<1>5. ASSUME NEW t \in Task, pc[t] # "done",
             \/ Capture(t) \/ Generate(t) \/ Evaluate(t) \/ BeginPersist(t)
      PROVE  Recorded' /\ Answers'
  BY <1>5 DEF Capture, Generate, Evaluate, BeginPersist, Proposal
<1>6. ASSUME NEW t \in Task, pc[t] # "done",
             \/ Start(t) \/ Crash(t) \/ CaptureFails(t) \/ AppendEvidence(t)
             \/ RefusePersist(t) \/ SerializationFailure(t) \/ ConnectionFails(t)
      PROVE  Recorded' /\ Answers'
  BY <1>6 DEF Start, Crash, CaptureFails, AppendEvidence, RefusePersist,
              SerializationFailure, ConnectionFails, Proposal
<1>7. ASSUME NEW t \in Task, Start(t) \/ Step(t) \/ Crash(t) PROVE pc[t] # "done"
  BY <1>7 DEF Start, Step, Crash, Capture, CaptureFails, AppendEvidence, Generate, Evaluate,
              BeginPersist, CommitPersist, RefusePersist, SerializationFailure, ConnectionFails
<1>8. QED
  BY <1>1, <1>2, <1>3, <1>4, <1>5, <1>6, <1>7 DEF Next, Step

LEMMA JudgedStep == AgentInv /\ [Next]_vars => JudgedInTime'
<1> SUFFICES ASSUME AgentInv, [Next]_vars PROVE JudgedInTime'
  OBVIOUS
<1> USE DEF AgentInv, TypeOK, Time, Past, JudgedInTime, tables, local, Go, Return
<1>1. CASE UNCHANGED vars
  BY <1>1 DEF vars
<1>2. CASE TimePasses
  BY <1>2 DEF TimePasses
<1>3. ASSUME NEW x \in Target, Exclude(x) PROVE JudgedInTime'
  BY <1>3 DEF Exclude
<1>4. ASSUME NEW t \in Task, Evaluate(t) PROVE JudgedInTime'
  BY <1>4 DEF Evaluate, Judge, Verdict
<1>5. ASSUME NEW t \in Task,
             \/ Start(t) \/ Crash(t) \/ Capture(t) \/ CaptureFails(t) \/ AppendEvidence(t)
             \/ Generate(t) \/ BeginPersist(t) \/ CommitPersist(t) \/ RefusePersist(t)
             \/ SerializationFailure(t) \/ ConnectionFails(t)
      PROVE  JudgedInTime'
  BY <1>5 DEF Start, Crash, Capture, CaptureFails, AppendEvidence, Generate, BeginPersist,
              CommitPersist, RefusePersist, SerializationFailure, ConnectionFails
<1>6. QED
  BY <1>1, <1>2, <1>3, <1>4, <1>5 DEF Next, Step

\* A missed exclusion is younger than the evidence, which was unexpired when
\* the transaction began; and a new exclusion is younger than every row.
LEMMA ExclusionsStep == AgentInv /\ [Next]_vars => ExclusionsBite'
<1> SUFFICES ASSUME AgentInv, [Next]_vars PROVE ExclusionsBite'
  OBVIOUS
<1> USE AgentAssumption DEF AgentInv, TypeOK, Time, ExclusionsBite, tables, local
<1>1. CASE UNCHANGED <<proposals, excludedAt>>
  BY <1>1
<1>2. ASSUME NEW x \in Target, Exclude(x) PROVE ExclusionsBite'
  <2>1. \A r \in proposals : r.began \in Nat /\ r.began <= now
    BY DEF Recorded, Past, ProposalRow, Proposal
  <2>2. QED
    BY <1>2, <2>1 DEF Exclude, Proposal
<1>3. ASSUME NEW t \in Task, CommitPersist(t) PROVE ExclusionsBite'
  <2>1. verdict[t] = "YES" /\ excludedAt[target[t]] # 0
          => began[t] < excludedAt[target[t]] + TTL
    BY <1>3 DEF CommitPersist, HoldsFresh, Unexpired, EvidenceRow, JudgedInTime
  <2>2. proposals' = proposals \cup {ProposalRow(t)} /\ excludedAt' = excludedAt
    BY <1>3 DEF CommitPersist
  <2>3. QED
    BY <2>1, <2>2 DEF ProposalRow
<1>4. QED
  BY <1>1, <1>2, <1>3
     DEF Next, Step, vars, TimePasses, Start, Crash, Capture, CaptureFails, AppendEvidence,
         Generate, Evaluate, BeginPersist, RefusePersist, SerializationFailure, ConnectionFails

LEMMA AgentCorrect == Spec => []AgentInv
<1>1. Init => AgentInv
  BY AgentAssumption
     DEF Init, AgentInv, TypeOK, Time, Verdict, Answer, Past, Distinct, Recorded, Answers,
         JudgedInTime, ExclusionsBite
<1>2. AgentInv /\ [Next]_vars => AgentInv'
  BY NextTypeOK, PastStep, DistinctStep, RecordedStep, JudgedStep, ExclusionsStep DEF AgentInv
<1>3. QED
  BY <1>1, <1>2, PTL DEF Spec

-----------------------------------------------------------------------------
(* The results *)

\* A proposal judged YES on an excluded target was stored by a transaction that
\* began less than TTL after the exclusion (ExclusionsBite).
THEOREM ExclusionsSoonBite == Spec => []ExclusionsBite
<1>1. AgentInv => ExclusionsBite
  BY DEF AgentInv
<1>2. QED
  BY <1>1, AgentCorrect, PTL

\* What a task is told about its proposal is so (ReportHonest).
THEOREM ReportsAreHonest == Spec => []ReportHonest
<1>1. AgentInv => ReportHonest
  BY DEF AgentInv, Answers, Recorded, ReportHonest
<1>2. QED
  BY <1>1, AgentCorrect, PTL

\* Proposals enter in the order of their captures (CaptureOrder): the evidence
\* of a stored proposal expires later than any older evidence still in force.
THEOREM ProposalsEnterInOrder == Spec => CaptureOrder
<1>1. ASSUME AgentInv, [Next]_vars
      PROVE  [\A r \in proposals' \ proposals, s \in proposals : s.captured < r.captured]_vars
  <2>1. CASE proposals' = proposals
    BY <2>1
  <2>2. ASSUME NEW t \in Task, CommitPersist(t), NEW s \in proposals
        PROVE  s.captured < captured[t]
    <3> DEFINE u == s.task
    <3>1. u \in Task /\ s.captured = captured[u] /\ EvidenceRow(u) \in evidence
          /\ captured[u] # 0 /\ pc[u] = "done"
      BY <1>1 DEF AgentInv, TypeOK, Recorded, ProposalRow, Proposal
    <3>2. captured[u] # captured[t]
      BY <1>1, <2>2, <3>1 DEF CommitPersist, AgentInv, Distinct
    <3>3. captured[t] + TTL > began[t]
      BY <2>2 DEF CommitPersist, HoldsFresh, Unexpired, EvidenceRow
    <3>4. captured[u] + TTL > began[t] => captured[u] <= captured[t]
      BY <2>2, <3>1 DEF CommitPersist, HoldsFresh, Unexpired, EvidenceRow
    <3>5. captured[u] \in Nat /\ captured[t] \in Nat /\ began[t] \in Nat /\ TTL \in Nat
      BY <1>1, <3>1, AgentAssumption DEF AgentInv, TypeOK, Time
    <3>6. QED
      BY <3>1, <3>2, <3>3, <3>4, <3>5
  <2>3. ASSUME NEW t \in Task, CommitPersist(t) PROVE proposals' \ proposals \subseteq {ProposalRow(t)}
    BY <2>3 DEF CommitPersist
  <2>4. proposals' = proposals \/ \E t \in Task : CommitPersist(t)
    BY <1>1 DEF Next, Step, vars, tables, TimePasses, Exclude, Start, Crash, Capture,
                CaptureFails, AppendEvidence, Generate, Evaluate, BeginPersist, RefusePersist,
                SerializationFailure, ConnectionFails
  <2>5. QED
    BY <2>1, <2>2, <2>3, <2>4 DEF ProposalRow
<1>2. QED
  BY <1>1, AgentCorrect, PTL DEF Spec, CaptureOrder

-----------------------------------------------------------------------------
(* How long a task can run *)

\* The steps a task has left at most, by what it does next and the attempts
\* persist has used: two steps for every attempt.
StepsLeft(at, used) ==
  CASE at \in {"idle", "done"} -> 0
    [] at = "begin"    -> 2 * (MaxAttempts - used)
    [] at = "persist"  -> 2 * (MaxAttempts - used) + 1
    [] at = "evaluate" -> 2 * MaxAttempts + 1
    [] at = "generate" -> 2 * MaxAttempts + 2
    [] at = "append"   -> 2 * MaxAttempts + 3
    [] at = "capture"  -> 2 * MaxAttempts + 4

TaskBounded ==
  \A t \in Task : StepsLeft(pc[t], attempts[t]) \in 0 .. 2 * MaxAttempts + 4

\* A step of a running task brings it nearer to its end; no step of another
\* task, no exclusion and no passing of time sends it back.
TaskNearsEnd ==
  \A t \in Task :
    \/ StepsLeft(pc'[t], attempts'[t]) < StepsLeft(pc[t], attempts[t])
    \/ /\ ~Step(t)
       /\ pc[t] = "idle" \/ (pc'[t] = pc[t] /\ attempts'[t] = attempts[t])

LEMMA StepsLeftBounded ==
  ASSUME NEW used \in 0 .. MaxAttempts,
         NEW at \in {"idle", "capture", "append", "generate", "evaluate", "begin",
                    "persist", "done"}
  PROVE  StepsLeft(at, used) \in 0 .. 2 * MaxAttempts + 4
<1>1. MaxAttempts \in Nat
  BY AgentAssumption
<1>2. QED
  BY <1>1 DEF StepsLeft

LEMMA StepWays ==
  ASSUME TypeOK, NEW t \in Task, Step(t) \/ Crash(t)
  PROVE  /\ \/ pc'[t] = "done"
            \/ <<pc[t], pc'[t]>> \in {<<"capture", "append">>, <<"append", "generate">>,
                                     <<"generate", "evaluate">>, <<"evaluate", "begin">>}
               /\ attempts'[t] = attempts[t]
            \/ pc[t] = "begin" /\ pc'[t] = "persist" /\ attempts'[t] = attempts[t] + 1
            \/ pc[t] = "persist" /\ pc'[t] = "begin" /\ attempts'[t] = attempts[t]
         /\ pc[t] \notin {"idle", "done"}
         /\ \A u \in Task \ {t} : pc'[u] = pc[u] /\ attempts'[u] = attempts[u]
<1> USE DEF Go, Return, tables, local
<1>0. /\ pc \in [Task -> {"idle", "capture", "append", "generate", "evaluate",
                          "begin", "persist", "done"}]
      /\ attempts \in [Task -> 0 .. MaxAttempts]
  BY DEF TypeOK
<1>1. CASE Capture(t)
  BY <1>0, <1>1 DEF Capture
<1>2. CASE CaptureFails(t)
  BY <1>0, <1>2 DEF CaptureFails
<1>3. CASE AppendEvidence(t)
  BY <1>0, <1>3 DEF AppendEvidence
<1>4. CASE Generate(t)
  BY <1>0, <1>4 DEF Generate
<1>5. CASE Evaluate(t)
  BY <1>0, <1>5 DEF Evaluate
<1>6. CASE BeginPersist(t)
  BY <1>0, <1>6 DEF BeginPersist
<1>7. CASE CommitPersist(t)
  BY <1>0, <1>7 DEF CommitPersist
<1>8. CASE RefusePersist(t)
  BY <1>0, <1>8 DEF RefusePersist
<1>9. CASE SerializationFailure(t)
  BY <1>0, <1>9 DEF SerializationFailure
<1>10. CASE ConnectionFails(t)
  BY <1>0, <1>10 DEF ConnectionFails
<1>11. CASE Crash(t)
  BY <1>0, <1>11 DEF Crash
<1>12. QED
  BY <1>1, <1>2, <1>3, <1>4, <1>5, <1>6, <1>7, <1>8, <1>9, <1>10, <1>11 DEF Step

LEMMA StepsLeftFall ==
  ASSUME TypeOK, NEW t \in Task, Step(t) \/ Crash(t)
  PROVE  StepsLeft(pc'[t], attempts'[t]) < StepsLeft(pc[t], attempts[t])
<1>1. /\ pc[t] \in {"capture", "append", "generate", "evaluate", "begin", "persist"}
      /\ attempts[t] \in 0 .. MaxAttempts /\ MaxAttempts \in Nat \ {0}
      /\ pc[t] # "persist" => attempts[t] < MaxAttempts
  BY StepWays, AgentAssumption DEF TypeOK
<1>2. QED
  BY <1>1, StepWays DEF StepsLeft

\* A started task ends within 2 * MaxAttempts + 4 steps of its own, whatever
\* the others do and however often the database answers 40001: the safety half
\* of TaskReturns (agent.py:process_task, memory.py:_retry).
THEOREM TasksNearTheirEnd == Spec => []TaskBounded /\ [][TaskNearsEnd]_vars
<1>1. TypeOK => TaskBounded
  BY StepsLeftBounded DEF TypeOK, TaskBounded
<1>2. TypeOK /\ [Next]_vars => [TaskNearsEnd]_vars
  <2> SUFFICES ASSUME TypeOK, Next PROVE TaskNearsEnd
    OBVIOUS
  <2>1. \A t \in Task :
          Step(t) => StepsLeft(pc'[t], attempts'[t]) < StepsLeft(pc[t], attempts[t])
    BY StepsLeftFall
  <2>2. CASE TimePasses \/ \E x \in Target : Exclude(x)
    BY <2>1, <2>2 DEF TimePasses, Exclude, local, TaskNearsEnd
  <2>3. ASSUME NEW u \in Task, Start(u) PROVE TaskNearsEnd
    <3>1. \A t \in Task : pc[t] = "idle" \/ (pc'[t] = pc[t] /\ attempts'[t] = attempts[t])
      BY <2>3 DEF Start, Go, Return, local, TypeOK
    <3>2. QED
      BY <2>1, <3>1 DEF TaskNearsEnd
  <2>4. ASSUME NEW u \in Task, Step(u) \/ Crash(u) PROVE TaskNearsEnd
    <3>1. \A t \in Task \ {u} : pc'[t] = pc[t] /\ attempts'[t] = attempts[t]
      BY <2>4, StepWays
    <3>2. StepsLeft(pc'[u], attempts'[u]) < StepsLeft(pc[u], attempts[u])
      BY <2>4, StepsLeftFall
    <3>3. QED
      BY <2>1, <3>1, <3>2 DEF TaskNearsEnd
  <2>5. QED
    BY <2>2, <2>3, <2>4 DEF Next
<1>3. QED
  BY <1>1, <1>2, TypeCorrect, PTL DEF Spec
=============================================================================
