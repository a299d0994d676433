-------------------------------- MODULE Agent --------------------------------
(***************************************************************************)
(* Concurrent agent tasks: process_task (src/src/agent.py) with the tool   *)
(* evidence and proposal operations of AppMemory (src/src/memory.py) it    *)
(* calls, beside humans who exclude targets.                               *)
(*                                                                         *)
(* A task captures evidence of the cluster, has the model draft a proposal *)
(* (slow), reads the exclusions of the drafted target, lets the gate judge *)
(* and then, in one serializable transaction under _retry, checks that its *)
(* evidence is still the latest unexpired one and appends proposal and     *)
(* evaluation.                                                             *)
(*                                                                         *)
(* Abstractions.  One clock stands for captured_at, transaction_timestamp  *)
(* and the times of exclusions; two captures never share a microsecond.    *)
(* A serializable transaction takes effect at its commit, its timestamp is *)
(* that of its begin.  The action type is part of the target.  Invalid     *)
(* input, failed remote calls, a missing dependency fact or MODIFY lineage *)
(* (append-only rows: the second lineage check repeats the first) end a    *)
(* task at their stage.                                                    *)
(***************************************************************************)
EXTENDS Naturals

CONSTANTS
  Task,              \* calls of process_task
  Target,            \* normalized action and target keys
  TTL,               \* life of tool evidence
  MaxAttempts,       \* max_serialization_retries
  MaxClock,          \* bound: how far the clock runs
  NoTarget           \* nothing drafted yet

ASSUME AgentAssumption ==
  /\ TTL \in Nat \ {0} /\ MaxAttempts \in Nat \ {0} /\ MaxClock \in Nat
  /\ NoTarget \notin Target

VARIABLES
  now,          \* the clock
  evidence,     \* rows of tool_evidence with exit status 0, by task and captured_at
  proposals,    \* rows of proposals, with their first evaluation
  excludedAt,   \* when each target was first excluded, 0 if it was not
  pc,           \* what each task does next
  captured,     \* captured_at of its evidence
  target,       \* what its proposal acts on
  verdict,      \* what the gate said
  began,        \* transaction_timestamp of its last transaction
  attempts,     \* transactions begun by _retry(persist)
  answer        \* what it returned

tables == <<evidence, proposals, excludedAt>>
local == <<captured, target, verdict, began, attempts>>
vars == <<now, tables, pc, local, answer>>

-----------------------------------------------------------------------------
(* Rows *)

Time == 0 .. MaxClock

Evidence == [task : Task, captured : Time]

\* BLOCKED stands for a BlockedResult; YES for every verdict an exclusion forbids.
Verdict == {"YES", "NO", "BLOCKED"}

Proposal == [task : Task, captured : Time, target : Target,
             verdict : Verdict, began : Time]

\* stages of AgentBlockedResult
Stage == {"INPUT", "EMBEDDING", "CCLOUD", "OPENAI", "VALIDATION", "PERSISTENCE"}

Answer == Stage \cup {"none", "persisted"}

EvidenceRow(t) == [task |-> t, captured |-> captured[t]]

ProposalRow(t) == [task |-> t, captured |-> captured[t], target |-> target[t],
                   verdict |-> verdict[t], began |-> began[t]]

Unexpired(e, time) == e.captured + TTL > time

\* Mutant: any fresh evidence will do.
HoldsFreshAny(t) == \E e \in evidence : Unexpired(e, began[t])

\* Mutant: the newest evidence of all, expired or not.
HoldsFreshForever(t) ==
  /\ EvidenceRow(t) \in evidence
  /\ \A e \in evidence : e.captured <= captured[t]

\* get_latest_unexpired_tool_evidence returns the task's own evidence.
HoldsFresh(t) ==
  /\ EvidenceRow(t) \in evidence
  /\ Unexpired(EvidenceRow(t), began[t])
  /\ \A e \in evidence : Unexpired(e, began[t]) => e.captured <= captured[t]

\* _validate_evaluation_binding: a BLOCKED result has no profile to match.
Storable(v) == v # "BLOCKED"
-----------------------------------------------------------------------------
(* The world *)

Init ==
  /\ now = 0
  /\ evidence = {} /\ proposals = {}
  /\ excludedAt = [x \in Target |-> 0]
  /\ pc = [t \in Task |-> "idle"]
  /\ captured = [t \in Task |-> 0]
  /\ target = [t \in Task |-> NoTarget]
  /\ verdict = [t \in Task |-> "NO"]
  /\ began = [t \in Task |-> 0]
  /\ attempts = [t \in Task |-> 0]
  /\ answer = [t \in Task |-> "none"]

TimePasses ==
  /\ now < MaxClock
  /\ now' = now + 1
  /\ UNCHANGED <<tables, pc, local, answer>>

\* A human rejects a proposal and has its target excluded.
Exclude(x) ==
  /\ now < MaxClock
  /\ excludedAt[x] = 0
  /\ now' = now + 1
  /\ excludedAt' = [excludedAt EXCEPT ![x] = now + 1]
  /\ UNCHANGED <<evidence, proposals, pc, local, answer>>
-----------------------------------------------------------------------------
(* process_task *)

Go(t, step) ==
  /\ pc' = [pc EXCEPT ![t] = step]
  /\ UNCHANGED answer

Return(t, result) ==
  /\ pc' = [pc EXCEPT ![t] = "done"]
  /\ answer' = [answer EXCEPT ![t] = result]

\* Input validation, embedding of the task and retrieval of precedents.
Start(t) ==
  /\ pc[t] = "idle"
  /\ Go(t, "capture") \/ Return(t, "INPUT") \/ Return(t, "EMBEDDING")
  /\ UNCHANGED <<now, tables, local>>

\* ccloud_tool.capture
Capture(t) ==
  /\ pc[t] = "capture"
  /\ now < MaxClock
  /\ now' = now + 1
  /\ captured' = [captured EXCEPT ![t] = now + 1]
  /\ Go(t, "append")
  /\ UNCHANGED <<tables, target, verdict, began, attempts>>

CaptureFails(t) ==
  /\ pc[t] = "capture"
  /\ Return(t, "CCLOUD")
  /\ UNCHANGED <<now, tables, local>>

\* append_tool_evidence; the acknowledgement may be lost after the row is stored.
AppendEvidence(t) ==
  /\ pc[t] = "append"
  /\ \/ evidence' = evidence \cup {EvidenceRow(t)} /\ Go(t, "generate")
     \/ evidence' = evidence \cup {EvidenceRow(t)} /\ Return(t, "CCLOUD")
     \/ evidence' = evidence /\ Return(t, "CCLOUD")
  /\ UNCHANGED <<now, proposals, excludedAt, local>>

\* The model drafts a proposal on some target.
Generate(t) ==
  /\ pc[t] = "generate"
  /\ \/ /\ Go(t, "evaluate")
        /\ \E x \in Target : target' = [target EXCEPT ![t] = x]
     \/ /\ Return(t, "OPENAI")
        /\ UNCHANGED target
  /\ UNCHANGED <<now, tables, captured, verdict, began, attempts>>

\* Mutant: the exclusions are not read.
JudgeBlindly(x) == Verdict

\* evaluate_proposal: an exclusion of the very target never leaves a YES.
Judge(x) == IF excludedAt[x] # 0 THEN Verdict \ {"YES"} ELSE Verdict

\* get_exclusions, dependency facts, lineage, snapshot and gate.
Evaluate(t) ==
  /\ pc[t] = "evaluate"
  /\ \/ /\ Go(t, "begin")
        /\ \E v \in Judge(target[t]) : verdict' = [verdict EXCEPT ![t] = v]
     \/ /\ Return(t, "VALIDATION")
        /\ UNCHANGED verdict
  /\ UNCHANGED <<now, tables, captured, target, began, attempts>>

\* _retry opens a transaction.
BeginPersist(t) ==
  /\ pc[t] = "begin"
  /\ began' = [began EXCEPT ![t] = now]
  /\ attempts' = [attempts EXCEPT ![t] = @ + 1]
  /\ Go(t, "persist")
  /\ UNCHANGED <<now, tables, captured, target, verdict>>

\* persist commits; its acknowledgement may be lost, or the process may die.
CommitPersist(t) ==
  /\ pc[t] = "persist"
  /\ HoldsFresh(t)
  /\ Storable(verdict[t])
  /\ proposals' = proposals \cup {ProposalRow(t)}
  /\ Return(t, "persisted") \/ Return(t, "PERSISTENCE") \/ Go(t, "done")
  /\ UNCHANGED <<now, evidence, excludedAt, local>>

\* Mutant: the exception of persist is swallowed.
RefusePersistSilently(t) ==
  /\ pc[t] = "persist"
  /\ ~HoldsFresh(t) \/ ~Storable(verdict[t])
  /\ Return(t, "persisted")
  /\ UNCHANGED <<now, tables, local>>

\* Stale evidence, or a result that cannot be stored.
RefusePersist(t) ==
  /\ pc[t] = "persist"
  /\ ~HoldsFresh(t) \/ ~Storable(verdict[t])
  /\ Return(t, "PERSISTENCE")
  /\ UNCHANGED <<now, tables, local>>

\* Mutant: retries are not counted.
SerializationFailureUnbounded(t) ==
  /\ pc[t] = "persist"
  /\ pc' = [pc EXCEPT ![t] = "begin"]
  /\ attempts' = [attempts EXCEPT ![t] = 0]
  /\ UNCHANGED <<now, tables, captured, target, verdict, began, answer>>

\* Mutant: one attempt too many.
SerializationFailureOnceMore(t) ==
  /\ pc[t] = "persist"
  /\ IF attempts[t] <= MaxAttempts THEN Go(t, "begin") ELSE Return(t, "PERSISTENCE")
  /\ UNCHANGED <<now, tables, local>>

\* A 40001 failure: the transaction runs again, up to max_serialization_retries.
SerializationFailure(t) ==
  /\ pc[t] = "persist"
  /\ IF attempts[t] < MaxAttempts THEN Go(t, "begin") ELSE Return(t, "PERSISTENCE")
  /\ UNCHANGED <<now, tables, local>>

\* Every other failure: nothing is written, nothing is tried again.
ConnectionFails(t) ==
  /\ pc[t] \in {"begin", "persist"}
  /\ Return(t, "PERSISTENCE")
  /\ UNCHANGED <<now, tables, local>>

\* The process dies; nobody is answered.
Crash(t) ==
  /\ pc[t] \notin {"idle", "done"}
  /\ pc' = [pc EXCEPT ![t] = "done"]
  /\ UNCHANGED <<now, tables, local, answer>>

Step(t) ==
  \/ Capture(t) \/ CaptureFails(t) \/ AppendEvidence(t) \/ Generate(t) \/ Evaluate(t)
  \/ BeginPersist(t) \/ CommitPersist(t) \/ RefusePersist(t)
  \/ SerializationFailure(t) \/ ConnectionFails(t)

Next ==
  \/ TimePasses
  \/ \E x \in Target : Exclude(x)
  \/ \E t \in Task : Start(t) \/ Step(t) \/ Crash(t)

Spec == Init /\ [][Next]_vars

\* A started task keeps being scheduled; remote calls have timeouts.
FairSpec == Spec /\ \A t \in Task : WF_vars(Step(t))

-----------------------------------------------------------------------------
(* Properties *)

\* The shape of the tables and of every task's local state.
TypeOK ==
  /\ now \in Time
  /\ evidence \subseteq Evidence
  /\ proposals \subseteq Proposal
  /\ excludedAt \in [Target -> Time]
  /\ pc \in [Task -> {"idle", "capture", "append", "generate", "evaluate",
                      "begin", "persist", "done"}]
  /\ captured \in [Task -> Time]
  /\ target \in [Task -> Target \cup {NoTarget}]
  /\ verdict \in [Task -> Verdict]
  /\ began \in [Task -> Time]
  /\ attempts \in [Task -> 0 .. MaxAttempts]
  /\ answer \in [Task -> Answer]
  /\ \A t \in Task : pc[t] \notin {"persist", "done"} => attempts[t] < MaxAttempts
  /\ \A t \in Task : pc[t] \in {"evaluate", "begin", "persist"} => target[t] \in Target

\* Proposals enter in the order in which their evidence was captured: once a
\* task with newer evidence is stored, none with older evidence follows it,
\* although the check of persist skips expired evidence and reads the time its
\* transaction began (get_latest_unexpired_tool_evidence, memory.py:1293).
CaptureOrder ==
  [][\A r \in proposals' \ proposals, s \in proposals : s.captured < r.captured]_vars

\* How long a proposal can miss an exclusion: process_task reads exclusions
\* once (agent.py:714) and never again, but its evidence is checked at the end
\* (agent.py:782), so a YES on an excluded target is only stored by a
\* transaction that began less than the life of evidence after the exclusion.
ExclusionsBite ==
  \A r \in proposals :
    r.verdict = "YES" /\ excludedAt[r.target] # 0 => r.began < excludedAt[r.target] + TTL

\* What a task reports: a persisted task has its one row, a task blocked at an
\* earlier stage has none.
ReportHonest ==
  /\ \A t \in Task : answer[t] = "persisted" => ProposalRow(t) \in proposals
  /\ \A r \in proposals : answer[r.task] \in {"none", "persisted", "PERSISTENCE"}
  /\ \A r, s \in proposals : r.task = s.task => r = s

\* "proposal and evaluation were not committed" (agent.py:801)
NotCommitted ==
  \A r \in proposals : answer[r.task] # "PERSISTENCE"

\* Every started task returns (or its process dies): _retry is bounded.
TaskReturns ==
  \A t \in Task : pc[t] # "idle" ~> pc[t] = "done"
=============================================================================
