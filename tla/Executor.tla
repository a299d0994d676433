------------------------------- MODULE Executor -------------------------------
(***************************************************************************)
(* src/src/executor.py: the typed, append-only demo executor.              *)
(*                                                                         *)
(* Several executor calls (execute_demo_and_record) run concurrently       *)
(* against one database.  Each call runs _execute inside AppMemory._retry: *)
(* look for a receipt, check the authority, read the newest effect of the  *)
(* key, insert the next effect with its attempt and receipt, commit.  When *)
(* the INSERT of the effect fails with an SQL error other than 40001 the   *)
(* transaction is proven rolled back and a second transaction              *)
(* (_append_error) records an ERROR attempt and receipt instead.           *)
(*                                                                         *)
(* Abstractions.  Digests are injective, so a digest reference is the row  *)
(* it names.  execution_attempts rows pair one to one with receipts (they  *)
(* are inserted by the same two functions and share the key), so one       *)
(* record stands for both.  CockroachDB is external: a transaction reads   *)
(* the state at its first step and commits only if what it read still      *)
(* holds, otherwise it fails with SQLSTATE 40001, which the database may   *)
(* also do at any other time.                                              *)
(***************************************************************************)
EXTENDS Naturals, FiniteSets

CONSTANTS
  Caller,            \* concurrent executor calls
  Decision,          \* decision ids
  IdempotencyKey,    \* idempotency keys of execution commands
  EffectKey,         \* demo_kv effect keys
  ExecutorId,        \* executor ids derived from database principals
  Verdict,           \* the DecisionValue of each decision row
  Bound,             \* decisions whose digests verify and whose action is allowlisted
  Target,            \* effect key of the decision's proposal
  ExecutorOf,        \* ExecutorConfig.executor_id of each caller
  MaxAttempts,       \* max_serialization_retries
  NoDecision,        \* prior_effect_id IS NULL
  NoCommand          \* a caller that never called

DecisionValue == {"APPROVE", "REJECT", "MODIFY"}

Command == [decision : Decision, idem : IdempotencyKey]

ASSUME ExecutorAssumption ==
  /\ Verdict \in [Decision -> DecisionValue]
  /\ Bound \subseteq Decision
  /\ Target \in [Decision -> EffectKey]
  /\ ExecutorOf \in [Caller -> ExecutorId]
  /\ MaxAttempts \in Nat \ {0}
  /\ NoDecision \notin Decision /\ NoCommand \notin Command

VARIABLES
  decisions,   \* ids of the rows of table decisions
  effects,     \* rows of table demo_kv
  receipts,    \* rows of execution_attempts joined with execution_receipts
  pc,          \* what each caller does next
  cmd,         \* its DemoExecutionCommand
  tries,       \* attempts used in the current _retry envelope
  head,        \* newest effect of the key as its transaction read it
  reply        \* what its last call returned or raised

table == <<decisions, effects, receipts>>
vars == <<decisions, effects, receipts, pc, cmd, tries, head, reply>>

-----------------------------------------------------------------------------
(* Rows *)

Genesis == [decision |-> NoDecision, version |-> 0]

\* A reference to an effect (prior_effect_id, prior_effect_version,
\* before_effect_digest); Genesis is the NULL reference with digest _ZERO.
EffectRef == [decision : Decision \cup {NoDecision}, version : Nat]

Effect == [decision : Decision, idem : IdempotencyKey, version : Nat \ {0},
           prior : EffectRef]

Status == {"OBSERVED", "ERROR"}

Receipt == [decision : Decision, idem : IdempotencyKey, executor : ExecutorId,
            status : Status, version : Nat, before : EffectRef]

\* What a call ends with.  "receipt" carries the returned row; the others are
\* ExecutionBlocked with its reason, or an exception that tells nothing.
Answer == {"receipt", "ambiguous", "conflict", "unauthorized", "forbidden", "raised"}

Reply == [kind : Answer \cup {"none"}, rows : SUBSET Receipt]

OnKey(k) == {e \in effects : Target[e.decision] = k}

\* ORDER BY effect_version DESC LIMIT 1, as a set of at most one reference
HeadRefs(k) ==
  IF OnKey(k) = {} THEN {Genesis}
  ELSE {[decision |-> e.decision, version |-> e.version] :
          e \in {e \in OnKey(k) : \A f \in OnKey(k) : f.version <= e.version}}

\* Mutant: the receipt lookup forgets OR decision_id.
ReceiptsForKeyOnly(m) == {r \in receipts : r.idem = m.idem}

\* WHERE idempotency_key = $1 OR decision_id = $2
ReceiptsFor(m) == {r \in receipts : r.idem = m.idem \/ r.decision = m.decision}

\* WHERE idempotency_key = $1, the lookup of _append_error
ReceiptsByKey(m) == {r \in receipts : r.idem = m.idem}

EffectsOf(d) == {e \in effects : e.decision = d}

\* Mutant: the prior reference is never bound.
EffectRowUnlinked(c) ==
  [decision |-> cmd[c].decision, idem |-> cmd[c].idem,
   version |-> head[c].version + 1, prior |-> Genesis]

\* Mutant: the version read is stored instead of its successor.
EffectRowSameVersion(c) ==
  [decision |-> cmd[c].decision, idem |-> cmd[c].idem,
   version |-> head[c].version, prior |-> head[c]]

EffectRow(c) == [decision |-> cmd[c].decision, idem |-> cmd[c].idem,
                 version |-> head[c].version + 1, prior |-> head[c]]

ObservedRow(c) == [decision |-> cmd[c].decision, idem |-> cmd[c].idem,
                   executor |-> ExecutorOf[c], status |-> "OBSERVED",
                   version |-> head[c].version + 1, before |-> head[c]]

ErrorRow(c) == [decision |-> cmd[c].decision, idem |-> cmd[c].idem,
                executor |-> ExecutorOf[c], status |-> "ERROR",
                version |-> 0, before |-> head[c]]

\* The UNIQUE constraints of demo_kv: one effect per decision, per idempotency
\* key, and per version of an effect key.
EffectAdmitted(e) ==
  \A f \in effects :
    /\ f.decision # e.decision
    /\ f.idem # e.idem
    /\ Target[f.decision] = Target[e.decision] => f.version # e.version

\* The UNIQUE idempotency_key of execution_attempts and execution_receipts.
ReceiptAdmitted(r) == \A s \in receipts : s.idem # r.idem

\* What _execute requires of the decision, its evaluation and its proposal.
Authorized(d) == d \in decisions /\ Verdict[d] = "APPROVE" /\ d \in Bound
-----------------------------------------------------------------------------
(* The call *)

Init ==
  /\ decisions = {} /\ effects = {} /\ receipts = {}
  /\ pc = [c \in Caller |-> "idle"]
  /\ cmd = [c \in Caller |-> NoCommand]
  /\ tries = [c \in Caller |-> 0]
  /\ head = [c \in Caller |-> Genesis]
  /\ reply = [c \in Caller |-> [kind |-> "none", rows |-> {}]]

\* The call of c returns or raises.
Finish(c, kind, rows) ==
  /\ pc' = [pc EXCEPT ![c] = "idle"]
  /\ tries' = [tries EXCEPT ![c] = 0]
  /\ head' = [head EXCEPT ![c] = Genesis]
  /\ reply' = [reply EXCEPT ![c] = [kind |-> kind, rows |-> rows]]
  /\ UNCHANGED cmd

Continue(c, to) ==
  /\ pc' = [pc EXCEPT ![c] = to]
  /\ UNCHANGED <<cmd, reply>>

\* External: the decider appends a decision row (at most one per proposal).
Decide(d) ==
  /\ decisions' = decisions \cup {d}
  /\ UNCHANGED <<effects, receipts, pc, cmd, tries, head, reply>>

\* A verified executor receives a command, new or a repetition.
Invoke(c, m) ==
  /\ pc[c] = "idle"
  /\ pc' = [pc EXCEPT ![c] = "lookup"]
  /\ cmd' = [cmd EXCEPT ![c] = m]
  /\ tries' = [tries EXCEPT ![c] = 1]
  /\ reply' = [reply EXCEPT ![c] = [kind |-> "none", rows |-> {}]]
  /\ UNCHANGED <<decisions, effects, receipts, head>>

\* Mutant: the decision of a receipt found by key is not compared.
AnswersAnyDecision(r, c) == r.executor = ExecutorOf[c]

\* A receipt may answer the command only for the same decision and executor.
Answers(r, c) == r.decision = cmd[c].decision /\ r.executor = ExecutorOf[c]

\* _execute up to the INSERT: the reads that fix the transaction's snapshot.
Lookup(c) ==
  LET found == ReceiptsFor(cmd[c])
      d     == cmd[c].decision
  IN /\ pc[c] = "lookup"
     /\ UNCHANGED table
     /\ \/ /\ Cardinality(found) > 1
           /\ Finish(c, "ambiguous", {})
        \/ \E r \in found :
             /\ found = {r}
             /\ IF Answers(r, c) THEN Finish(c, "receipt", {r})
                                ELSE Finish(c, "conflict", {})
        \/ /\ found = {}
           /\ ~Authorized(d)
           /\ Finish(c, "unauthorized", {})
        \/ /\ found = {}
           /\ Authorized(d)
           /\ \E h \in HeadRefs(Target[d]) : head' = [head EXCEPT ![c] = h]
           /\ Continue(c, "insert")
           /\ UNCHANGED tries

\* The INSERT into demo_kv succeeds inside the open transaction.
InsertEffect(c) ==
  /\ pc[c] = "insert"
  /\ EffectAdmitted(EffectRow(c))
  /\ Continue(c, "commit")
  /\ UNCHANGED <<decisions, effects, receipts, tries, head>>

\* The INSERT fails with an SQLSTATE other than 40001: _ProvenRollback.  The
\* ERROR transaction runs in a _retry envelope of its own.
InsertFails(c) ==
  /\ pc[c] = "insert"
  /\ Continue(c, "recover")
  /\ tries' = [tries EXCEPT ![c] = 1]
  /\ UNCHANGED <<decisions, effects, receipts, head>>

\* What the effect transaction read is still what the database holds.
EffectReadsHold(c) ==
  /\ ReceiptsFor(cmd[c]) = {}
  /\ head[c] \in HeadRefs(Target[cmd[c].decision])

\* COMMIT of effect, attempt and receipt; the acknowledgement may be lost.
CommitEffect(c) ==
  /\ pc[c] = "commit"
  /\ EffectReadsHold(c)
  /\ EffectAdmitted(EffectRow(c)) /\ ReceiptAdmitted(ObservedRow(c))
  /\ effects' = effects \cup {EffectRow(c)}
  /\ receipts' = receipts \cup {ObservedRow(c)}
  /\ \/ Finish(c, "receipt", {ObservedRow(c)})
     \/ Finish(c, "raised", {})
  /\ UNCHANGED decisions

\* Mutant: the effect is looked for by idempotency key.
EffectCommittedByKey(c) == \E e \in effects : e.idem = cmd[c].idem

\* SELECT id FROM demo_kv WHERE decision_id = ...
EffectCommitted(c) == EffectsOf(cmd[c].decision) # {}

\* _append_error up to its inserts.
RecoverLookup(c) ==
  LET found == ReceiptsByKey(cmd[c])
  IN /\ pc[c] = "recover"
     /\ UNCHANGED table
     /\ \/ \E r \in found :
             IF r.decision = cmd[c].decision /\ r.status = "ERROR"
             THEN Finish(c, "receipt", {r})
             ELSE Finish(c, "conflict", {})
        \/ /\ found = {}
           /\ EffectCommitted(c)
           /\ Finish(c, "forbidden", {})
        \/ /\ found = {}
           /\ ~EffectCommitted(c)
           /\ Continue(c, "seal")
           /\ UNCHANGED <<tries, head>>

\* What the ERROR transaction read still holds.
ErrorReadsHold(c) ==
  /\ ReceiptsByKey(cmd[c]) = {}
  /\ ~EffectCommitted(c)

\* COMMIT of the ERROR attempt and receipt; the acknowledgement may be lost.
CommitError(c) ==
  /\ pc[c] = "seal"
  /\ ErrorReadsHold(c)
  /\ ReceiptAdmitted(ErrorRow(c))
  /\ receipts' = receipts \cup {ErrorRow(c)}
  /\ \/ Finish(c, "receipt", {ErrorRow(c)})
     \/ Finish(c, "raised", {})
  /\ UNCHANGED <<decisions, effects>>

\* Mutant: the attempt counter is not advanced.
SerializationFailureUnbounded(c) ==
  /\ pc[c] # "idle"
  /\ IF pc[c] \in {"recover", "seal"}
     THEN Continue(c, "recover") /\ UNCHANGED head
     ELSE Continue(c, "lookup") /\ head' = [head EXCEPT ![c] = Genesis]
  /\ UNCHANGED <<decisions, effects, receipts, tries>>

\* SQLSTATE 40001 anywhere in a transaction: _retry runs the operation again
\* from its start, or re-raises when the attempts are used up.
SerializationFailure(c) ==
  /\ pc[c] # "idle"
  /\ \/ /\ tries[c] < MaxAttempts
        /\ tries' = [tries EXCEPT ![c] = @ + 1]
        /\ IF pc[c] \in {"recover", "seal"}
           THEN Continue(c, "recover") /\ UNCHANGED head
           ELSE Continue(c, "lookup") /\ head' = [head EXCEPT ![c] = Genesis]
     \/ tries[c] >= MaxAttempts /\ Finish(c, "raised", {})
  /\ UNCHANGED table

\* The process dies, or an exception that is not 40001 (a lost connection, a
\* failed read-back) leaves the call; the open transaction rolls back.
Abandon(c) ==
  /\ pc[c] # "idle"
  /\ Finish(c, "raised", {})
  /\ UNCHANGED table

Step(c) ==
  \/ Lookup(c) \/ InsertEffect(c) \/ InsertFails(c) \/ CommitEffect(c)
  \/ RecoverLookup(c) \/ CommitError(c) \/ SerializationFailure(c)

Next ==
  \/ \E d \in Decision : Decide(d)
  \/ \E c \in Caller : \/ \E m \in Command : Invoke(c, m)
                      \/ Step(c) \/ Abandon(c)

Spec == Init /\ [][Next]_vars

\* A running call is a coroutine the event loop keeps scheduling, and every
\* statement has a deadline, so its next step always comes.  Nobody is obliged
\* to decide, to call, or to crash.
FairSpec == Spec /\ \A c \in Caller : WF_vars(Step(c))

-----------------------------------------------------------------------------
(* Properties *)

PC == {"idle", "lookup", "insert", "commit", "recover", "seal"}

\* The shape of the tables and of each caller's local state; a running call
\* has a command and a live retry budget.
TypeOK ==
  /\ decisions \subseteq Decision
  /\ effects \subseteq Effect
  /\ receipts \subseteq Receipt
  /\ pc \in [Caller -> PC]
  /\ cmd \in [Caller -> Command \cup {NoCommand}]
  /\ tries \in [Caller -> 0 .. MaxAttempts]
  /\ head \in [Caller -> EffectRef]
  /\ reply \in [Caller -> Reply]
  /\ \A c \in Caller : pc[c] # "idle" => cmd[c] \in Command /\ tries[c] > 0

\* Receipts tell the truth for good: an OBSERVED receipt names an effect that is
\* in demo_kv with that version and predecessor, an ERROR receipt names a
\* decision whose effect never happened, and no effect is without its receipt.
\* (_append_error's "effect commit is ambiguous; ERROR is forbidden".)
ReceiptTruth ==
  /\ \A r \in receipts :
       IF r.status = "OBSERVED"
       THEN \E e \in EffectsOf(r.decision) :
              e.idem = r.idem /\ e.version = r.version /\ e.prior = r.before
       ELSE EffectsOf(r.decision) = {}
  /\ \A e \in effects :
       \E r \in receipts : r.decision = e.decision /\ r.status = "OBSERVED"

\* The effects of one key form one chain: versions start at 1, none is taken
\* twice or skipped, and each effect points at the one before it
\* (the version computed at executor.py:436 from a read that may be stale).
EffectChain ==
  /\ \A e, f \in effects :
       Target[e.decision] = Target[f.decision] /\ e.version = f.version => e = f
  /\ \A e \in effects :
       \/ e.version = 1 /\ e.prior = Genesis
       \/ \E f \in OnKey(Target[e.decision]) :
            /\ e.prior = [decision |-> f.decision, version |-> f.version]
            /\ e.version = f.version + 1

\* An OBSERVED receipt is the only receipt of its decision, whatever keys the
\* callers used: no ERROR was recorded before it or after it.
ObservedIsFinal ==
  \A r, s \in receipts :
    r.decision = s.decision /\ r.status = "OBSERVED" => r = s

\* A receipt handed to a caller is stored, is for the caller's decision, and
\* stays true however late the caller looks at it: OBSERVED exactly when the
\* decision has its effect (executor.py:391-397, 354-360, 722).
ReplyHonest ==
  \A c \in Caller : reply[c].kind = "receipt" =>
    \E r \in receipts :
      /\ reply[c].rows = {r}
      /\ r.decision = cmd[c].decision
      /\ r.status = "OBSERVED" <=> EffectsOf(r.decision) # {}

\* "execution receipt identity is ambiguous" (executor.py:387-388): the code
\* treats two receipts of one decision as a corrupt identity.
OneReceiptPerDecision ==
  \A r, s \in receipts : r.decision = s.decision => r = s

\* Every call returns or raises: retries are bounded and no answer leads back.
CallReturns == \A c \in Caller : pc[c] # "idle" ~> pc[c] = "idle"

-----------------------------------------------------------------------------
(* Refinement of Execution *)

OutcomeOf(d) ==
  IF EffectsOf(d) # {} THEN "OBSERVED"
  ELSE IF \E r \in receipts : r.decision = d THEN "ERROR" ELSE "NONE"

VersionOf(d) ==
  IF EffectsOf(d) = {} THEN 0 ELSE (CHOOSE e \in EffectsOf(d) : TRUE).version

Abstract == INSTANCE Execution WITH
  authorized <- {d \in decisions : Authorized(d)},
  outcome <- [d \in Decision |-> OutcomeOf(d)],
  version <- [d \in Decision |-> VersionOf(d)]

\* Seen through its tables, the executor settles each authorised decision at
\* most once, in one atomic step, and never reopens it.
Implements == Abstract!ASpec
=============================================================================
