# Governed agent memory: a TLA+ verification project

This directory holds TLA+ modules, TLC configurations and TLAPS proofs about
the program in `src/` (paths below are relative to the repository root, so the
Python package is `src/*.py`, the schema `schema/init.sql`, the Lambda entry
`lambda/handler.py`).

## The system

An agent drafts a *proposal* (an action on a target), a pure *gate* evaluates
it against policy, exclusions, precedents, evidence and dependencies, a *human*
decides on the evaluation, an *executor* carries out approved demo actions, and
*consequences* observed afterwards feed later evaluations.  Everything is kept
in append-only CockroachDB tables; roles may only SELECT and INSERT.

| component | state | operations | what is hard |
|---|---|---|---|
| schema (`schema/init.sql`, `roles.sql`) | ten append-only tables | INSERT under UNIQUE, CHECK and foreign keys | the constraints are the only mutual exclusion between processes |
| application memory (`memory.py`) | pool, active connection | `_retry`, append/get operations, precedent search | serialization failures, replays, "latest" ordered by transaction start time, a search that counts proposals and returns evaluations |
| executor (`executor.py`) | `demo_kv`, attempts, receipts | `execute_demo_and_record`, `_append_error` | two transactions per call, lost acknowledgements, racing commands, version chain |
| decider CLI (`cli.py`) | decisions, exclusions | `show`, `decide`, `execute`, `consequence`, `reevaluate`, `history` | the staleness check runs outside the decision's transaction |
| gate (`governance.py`, `traces.py`) | none (pure) | `evaluate_proposal` | twelve rules, a reducer with strict precedence, error paths that block |
| agent (`agent.py`) | one task at a time, many tasks concurrently | `process_task` | facts read early, used late; evidence that expires; ambiguous commit |
| consequences (`consequences.py`) | reports | `compare_json`, `report_consequence`, `get_divergence_warnings`, `reevaluate_with_consequence` | replay, observation numbers, two readers of the same precedents, genealogy of evaluations, rounding and pointers of comparisons |
| evidence capture (`ccloud_tool.py`) | child process, tool evidence | `discover_preflight`, `bounded_process`, `build_capture`, `capture` | time and byte limits over two streams while reaping the child |
| Lambda (`lambda/handler.py`) | secret cache, `os.environ`, globals of the agent, two locks | `lambda_handler` with health, demo and direct requests | a secret placed in the environment around each request, without a lock; globals replaced under one |
| configuration, embeddings, records | none | parse, one remote call, dataclasses | nothing concurrent |
| deployment and release scripts | external | one-shot operator tools | not part of the running system |

Interactions: the components call each other as Python functions inside one
process, but several processes (Lambda instances, CLI invocations) run at once
and meet only in the database.  A decision refers to the evaluation it was
taken on, an execution receipt to the decision, a consequence report to the
receipt, a re-evaluation to the evaluation it follows and to the consequences
of similar proposals.  The digests stored with each row bind it to the rows it
refers to; the models treat a digest as the identity of what it digests.

What makes each part correct, in short: a decision settles at most once and its
receipt tells the truth; the effects of a key form one chain; a decision rests
on the evaluation the human saw, and on the latest one; an exclusion exists
exactly with the rejection that asked for it; the gate's verdict is total and
its rules keep their precedence; a task that reports persistence was persisted
on fresh evidence; a consequence is recorded once per observation, rests on an
observed effect and stays within reach of later evaluations; evidence is the
whole output of a command that ended well; and requests that share a process
never use each other's memory or a second secret.

## Modules

| module | kind | models |
|---|---|---|
| `Execution` | abstract specification | what the demo executor promises: an approved decision settles once, atomically, for good; effects of a key form a chain |
| `Executor` | component | `executor.py`, `_retry` of `memory.py`, tables `demo_kv`, `execution_attempts`, `execution_receipts` |
| `MCExecutor`, `Executor*.cfg` | model checking | two callers, three decisions, two keys |
| `ExecutorProofs` | proofs | types, four invariants, refinement of `Execution`, how long a call can run |
| `Adjudication` | abstract specification | what review promises: one settlement per proposal, on one of its evaluations, excluded only together with its rejection |
| `Review` | component | evaluation appends of `memory.py`, `DeciderMemory` of `cli.py`, `reevaluate_with_consequence` of `consequences.py` |
| `MCReview`, `Review*.cfg` | model checking | two humans, two operators, one proposal |
| `ReviewProofs` | proofs | types, four invariants, refinement of `Adjudication` |
| `Agent` | component | `process_task` of `agent.py` and the evidence operations of `memory.py` |
| `MCAgent`, `Agent*.cfg` | model checking | two tasks, evidence that expires |
| `AgentProofs` | proofs | types, two invariants, an action property, how long a task can run |
| `Gate` | component | `evaluate_proposal` of `governance.py`, evaluated again as `reevaluate_with_consequence` does |
| `MCGate`, `Gate.cfg` | model checking | values around both thresholds, two classes, one capability and dependency in every state |
| `GateProofs` | proofs | types, three invariants: totality, explained changes, monotonicity |
| `Divergence` | pure algorithm | `compare_json` of `consequences.py`: leaves, pointers, mean and rounding |
| `Consequences` | composition | `report_consequence`, `get_divergence_warnings`, `reevaluate_with_consequence`, `search_precedents`, over the proposals, decisions and receipts they read |
| `MCConsequences`, `Consequences.cfg` | model checking | four proposals, three of them of one task; objects and numbers to compare |
| `DivergenceProofs` | proofs | pointers and scores of every comparison, and the lemmas on recursion and sequences they need |
| `ConsequencesProofs` | proofs | types, six invariants, an action property, refinement of what it takes of `Adjudication` and `Execution` |
| `Lambda`, `Lambda.cfg` | component | threads of one process of `lambda/handler.py` |
| `LambdaProofs` | proofs | types, four invariants, absence of gridlock, how long a request can run |
| `Capture`, `Capture*.cfg` | component | `bounded_process`, `build_capture`, `capture` of `ccloud_tool.py`, and the child |
| `CaptureProofs` | proofs | types, two invariants, how long the adapter can run |

Three conventions hold in all of them.  A serializable transaction takes
effect in one step, at its commit; where the code depends on something it
read earlier, outside that transaction, the read is a step of its own.
Database time (`now()`, `transaction_timestamp()`) is the time a transaction
*began*, so the modules that compare times have a step for the begin as well.
A connection may fail at any point; after a COMMIT was sent the caller may see
a failure although the commit was applied.

### Executor

`decisions`, `effects` and `receipts` are the tables (`Decide` adds to the first
what the decider CLI would); each caller has a program
counter `pc`, its command `cmd`, the attempts `tries` of its current `_retry`,
the newest effect `head` its transaction read and its last `reply`.  `Invoke`
enters `execute_demo_and_record`; `Lookup` is the reads of `_execute`, with
`Answers` its comparison of a replayed receipt; `InsertEffect`, `InsertFails`, `CommitEffect` its writes; a failed or uncertain
attempt goes on to `RecoverLookup` and `CommitError`, the transaction of
`_append_error`.  `SerializationFailure` repeats a transaction within the
budget of `_retry`, `Abandon` is the death of the process.  Optimistic reads
appear as the guards `EffectReadsHold` and `ErrorReadsHold`: a transaction
whose reads were overtaken cannot commit.  Digests stand for what they digest,
attempts (one per receipt, written with it) are folded into their receipt.

### Review

`evaluations`, `decisions`, `exclusions` are the tables.  An evaluation has
`id`, its place in the order of commits, and `at`, its `created_at`.  An
operator opens a transaction (`BeginReevaluation`), and its whole body, reads,
gate and append, is `CommitReevaluation`; `AbandonReevaluation` stands for
every way it ends without writing, a 40001 failure (then it may begin again)
included.  A human's `Call` is followed by `CheckEvaluation`
(`exact_evaluation`, committed on its own) and by one of `Replay`,
`RefuseSecond`, `AppendDecision`, the three branches of the second
transaction.  `decided_by` and `rationale` are compared and stored exactly like
the decision's value, which stands for them.  The models let the runtime take
`SELECT ... FOR UPDATE`, which `schema/roles.sql` must permit for
re-evaluation to work at all.

### Agent

`evidence`, `proposals` and `excludedAt` are the tables.  A task passes
`Start`, `Capture`, `AppendEvidence`, `Generate`, `Evaluate` and then
`BeginPersist`/`CommitPersist` under `_retry`; each stage may instead end in
the `AgentBlockedResult` of that stage.  One clock stands for the clock of the
process and of the database.  The gate is reduced to what this module needs:
an exclusion of the very target rules out `YES`; `YES` stands for the three
verdicts an exclusion forbids; a `BlockedResult` cannot be stored
(`_validate_evaluation_binding` compares a profile it does not have), so
`AgentGateBlockedResult` is never returned.

### Gate

A snapshot is a record of sets: policy rules, exclusions (by class), precedents
with their reports, kinds of evidence, capability facts and dependencies.  What
`_canonical_snapshot` sorts is a set, an exact class key (action type and
target) is a value, a digest reproduces.  `Near`, `Qualifying`, `Approved`,
`More` and their neighbours are what the checks compute; `R1`, `R2` and `R3`
are the lists `raw_r1`, `raw_r2`, `raw_r3`; `Verdict` is the reducer with `NONE`
for the `else` that stops with `REDUCER_NON_TOTAL`, and `Earned` the conditions
of R4, which the code does not derive from the lists but states again.
`Projection` is `_fact_projection` and `_because_projection`, `Changed` is
`_changed_fact_ids`, `Error` the order in which the stops are reached.  Each
predicate of R2 comes with its own gaps, so `Gaps` is the set of predicates.
Snapshots are well formed, as `finalize_snapshot` leaves them: its callers in
`agent.py` and `consequences.py` build no others.

The operators are put to use by a proposal that is evaluated and evaluated
again, each time with its latest FINALIZED evaluation as the prior
(`Latest`) and with one kind of fact changed (`Reevaluate`); a changed policy
is among them, and blocks.  The agent of this repository passes an empty
policy, under which F02 is unresolved and the verdict is NO or MAYBE; the model
takes every policy `PolicyInput` can carry.

### Consequences and Divergence

`Consequences` puts the life of a proposal together: `Draft` and
`AppendProposal` (the agent), `Decide` (the human), `Execute` (the executor),
`Report` and `Reevaluate`.  Of review and execution it takes what
`Adjudication` and `Execution` promise, one decision for a proposal and one
outcome for a decision (two theorems say so), and leaves their races to
`Review` and `Executor`.  `Searches` is what the
`ORDER BY embedding <=> $1 LIMIT 5` of `search_precedents` may return, which
counts proposals, and `Precedents` all evaluations of these proposals but the
current one, which may be more.  Proposals of one task have one embedding (the
agent embeds the text of the task alone), so they tie, and of those that tie for
the last places the database may return any: each search chooses one member of
`Searches`, and from six proposals of a task on it may be one without the very
proposal that is evaluated.  `CREATE VECTOR INDEX` of the schema is taken to
find what the `ORDER BY` asks for; only `EvaluationsBounded` depends on it.  `Replay`, `RefuseReport`, `RejectReport` and
`AppendReport` are the ways through `report_consequence`, in its order: first
the key, then the receipt and its decision, then the constraint of the table.
`Warned` is what check F08 of the gate warns of, `QualifyingReports` and
`Warnings` what the warning query does.  `Draft` is a step of its own since
`process_task` reads its precedents before it stores.

`Divergence` walks two JSON values at once, as `_compare` does: `LeavesOf` are
the leaves of a pair of values, given those of the pairs they contain, and
`Leaves` the function that is recursive through it.  Each leaf has its path and
its exact fraction; `Pointer` renders and escapes a path, `Score` averages and
rounds half-even to six places.  An object's key is a sequence of code points,
among them those of `/`, `~`, `0` and `1` that escaping is about; the numeral of
an array index is one symbol beyond the code points, since all that matters of
it is that it contains neither `/` nor `~` and that it differs from the
other numerals.  A number is a numerator over the constant `Scale`, a common
denominator of the decimals that occur; the scores of leaves are exact
fractions, which the code computes in the 28 digits of a `Decimal`.  An array and an object are never compared item by item, so that
a numeral need not differ from a key.  `Depth` says of a value how deep it nests.

### Lambda

`secretCache`, `env` and `agentMemory` are what threads share, `secretLock` and
`agentLock` the owners of the two locks, `pc` and `call` the point a thread has
reached and the locals of its request.  A direct request takes `_AGENT_LOCK`
first (`AcquireAgent`), then every request goes through `LoadSecret`,
`FetchSecret`, `Save`, `Export`, `Open`, its operation, `Close` and `Restore`;
the operation is a query or, between `Swap` and `GiveBack`, a task in which
the environment is read twice.  Exceptions go the way of the `finally` clauses.
`rows` are the evaluations of the demo profile; a re-evaluation keeps the
profile of its prior and so adds to them.  The handler is written for
threads (it has two locks); a process that serves one request at a time is the
special case of one thread.

### Capture

The child (`child`, `status`, `open`, `written`) and the clock move on their own:
it writes, closes its streams and exits in any order, and a descendant may hold
a stream after it.  `registered`, `ready` and `got` are the selector, the
keys its last `select` returned and what was read.  `Select`, `Read`, `GiveUp`,
`Drained`, `Wait` and `WaitExpires` are `bounded_process` with `_read_ready`;
`Describe` is the normalisation and the binding to the target in
`build_capture`, `Insert` and `ReadBack` the row that the purpose
*closure* adds and the digest it compares before it answers.

## What the runs check

| run | shows | size |
|---|---|---|
| `executor` | `ReceiptTruth`, `EffectChain`, `ObservedIsFinal`, `ReplyHonest` under races, failures, lost acknowledgements, crashes; `Implements` (Execution); `CallReturns` | 2 callers with different executor ids, 3 decisions (2 approved on one effect key, 1 rejected), 2 keys |
| `review` | `ReplyHonest`, `Rooted`, `NeverWedged`, `CheckedIsCurrent`, `Implements` (Adjudication) | 2 humans, 2 operators, 1 proposal, 2 keys, 5 ticks, decisions that exclude |
| `agent_tasks` | `ExclusionsBite`, `ReportHonest`, `CaptureOrder`, `TaskReturns` | 2 tasks, 1 target, evidence lives 2 ticks, 4 ticks, 1 retry |
| `gate_reducer` | `ReducerTotal`, `ChangeExplained`, `HarmNeverHelps` | 4 policies, 8 sets of precedents, 2 × 2 × 5 × 4 other facts; at most 2 precedents (`TopK`) and 13 trace steps (`MaxTrace`) |
| `consequences` | `ReportsBound`, `ReplyHonest`, `RetrySettles`, `WarningsAgree`, `StaysReachable`, `EvaluationsBounded`, `ComparisonSound` | 4 proposals, 3 of them tied, search and gate limited to 2, warnings to 1, 2 keys, 5 evaluations, outcomes with halves and ones of either sign and keys with `/` and `~` |
| `lambda` | `OwnMemory`, `SecretInPlace`, `OneSecret`, `DemoAgrees`, `RequestAnswered` | 2 threads, 4 requests, 2 secrets, 2 evaluations of the profile |
| `capture` | `ChildReaped`, `EvidenceSound`, `CaptureReturns` | output limit 3 units, at most 2 per read, 3 written to each stream, deadline 2 ticks |

Each of these also checks its `TypeOK`.  The bounds are the
smallest in which the interesting cases occur: two callers race for one
decision while a third row is there to be confused with it; two crossing
re-evaluations need four ticks to begin and commit after the first evaluation;
two tasks meet the evidence the other one,
failed or not, left behind, and four ticks let that evidence expire.  The gate's
similarities and divergences lie below, at and above their thresholds, and its
limits are one less than the largest snapshot, so that each is exceeded.  Three
tied proposals are one more than the search returns, as six are in the code, whose
two limits are equal like those of the runs, so that a search may miss the
proposal itself; a fourth, which is near, takes part in the order.  Of five
evaluations one proposal can have four, one more than the bound of
`EvaluationsBounded`, next to the proposal whose consequence is named.
Decisions are approvals there, since others end what
the module follows, and are the subject of `review`.  The command line only ever reports observation 1, so one
number is enough, and both keys can be used for two receipts or for one.  Four requests let
two threads overlap twice, so that what one overlap leaves behind meets the
next, in two rotations of the secret.  The output of the child may stay below, reach
and pass the limit, in one stream or over both, in reads that are
split.  The retry
bounds are 1 or 2, so that both a retry and its exhaustion happen.  Humans,
operators and keys are interchangeable, and the runs `review` and `consequences` use
that symmetry, the latter also that of the three like proposals; the runs that check liveness do not.

Five runs end in a violation, because the code departs from what its own
messages and comments say:

| run | property | what happens |
|---|---|---|
| `executor_twin_receipts` | `OneReceiptPerDecision` | two failed commands with different keys leave two ERROR receipts of one decision; `_execute` refuses that decision as ambiguous ever after |
| `review_superseded` | `DecidesOnLatest` | a re-evaluation commits between `exact_evaluation` and the decision's transaction |
| `review_fork` | `Linear` | latest means newest `created_at`, the begin of a transaction; a re-evaluation that began early and committed late is hidden, and its prior is continued twice (2 operators, up to 9 ticks) |
| `agent_lost_ack` | `NotCommitted` | a proposal whose acknowledgement was lost is reported as not committed |
| `capture_bounded` | `CommandEnded` | a child closes both streams and stays; `process.wait` raises `TimeoutExpired`, which is not caught, and the command outlives the adapter |

The positive properties say what holds nevertheless: a decision rests on an
evaluation that was current when the human called (`CheckedIsCurrent`), a
forked genealogy still has one root (`Rooted`), a repeated command never
changes what is stored (`Implements`, `ReplyHonest`), a task that reports
success has stored its proposal (`ReportHonest`), and a capture that answers in
an orderly way leaves no child (`ChildReaped`).

What the models show besides, without a claim of the code that it contradicts:

- Overlapping requests of one process do restore each other's environment: the
  secret may be gone while a request still works, which then fails, or stay
  behind in an idle process.  `SecretInPlace` speaks of the requests and
  histories without overlap; `OneSecret` bounds the damage of the others, for
  no request ever works with a different secret.
- A re-evaluation's search leaves out only the evaluation it continues, so the
  earlier evaluations of the proposal are its precedents, count for the limit
  and warn with their consequences: re-evaluation wears itself out.
  `EvaluationsBounded` says that a proposal has six evaluations at most before
  `PRECEDENT_LIMIT_EXCEEDED` blocks it for good; those of similar proposals
  may block it earlier.  Where more proposals are of one task than the search
  returns, a search may miss the proposal, and then its own evaluations do not
  count; that is why the property speaks of the proposals for which `FewAlike` holds.
- For the same reason two searches for one proposal may find different
  precedents.  `WarningsAgree` compares what the gate and the warning query make
  of the same search; after a tie they may warn of different reports.
- Once the demo profile was re-evaluated, the demo route answers
  `DIGEST_MISMATCH`; that is why `DemoAgrees` holds.

### Fairness

The runs `review`, `gate_reducer`, `consequences` and those that end in a violation
use `Spec` without fairness.  `executor` and `agent_tasks` add weak fairness of the steps of each *running* call: the
event loop keeps scheduling a coroutine that can run, database commands end
within the pool's `command_timeout`, the model client and the evidence child
process have their own timeouts, and the only loops are the retry loops, which
count.  Nothing is assumed about new calls, about commits succeeding, or about
the clock.  `lambda` adds weak fairness of the steps of each thread, for the same
reasons; that a waiting thread gets its lock needs no more, since each other thread
lets go of it and the number of requests is bounded.  `capture` assumes that
the adapter runs and that time passes, and nothing of the child: that is what
its deadline is for.  Runs with `CHECK_DEADLOCK FALSE` are those that
come to an end: all tasks, requests or reports are done, or the counter that
bounds them is used up.

## What is proved

The proofs hold for any number of callers, humans, operators, tasks, keys,
proposals and targets, and any bounds; they assume only the named `ASSUME` of
each module: numbers are naturals, placeholders are distinct from the values
they stand beside; in `Consequences`, the shape of what is compared, with
nothing said of similarities but that they are numbers; in `Divergence`, that numbers have a
common denominator and JSON values are finite and contain JSON values that nest
less deep.  `tlapm` checks every leaf with SMT, Zenon and PTL.

*Executor.*  None of the table invariants is inductive alone: a new OBSERVED
receipt stays the only one because no effect is without its receipt, and a new
effect extends a chain only if the chain has one end.  `TableInv` is their
conjunction with `TypeOK`, and it is inductive.  A stored reply stays true because receipts only grow and an
ERROR receipt is written only where no effect is and can be.  For the
refinement, `AuthorityHeld` says that a caller in the middle of its
transaction acts for an approved decision.  Each commit is one abstract step,
everything else a stutter.  `CallsNearTheirEnd` counts the steps a call has left:
three for each attempt of the effect transaction, two for each attempt of the
ERROR transaction that may follow it, 5 `MaxAttempts` in all.  Every step of the
call lowers the count, a serialization failure because it uses up an attempt, and
no other caller raises it.

*Review.*  `ReviewInv` adds to the properties that a decision is unique by key
and by proposal, that an exclusion belongs to a stored decision, that stored
evaluations are FINALIZED with distinct ids not beyond `tick`, and that a call
in progress is admissible (it does not exclude without rejecting).
`NeverWedged` follows since no BLOCKED row is ever stored.  `CheckedIsCurrent`
is inductive because a new evaluation commits after every earlier call.

*Agent.*  `AgentInv` says that nothing lies in the future, captures have
distinct times, a stored proposal is its task's last act on evidence that is
stored, and a target judged YES was not excluded before the capture.  From it,
`ExclusionsBite` and `CaptureOrder` follow by comparing times: the evidence of
a stored proposal outlives any older evidence.  `TasksNearTheirEnd` counts
steps as for the executor.

*Gate.*  The state needs little (`Evaluated`: the result is the evaluation of
the two snapshots); the work is in facts about snapshots.  `NoHardStop`,
`NothingOpen` and `NothingConditional` say when each list is empty.  Totality:
if all are, the conditions of R4 hold (`NothingFiredIsEarned`).  Explained
changes: equal projections of F02 to F10 give equal emptiness of the lists
(`SameProjections`), hence equal verdict and risk.  Monotonicity: each
predicate of the milder snapshot has one at least as strong in the worse
(`HarmKeepsNo`, `HarmKeepsMaybe`, `HarmKeepsIff`); it needs that a FINALIZED
prior has no capability twice.

*Consequences.*  `ReportsBound` needs the chain behind a report:
`DecisionsBound` (one decision for a proposal, on an evaluation of it),
`ReceiptsBound` (a receipt has an approved decision) and `ReportsUnique`.
`WarningsDoAgree` needs more of the state than of the two classifications: they
differ in what they ask for, an observed receipt there and an approved
decision here, and agree because every report has both.  `StaysReachable` follows from
the same chain, since precedents are all evaluations of a candidate.
`RetriesSettle` is an action property: with the key in the table, only
`Replay` is enabled, and keys are unique.  Scores are left uninterpreted there,
so these theorems hold whatever `Divergence` computes, and all but
`EvaluationsBounded` whatever a search returns.  `EvaluationsBounded` is about
cardinalities.  A search could only leave a proposal out for as many others that
are as similar as it has places, and there are fewer (`SearchFindsItself`).  So all
but the latest of its evaluations are its precedents, and one of another proposal
with them (`PrecedentsCounted`): the first re-evaluation names a consequence of
another one, which from then on is stored beside it, so that a search
with places for both finds one.  `WornInv` adds this to the bound and is inductive
together with the types and with `Fresh`: a draft is not stored yet.  `ComparisonSound` is
what `Divergence` gives for the values that were predicted and reported.
`ConsequencesRestOnAdjudication` and `ConsequencesRestOnExecution` show that
this module, seen through a refinement mapping, is a behaviour of the two
abstract specifications (evaluations are numbered in the order of their commits;
every proposal has an effect key of its own, as the effects of one key are no
matter of this module).  `Review` and `Executor` implement the same
specifications, so that what the composition relies on is what they promise.

*Divergence.*  `LeavesHavePointers` and `ScoresWithinUnit` hold for every pair
of JSON values.  The library's induction theorems cannot be used
(they are about operators), so induction is over sets: a set that contains whatever
its members of lower rank lead to contains everything (`RankInduction`), and a function that is defined at a rank
from the lower ranks exists because it exists up to every rank (`Recursion`).
With this, `Leaves` and the `FlattenSeq` of the community modules are shown to
satisfy their defining equations.  Escaping a key is injective since a
tilde of the result begins a pair that tells which character it stands
for, and a rendered path is cut at its last slash, which no escaped
component contains; hence `PointerInjective`.  Different items of a container
have different names, so different leaves have different paths.  The sum over a
finite set lies between zero and the number of leaves (`TotalFacts`), and
rounding half-even keeps the mean between zero and one (`HalfEvenFacts`); leaves
of equal values all score zero (`EqualLeaves`).

*Lambda.*  `Held` says that the lock is held from before `Swap` until after
`GiveBack`, so what a request remembers of the globals is what was there first;
`Cached` that the cache is filled once, under its lock, and that every binding
and every saved value comes from it; `Alone` that a request nobody disturbed is
alone between export and restore, and that as long as no two overlapped the
saved value is none; `First` that the first evaluation of the profile stays.
Their conjunction with the types is inductive.  `Owned` says which requests hold
which lock: a thread that waits for the secret lock may hold the other one,
never the other way round, so that among running requests one does not wait
(`NeverGridlocked`).  `Ways` lists from where a request may go where; it has no
cycle, and `RequestsNearTheirAnswer` follows: at most 13 steps lead to the
answer, through every `finally` clause.

*Capture.*  `Streams` says that a stream the selector has forgotten is
closed and read to its end, and that until the adapter is done the total is
within the limit; that a read may take one unit more than the limit is what
tells an output of exactly the limit from one that is cut.  `Children` says which
child there is at each point.  The properties themselves are conjuncts of
`IInv`, since what is captured must still hold when the world moves on: after
both streams are closed nobody can write.  `CaptureNearsItsAnswer` bounds the
adapter by what it reads instead of by its clock: a stream that `select` returned
either brings output, of which `MaxOutput + 1` units are too much, or is at its
end and is forgotten.

Only model-checked: `CallReturns`, `TaskReturns`, `RequestAnswered` and
`CaptureReturns`, for liveness under fairness is outside the prover; and that
the violations above are reachable.  Of these four, the theorems above prove the
half that is a safety property: each step brings the call, task, request or
capture nearer to its end, and nothing sends it back.  What is left to TLC is that there always
is such a step.

## Not modelled, and what is left

- `discover_preflight` of `ccloud_tool.py` runs the same bounded process twice,
  offline, to write the version artifact that `Capture` takes as part of its
  document.  The redaction guard on evidence is a pure filter of text.
- `dependency_facts` has an operation in `memory.py` but no caller in the
  program; the models take the dependencies of a snapshot as given.
- The limits of the connection pool, and the lazy `_get_pool`, which two
  concurrent first operations may run twice.
- A composition of `Agent`, `Review` and `Executor` over shared tables: the
  digests each stage checks are what binds the stages, and `Consequences`
  composes their abstractions instead.
- Canonical JSON, digests and step identities (`traces.py`): formatting, treated
  as injective everywhere.
- Configuration parsing, the embedding call, frozen records, role grants,
  deployment, release and license scripts, and documentation keep no state that
  interacts with the rest, and stay unmodelled.
