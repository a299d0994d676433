------------------------------- MODULE Capture -------------------------------
(***************************************************************************)
(* One capture of cluster evidence (src/src/ccloud_tool.py): build_capture *)
(* with the bounded child process it runs, and the row that the closure    *)
(* capture persists.                                                       *)
(*                                                                         *)
(* The adapter talks to a child over two pipes while a clock runs.  The    *)
(* child writes, closes its streams and exits in any order; a descendant   *)
(* may hold a pipe open after it.  The adapter selects, reads, and gives   *)
(* up at its deadline or when the output is too long.                      *)
(*                                                                         *)
(* Abstractions.  Output is counted in units; what it says is fixed when   *)
(* the capture begins.  kill() with wait() is one step: a killed child     *)
(* dies.  "blocked" stands for EvidenceBlocked and for the OSError and     *)
(* PostgresError that main answers in the same way; "raised" for           *)
(* exceptions that only the caller of capture(purpose="runtime") catches.  *)
(***************************************************************************)
EXTENDS FiniteSetsExt, Naturals

CONSTANTS
  MaxOutput,     \* MAX_OUTPUT_BYTES, in units
  MaxChunk,      \* most that one os.read returns, in units
  Timeout,       \* COMMAND_TIMEOUT_SECONDS, in ticks
  MaxWritten     \* bound: units the child writes to a stream

ASSUME CaptureAssumption ==
  /\ MaxOutput \in Nat \ {0} /\ MaxChunk \in Nat \ {0} /\ Timeout \in Nat \ {0}
  /\ MaxWritten \in Nat

VARIABLES
  purpose,      \* "runtime" or "closure"
  document,     \* what the command says of the cluster
  clock,        \* time since the command was started
  child,        \* the child process
  status,       \* its exit status
  open,         \* streams some process can still write to
  written,      \* units written to each stream
  registered,   \* streams the selector knows
  ready,        \* streams the last select found readable, and not read yet
  got,          \* units read from each stream
  pc,           \* what the adapter does next
  answer,       \* what it answered
  stored        \* whether the row is in tool_evidence

world == <<clock, child, status, open, written>>
adapter == <<registered, ready, got>>
vars == <<purpose, document, world, adapter, pc, answer, stored>>

-----------------------------------------------------------------------------
(* State *)

Stream == {"stdout", "stderr"}

\* Whether the fields have the bound shape and values but for the plan, the
\* plan on the wire and that of the version artifact, and whether the versions
\* are those in which the legacy plan is known.
Document == [bound : BOOLEAN, plan : {"BASIC", "SERVERLESS", "OTHER"},
             expected : {"BASIC", "SERVERLESS"}, compatible : BOOLEAN]

Init ==
  /\ purpose \in {"runtime", "closure"}
  /\ document \in Document
  /\ clock = 0 /\ child = "none" /\ status = 0
  /\ open = {} /\ written = [s \in Stream |-> 0]
  /\ registered = {} /\ ready = {} /\ got = [s \in Stream |-> 0]
  /\ pc = "idle" /\ answer = "none" /\ stored = FALSE

Total == got["stdout"] + got["stderr"]
Unread(s) == written[s] - got[s]

\* A read of the stream would not block.
Readable(s) == Unread(s) > 0 \/ s \notin open

Answer(value) == pc' = "done" /\ answer' = value
Go(step) == pc' = step /\ UNCHANGED answer

-----------------------------------------------------------------------------
(* The world *)

Tick ==
  /\ child # "none" /\ clock < Timeout
  /\ clock' = clock + 1
  /\ UNCHANGED <<purpose, document, child, status, open, written, adapter, pc, answer, stored>>

Write(s) ==
  /\ s \in open /\ written[s] < MaxWritten
  /\ written' = [written EXCEPT ![s] = @ + 1]
  /\ UNCHANGED <<purpose, document, clock, child, status, open, adapter, pc, answer, stored>>

CloseStream(s) ==
  /\ s \in open
  /\ open' = open \ {s}
  /\ UNCHANGED <<purpose, document, clock, child, status, written, adapter, pc, answer, stored>>

Exit ==
  /\ child = "running"
  /\ child' = "exited"
  /\ status' \in {0, 1}
  /\ UNCHANGED <<purpose, document, clock, open, written, adapter, pc, answer, stored>>

-----------------------------------------------------------------------------
(* bounded_process *)

\* Bindings of the environment and the artifact, then Popen.
Spawn ==
  /\ pc = "idle"
  /\ \/ /\ child' = "running" /\ open' = Stream /\ registered' = Stream
        /\ Go("select")
     \/ /\ Answer("blocked")
        /\ UNCHANGED <<child, open, registered>>
  /\ UNCHANGED <<purpose, document, clock, status, written, ready, got, stored>>

\* Mutant: an exception of _read_ready is not caught.
BlockLeaving ==
  /\ Answer("blocked")
  /\ UNCHANGED child

\* The except clause: a child that was not waited for is killed and reaped.
Block ==
  /\ Answer("blocked")
  /\ child' = "reaped"

Select ==
  /\ pc = "select" /\ ready = {} /\ registered # {}
  /\ clock < Timeout
  /\ ready' = {s \in registered : Readable(s)}
  /\ UNCHANGED <<purpose, document, world, registered, got, pc, answer, stored>>

\* Mutant: never more than the limit is read.
ReadSizeExact == Min({MaxChunk, MaxOutput - Total})

\* One unit past the limit is enough to tell that there is too much.
ReadSize == Min({MaxChunk, MaxOutput + 1 - Total})

\* Mutant: the keys of the last select are kept.
ReadAgain(s) ==
  /\ pc = "select" /\ s \in ready
  /\ LET size == Min({ReadSize, Unread(s)})
     IN /\ got' = [got EXCEPT ![s] = @ + size]
        /\ registered' = IF size = 0 THEN registered \ {s} ELSE registered
        /\ IF Total + size > MaxOutput THEN Block ELSE Go("select") /\ UNCHANGED child
  /\ UNCHANGED <<purpose, document, clock, status, open, written, ready, stored>>

\* _read_ready: an empty chunk is the end of the stream.
Read(s) ==
  /\ pc = "select" /\ s \in ready
  /\ ready' = ready \ {s}
  /\ LET size == Min({ReadSize, Unread(s)})
     IN /\ got' = [got EXCEPT ![s] = @ + size]
        /\ registered' = IF size = 0 THEN registered \ {s} ELSE registered
        /\ IF Total + size > MaxOutput THEN Block ELSE Go("select") /\ UNCHANGED child
  /\ UNCHANGED <<purpose, document, clock, status, open, written, stored>>

\* Mutant: the deadline is only looked at when the output ended.
GiveUpDrained ==
  /\ pc = "select" /\ ready = {} /\ registered = {}
  /\ clock >= Timeout
  /\ Block
  /\ UNCHANGED <<purpose, document, clock, status, open, written, adapter, stored>>

\* The deadline has passed, in the loop or right after it.
GiveUp ==
  /\ pc = "select" /\ ready = {}
  /\ clock >= Timeout
  /\ Block
  /\ UNCHANGED <<purpose, document, clock, status, open, written, adapter, stored>>

Drained ==
  /\ pc = "select" /\ ready = {} /\ registered = {}
  /\ clock < Timeout
  /\ Go("wait")
  /\ UNCHANGED <<purpose, document, world, adapter, stored>>

Wait ==
  /\ pc = "wait" /\ child = "exited"
  /\ child' = "reaped"
  /\ IF status = 0 THEN Go("document") ELSE Answer("blocked")
  /\ UNCHANGED <<purpose, document, clock, status, open, written, adapter, stored>>

\* process.wait(timeout=remaining) raises TimeoutExpired, which nothing here catches.
WaitExpires ==
  /\ pc = "wait" /\ clock >= Timeout
  /\ Answer("raised")
  /\ UNCHANGED <<purpose, document, world, adapter, stored>>

-----------------------------------------------------------------------------
(* Evidence *)

\* normalize_legacy_plan
Semantic(plan) ==
  IF plan = "SERVERLESS" /\ document.compatible THEN "BASIC" ELSE plan

\* normalize_cluster_document and _validate_target; target_plan is BASIC.
OnTarget ==
  /\ document.bound
  /\ document.plan = document.expected
  /\ Semantic(document.plan) = "BASIC"

\* The output becomes evidence, which capture() returns at once.
Describe ==
  /\ pc = "document"
  /\ \/ ~OnTarget /\ Answer("blocked")
     \/ OnTarget /\ purpose = "runtime" /\ Answer("captured")
     \/ OnTarget /\ purpose = "closure" /\ Go("persist")
  /\ UNCHANGED <<purpose, document, world, adapter, stored>>

\* _persist: ON CONFLICT DO NOTHING leaves out a row whose key is taken; the
\* connection may fail before or after the row is stored.
Insert ==
  /\ pc = "persist"
  /\ stored' \in BOOLEAN
  /\ Go("readback") \/ Answer("blocked")
  /\ UNCHANGED <<purpose, document, world, adapter>>

\* The digest that is returned, or else selected, is that of the row; the
\* SELECT or the close may fail.
ReadBack ==
  /\ pc = "readback"
  /\ (stored /\ Answer("captured")) \/ Answer("blocked")
  /\ UNCHANGED <<purpose, document, world, adapter, stored>>

-----------------------------------------------------------------------------

World == Tick \/ Exit \/ \E s \in Stream : Write(s) \/ CloseStream(s)

Proceed ==
  \/ Select \/ (\E s \in Stream : Read(s)) \/ GiveUp \/ Drained \/ Wait \/ WaitExpires
  \/ Describe \/ Insert \/ ReadBack

Next == Spawn \/ Proceed \/ World

Spec == Init /\ [][Next]_vars

\* The adapter runs, and time passes; of the child nothing is assumed.
FairSpec == Spec /\ WF_vars(Proceed) /\ WF_vars(Tick)

-----------------------------------------------------------------------------
(* Properties *)

\* The shape of the adapter's state and of its world.
TypeOK ==
  /\ purpose \in {"runtime", "closure"} /\ document \in Document
  /\ clock \in 0 .. Timeout
  /\ child \in {"none", "running", "exited", "reaped"} /\ status \in {0, 1}
  /\ open \subseteq Stream /\ written \in [Stream -> 0 .. MaxWritten]
  /\ ready \subseteq registered /\ registered \subseteq Stream
  /\ got \in [Stream -> Nat]
  /\ pc \in {"idle", "select", "wait", "document", "persist", "readback", "done"}
  /\ answer \in {"none", "captured", "blocked", "raised"}
  /\ stored \in BOOLEAN

\* No child outlives an orderly answer, on whichever of its paths the adapter
\* gave up: too much output, the deadline in or after the loop, a bad status
\* (ccloud_tool.py:212-230).
ChildReaped ==
  answer \in {"captured", "blocked"} => child \in {"none", "reaped"}

\* Evidence is all that was written, by whatever process, to both streams of a
\* child that ended well, on the bound target.
NothingCut ==
  stored \/ answer = "captured" =>
    /\ got = written /\ open = {}
    /\ Total <= MaxOutput
    /\ child = "reaped" /\ status = 0
    /\ OnTarget

\* The closure capture answers with a digest only if the row is there.
AnswerStored ==
  answer = "captured" /\ purpose = "closure" => stored

\* Evidence, reported or stored, rests on the whole output: nothing was cut off
\* at the limit and taken for the end; and evidence that a closure capture
\* reports is stored, whatever became of acknowledgements
\* (ccloud_tool.py:178-187, 237, 495-501).
EvidenceSound == NothingCut /\ AnswerStored

\* A capture is answered, whether the child writes, hangs or closes its
\* streams and stays (ccloud_tool.py:214-225).
CaptureReturns == pc # "idle" ~> pc = "done"

\* "Execute one bounded no-shell ccloud argument vector" (ccloud_tool.py:192):
\* when the adapter returns, however it does, the command has ended.
CommandEnded == pc = "done" => child # "running"
=============================================================================
