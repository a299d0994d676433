-------------------------------- MODULE Lambda --------------------------------
(***************************************************************************)
(* Threads of one process of the AWS Lambda boundary                       *)
(* (src/lambda/handler.py).  Each serves one request after another: public *)
(* health and demo reads, and direct requests that run process_task of     *)
(* src/src/agent.py.                                                       *)
(*                                                                         *)
(* Three things are shared by the threads: the secret, read once under     *)
(* _SECRET_LOCK; os.environ, into which each request exports the secret    *)
(* around its work; and the globals _MEMORY and _CAPTURE of the agent,     *)
(* which a direct request replaces under _AGENT_LOCK.                      *)
(*                                                                         *)
(* Abstractions.  The two variables of the secret are exported and         *)
(* restored together; DATABASE_URL_APP differs from the secret by the TLS  *)
(* root only.  _MEMORY and _CAPTURE are swapped together.  The pool of a   *)
(* request is its AppMemory.  What process_task does with its memory is    *)
(* the subject of module Agent: here it reads the key twice, for the       *)
(* embedding and for the model, and uses the global memory around each.    *)
(***************************************************************************)
EXTENDS FiniteSets, Naturals

CONSTANTS
  Thread,        \* threads of the process
  Secret,        \* values Secrets Manager may return, as the secret is rotated
  MaxRequests,   \* bound: requests in all
  MaxRows,       \* bound: evaluations of the demo profile
  Absent,        \* no value: no secret, no variable, no owner
  Original       \* the memory the agent module was loaded with

\* The values that stand for nothing are none of the others.
ASSUME LambdaAssumption ==
  /\ Absent \notin Secret \cup Thread
  /\ Original \notin Thread \cup {Absent}
  /\ MaxRequests \in Nat /\ MaxRows \in Nat

VARIABLES
  secretCache,   \* _SECRET_CACHE
  secretLock,    \* owner of _SECRET_LOCK
  agentLock,     \* owner of _AGENT_LOCK
  env,           \* the secret's variables in os.environ
  agentMemory,   \* agent._MEMORY, known by the thread whose request made it
  rows,          \* FINALIZED evaluations of the demo profile
  pc,            \* what each thread does next
  call,          \* the locals of the request it serves
  requests,      \* how many requests were started
  shown,         \* history: evaluations that demo requests answered with
  overlapped     \* history: two requests have had the secret exported at once

process == <<secretCache, secretLock, agentLock, env, agentMemory>>
history == <<shown, overlapped>>
vars == <<process, rows, pc, call, requests, history>>

-----------------------------------------------------------------------------
(* State *)

\* Rows that no operation of this code appended may fail the digest checks.
Row == [id : 1 .. MaxRows, verified : BOOLEAN]

Result == {"none", "unavailable", "ok", "not_ready", "mismatch", "blocked", "persisted"}

\* bindings and previous of _with_secret_environment, old_memory of _agent_call,
\* and whether another request had the secret exported at the same time.
Call == [kind : {"none", "health", "demo", "direct"},
         binding : Secret \cup {Absent}, previous : Secret \cup {Absent},
         oldMemory : Thread \cup {Original, Absent},
         result : Result, disturbed : BOOLEAN]

NoCall == [kind |-> "none", binding |-> Absent, previous |-> Absent,
           oldMemory |-> Absent, result |-> "none", disturbed |-> FALSE]

\* From the export of the secret to its removal.
Exporting == {"export", "open", "query", "swap", "embed", "draft", "give_back",
              "close", "restore"}

\* The operation of _with_secret_environment.
Working == Exporting \ {"export", "restore"}

\* The agent's globals are those of the request.
Swapped == {"embed", "draft", "give_back"}

Inside == {t \in Thread : pc[t] \in Exporting}

IsDirect(t) == call[t].kind = "direct"

Init ==
  /\ secretCache = Absent /\ secretLock = Absent /\ agentLock = Absent
  /\ env = Absent
  /\ agentMemory = Original
  /\ rows \in {{}} \cup {{r} : r \in {q \in Row : q.id = 1}}
  /\ pc = [t \in Thread |-> "idle"]
  /\ call = [t \in Thread |-> NoCall]
  /\ requests = 0
  /\ shown = {} /\ overlapped = FALSE

Go(t, step) == pc' = [pc EXCEPT ![t] = step]
Decide(t, result) == call' = [call EXCEPT ![t].result = result]

\* A request is answered, and its locals go.
Answer(t) ==
  /\ Go(t, "idle")
  /\ call' = [call EXCEPT ![t] = NoCall]

\* Where a request goes when _with_secret_environment is left with its result.
Leave(t, result) ==
  IF IsDirect(t) THEN Go(t, "release") /\ Decide(t, result) ELSE Answer(t)

-----------------------------------------------------------------------------
(* _public and _direct up to the secret *)

\* A request whose envelope, size, method, route, filters and fields are as
\* they must be; all others are rejected at once.
Start(t) ==
  /\ pc[t] = "idle"
  /\ requests < MaxRequests
  /\ requests' = requests + 1
  /\ \E k \in {"health", "demo", "direct"} :
       /\ call' = [call EXCEPT ![t].kind = k]
       /\ Go(t, IF k = "direct" THEN "lock" ELSE "load")
  /\ UNCHANGED <<process, rows, history>>

\* Mutant: no _AGENT_LOCK.
AcquireAgentAnyway(t) ==
  /\ pc[t] = "lock"
  /\ Go(t, "load")
  /\ UNCHANGED <<process, rows, call, requests, history>>

AcquireAgent(t) ==
  /\ pc[t] = "lock"
  /\ agentLock = Absent
  /\ agentLock' = t
  /\ Go(t, "load")
  /\ UNCHANGED <<secretCache, secretLock, env, agentMemory, rows, call, requests, history>>

\* Mutant: the cache is looked at without _SECRET_LOCK.
LoadSecretUnlocked(t) ==
  /\ pc[t] = "load"
  /\ IF secretCache = Absent
     THEN Go(t, "fetch") /\ UNCHANGED call
     ELSE Go(t, "bind") /\ call' = [call EXCEPT ![t].binding = secretCache]
  /\ UNCHANGED <<process, rows, requests, history>>

\* _load_secret takes the lock; a cached secret is returned at once.
LoadSecret(t) ==
  /\ pc[t] = "load"
  /\ secretLock = Absent
  /\ IF secretCache = Absent
     THEN /\ secretLock' = t
          /\ Go(t, "fetch")
          /\ UNCHANGED call
     ELSE /\ call' = [call EXCEPT ![t].binding = secretCache]
          /\ Go(t, "bind")
          /\ UNCHANGED secretLock
  /\ UNCHANGED <<secretCache, agentLock, env, agentMemory, rows, requests, history>>

\* Mutant: what was returned is cached before it is checked.
FetchSecretUnchecked(t) ==
  /\ pc[t] = "fetch"
  /\ secretLock' = Absent
  /\ \E s \in Secret \cup {"malformed"} :
       /\ secretCache' = s
       /\ IF s \in Secret THEN /\ call' = [call EXCEPT ![t].binding = s]
                               /\ Go(t, "bind")
          ELSE Leave(t, "unavailable")
  /\ UNCHANGED <<agentLock, env, agentMemory, rows, requests, history>>

\* get_secret_value, and the checks of what it returned.
FetchSecret(t) ==
  /\ pc[t] = "fetch"
  /\ secretLock' = Absent
  /\ \/ /\ \E s \in Secret : /\ secretCache' = s
                             /\ call' = [call EXCEPT ![t].binding = s]
        /\ Go(t, "bind")
     \/ /\ Leave(t, "unavailable")
        /\ UNCHANGED secretCache
  /\ UNCHANGED <<agentLock, env, agentMemory, rows, requests, history>>

-----------------------------------------------------------------------------
(* _with_secret_environment *)

\* The variables are saved.
Save(t) ==
  /\ pc[t] = "bind"
  /\ call' = [q \in Thread |->
                IF q = t THEN [call[t] EXCEPT !.previous = env,
                                              !.disturbed = Inside # {}]
                ELSE [call[q] EXCEPT !.disturbed = @ \/ q \in Inside]]
  /\ overlapped' = (overlapped \/ Inside # {})
  /\ Go(t, "export")
  /\ UNCHANGED <<process, rows, requests, shown>>

\* _database_url_with_root fails.
RefuseRoot(t) ==
  /\ pc[t] = "bind"
  /\ Leave(t, "unavailable")
  /\ UNCHANGED <<process, rows, requests, history>>

Export(t) ==
  /\ pc[t] = "export"
  /\ env' = call[t].binding
  /\ Go(t, "open")
  /\ UNCHANGED <<secretCache, secretLock, agentLock, agentMemory, rows, call, requests,
                 history>>

\* Mutant: what was not set before is left behind.
RestoredIfSet(t) == IF call[t].previous = Absent THEN env ELSE call[t].previous

\* What the finally clause leaves in the environment.
Restored(t) == call[t].previous

Restore(t) ==
  /\ pc[t] = "restore"
  /\ env' = Restored(t)
  /\ Leave(t, call[t].result)
  /\ UNCHANGED <<secretCache, secretLock, agentLock, agentMemory, rows, requests, history>>

-----------------------------------------------------------------------------
(* The operation *)

\* The pool is opened with the variable as it is now; a direct request reads
\* its evidence through it.
Open(t) ==
  /\ pc[t] = "open"
  /\ \/ /\ env # Absent
        /\ Go(t, IF IsDirect(t) THEN "swap" ELSE "query")
        /\ UNCHANGED call
     \/ Go(t, "close") /\ Decide(t, "unavailable")
  /\ UNCHANGED <<process, rows, requests, history>>

\* _health: SELECT 1
QueryHealth(t) ==
  /\ pc[t] = "query" /\ call[t].kind = "health"
  /\ Decide(t, "ok") \/ Decide(t, "unavailable")
  /\ Go(t, "close")
  /\ UNCHANGED <<process, rows, requests, history>>

\* Mutant: LIMIT 1, whichever row comes first.
SoleOfFirst(e) == e \in rows

\* The one row of the profile.
Sole(e) == rows = {e}

\* _demo: ORDER BY id LIMIT 2, and the digests of the row.
QueryDemo(t) ==
  /\ pc[t] = "query" /\ call[t].kind = "demo"
  /\ \/ /\ \E e \in rows : Sole(e) /\ e.verified /\ shown' = shown \cup {e.id}
        /\ Decide(t, "ok")
     \/ /\ rows = {} /\ Decide(t, "not_ready")
        /\ UNCHANGED shown
     \/ /\ rows # {} /\ \A e \in rows : Sole(e) => ~e.verified
        /\ Decide(t, "mismatch")
        /\ UNCHANGED shown
     \/ /\ Decide(t, "unavailable")
        /\ UNCHANGED shown
  /\ Go(t, "close")
  /\ UNCHANGED <<process, rows, requests, overlapped>>

\* Re-evaluation of the profile's proposal appends a row of the same profile.
Reevaluate ==
  /\ Cardinality(rows) < MaxRows
  /\ \E e \in rows : e.verified
  /\ rows' = rows \cup {[id |-> Cardinality(rows) + 1, verified |-> TRUE]}
  /\ UNCHANGED <<process, pc, call, requests, history>>

\* _agent_call remembers the globals of the agent and replaces them.
Swap(t) ==
  /\ pc[t] = "swap"
  /\ call' = [call EXCEPT ![t].oldMemory = agentMemory]
  /\ agentMemory' = t
  /\ Go(t, "embed")
  /\ UNCHANGED <<secretCache, secretLock, agentLock, env, rows, requests, history>>

\* process_task embeds the task, with the key and through the agent's memory;
\* whatever fails is a result and no exception.
Embed(t) ==
  /\ pc[t] = "embed"
  /\ \/ env # Absent /\ Go(t, "draft") /\ UNCHANGED call
     \/ Go(t, "give_back") /\ Decide(t, "blocked")
  /\ UNCHANGED <<process, rows, requests, history>>

\* Evidence, model, gate and persistence, likewise.
Draft(t) ==
  /\ pc[t] = "draft"
  /\ (env # Absent /\ Decide(t, "persisted")) \/ Decide(t, "blocked")
  /\ Go(t, "give_back")
  /\ UNCHANGED <<process, rows, requests, history>>

\* The inner finally clause of _agent_call.
GiveBack(t) ==
  /\ pc[t] = "give_back"
  /\ agentMemory' = call[t].oldMemory
  /\ Go(t, "close")
  /\ UNCHANGED <<secretCache, secretLock, agentLock, env, rows, call, requests, history>>

\* memory.close() may fail, and the answer with it.
Close(t) ==
  /\ pc[t] = "close"
  /\ Go(t, "restore")
  /\ UNCHANGED call \/ Decide(t, "unavailable")
  /\ UNCHANGED <<process, rows, requests, history>>

\* Mutant: the lock is kept when the operation raised.
ReleaseOnSuccess(t) ==
  /\ pc[t] = "release"
  /\ agentLock' = IF call[t].result = "unavailable" THEN agentLock ELSE Absent
  /\ Answer(t)
  /\ UNCHANGED <<secretCache, secretLock, env, agentMemory, rows, requests, history>>

ReleaseAgent(t) ==
  /\ pc[t] = "release"
  /\ agentLock' = Absent
  /\ Answer(t)
  /\ UNCHANGED <<secretCache, secretLock, env, agentMemory, rows, requests, history>>

-----------------------------------------------------------------------------
(* The process *)

Proceed(t) ==
  \/ AcquireAgent(t) \/ LoadSecret(t) \/ FetchSecret(t) \/ Save(t) \/ RefuseRoot(t)
  \/ Export(t) \/ Open(t) \/ QueryHealth(t) \/ QueryDemo(t) \/ Swap(t) \/ Embed(t)
  \/ Draft(t) \/ GiveBack(t) \/ Close(t) \/ Restore(t) \/ ReleaseAgent(t)

Next ==
  \/ Reevaluate
  \/ \E t \in Thread : Start(t) \/ Proceed(t)

Spec == Init /\ [][Next]_vars

\* Threads are scheduled, and remote calls return or time out.
FairSpec == Spec /\ \A t \in Thread : WF_vars(Proceed(t))

-----------------------------------------------------------------------------
(* Properties *)

\* The shape of the process's state and of every request's locals.
TypeOK ==
  /\ secretCache \in Secret \cup {Absent}
  /\ secretLock \in Thread \cup {Absent}
  /\ agentLock \in Thread \cup {Absent}
  /\ env \in Secret \cup {Absent}
  /\ agentMemory \in Thread \cup {Original}
  /\ rows \subseteq Row
  /\ pc \in [Thread -> Exporting \cup {"idle", "lock", "load", "fetch", "bind", "release"}]
  /\ call \in [Thread -> Call]
  /\ requests \in 0 .. MaxRequests
  /\ shown \subseteq 1 .. MaxRows
  /\ overlapped \in BOOLEAN

\* A task goes through the memory and the evidence of its own request, from
\* the first call to the last, and when no task runs the agent module has the
\* memory it was loaded with (handler.py:510-532, 538).
OwnMemory ==
  /\ \A t \in Thread : pc[t] \in Swapped => agentMemory = t
  /\ (\A t \in Thread : pc[t] \notin Swapped) => agentMemory = Original

\* A request whose export overlapped no other works with the secret, whatever
\* others left behind before it, and as long as no two overlapped the
\* environment of an idle process is as it was (handler.py:286-296).
SecretInPlace ==
  /\ \A t \in Thread : pc[t] \in Working /\ ~call[t].disturbed =>
       env = call[t].binding /\ env # Absent
  /\ ~overlapped /\ Inside = {} => env = Absent

\* Even requests that overlap, save and restore each other's variables never
\* work with a secret other than the one cached first, although it is rotated
\* (handler.py:190-220, 286-295).
OneSecret ==
  /\ env \in {Absent, secretCache}
  /\ \A t \in Thread : call[t].binding \in {Absent, secretCache}

\* All demo requests that are shown an evaluation are shown the same one:
\* re-evaluation adds evaluations of the profile whose ids sort anywhere, and
\* from then on the route answers with none (handler.py:352-358,
\* consequences.py:604).
DemoAgrees == Cardinality(shown) <= 1

\* Every request is answered, whoever held the locks and whatever failed
\* while they were held (handler.py:190, 538).
RequestAnswered ==
  \A t \in Thread : pc[t] # "idle" ~> pc[t] = "idle"
=============================================================================
