---------------------------- MODULE LambdaProofs ----------------------------
(* Proofs about Lambda: what threads share and what they may rely on, for    *)
(* any number of threads, requests and secrets.                              *)
EXTENDS Lambda, FiniteSetTheorems, TLAPS

-----------------------------------------------------------------------------
(* The inductive invariant *)

Typed == TypeOK /\ IsFiniteSet(rows)

\* The lock is held from before the globals are replaced until after they are
\* put back, so what a request remembers is what the module was loaded with.
Held ==
  /\ \A t \in Thread : pc[t] = "idle" => ~IsDirect(t)
  /\ \A t \in Thread : pc[t] \in {"lock", "release", "swap"} \cup Swapped => IsDirect(t)
  /\ \A t \in Thread : IsDirect(t) /\ pc[t] # "lock" => agentLock = t
  /\ \A t \in Thread : pc[t] \in Swapped => agentMemory = t /\ call[t].oldMemory = Original
  /\ (\A t \in Thread : pc[t] \notin Swapped) => agentMemory = Original

\* The cache is filled by one thread, the one that holds the lock, and once.
Cached ==
  /\ \A t \in Thread : pc[t] = "fetch" => secretLock = t /\ secretCache = Absent
  /\ env \in {Absent, secretCache}
  /\ \A t \in Thread : /\ call[t].binding \in {Absent, secretCache}
                       /\ call[t].previous \in {Absent, secretCache}
                       /\ pc[t] \in Exporting \cup {"bind"} => call[t].binding # Absent

\* A request that was never disturbed is alone inside.
Alone ==
  /\ \A t, q \in Inside : t # q => call[t].disturbed
  /\ \A t \in Inside : ~call[t].disturbed /\ pc[t] # "export" => env = call[t].binding
  /\ ~overlapped =>
       /\ \A t \in Inside : ~call[t].disturbed /\ call[t].previous = Absent
       /\ Inside = {} => env = Absent

\* The first evaluation of the profile stays, and is the only one ever shown.
First ==
  /\ rows = {} \/ \E e \in rows : e.id = 1
  /\ shown \subseteq {1}

IInv == Typed /\ Held /\ Cached /\ Alone /\ First

-----------------------------------------------------------------------------
(* Types *)

LEMMA AnswerTyped ==
  ASSUME Typed, NEW t \in Thread, Answer(t)
  PROVE pc' \in [Thread -> Exporting \cup {"idle", "lock", "load", "fetch", "bind", "release"}]
        /\ call' \in [Thread -> Call]
BY DEF Typed, TypeOK, Answer, Go, NoCall, Call, Result

LEMMA LeaveTyped ==
  ASSUME Typed, NEW t \in Thread, NEW r \in Result, Leave(t, r)
  PROVE pc' \in [Thread -> Exporting \cup {"idle", "lock", "load", "fetch", "bind", "release"}]
        /\ call' \in [Thread -> Call]
BY AnswerTyped DEF Typed, TypeOK, Leave, Go, Decide, Call

LEMMA NextTyped == Typed /\ Held /\ [Next]_vars => Typed'
<1> SUFFICES ASSUME Typed, Held, [Next]_vars PROVE Typed'
  OBVIOUS
<1> USE LambdaAssumption
<1> USE DEF process, history
<1>1. CASE UNCHANGED vars
  BY <1>1 DEF vars, Typed, TypeOK
<1>2. CASE Reevaluate
  <2>1. Cardinality(rows) \in Nat
    BY FS_CardinalityType DEF Typed
  <2> DEFINE new == [id |-> Cardinality(rows) + 1, verified |-> TRUE]
  <2>2. new \in Row
    BY <1>2, <2>1 DEF Reevaluate, Row
  <2>3. rows' = rows \cup {new}
    BY <1>2 DEF Reevaluate
  <2>4. rows' \subseteq Row /\ IsFiniteSet(rows')
    BY <2>2, <2>3, FS_AddElement DEF Typed, TypeOK
  <2>5. QED
    BY <1>2, <2>4 DEF Reevaluate, Typed, TypeOK
<1>3. ASSUME NEW t \in Thread, Start(t) PROVE Typed'
  BY <1>3 DEF Start, Go, Typed, TypeOK, Call
<1>4. ASSUME NEW t \in Thread, Proceed(t) PROVE Typed'
  <2>1. CASE AcquireAgent(t)
    BY <2>1 DEF AcquireAgent, Go, Typed, TypeOK
  <2>2. CASE LoadSecret(t)
    BY <2>2 DEF LoadSecret, Go, Typed, TypeOK, Call
  <2>3. CASE FetchSecret(t)
    <3>1. CASE /\ Leave(t, "unavailable")
               /\ UNCHANGED secretCache
      BY <2>3, <3>1, LeaveTyped DEF FetchSecret, Typed, TypeOK, Result
    <3>2. CASE /\ \E s \in Secret : /\ secretCache' = s
                                    /\ call' = [call EXCEPT ![t].binding = s]
               /\ Go(t, "bind")
      BY <2>3, <3>2 DEF FetchSecret, Go, Typed, TypeOK, Call
    <3>3. QED
      BY <2>3, <3>1, <3>2 DEF FetchSecret
  <2>4. CASE Save(t)
    <3>1. ASSUME NEW q \in Thread PROVE call'[q] \in Call
      <4>1. call[q] \in Call /\ call[t] \in Call /\ env \in Secret \cup {Absent}
        BY DEF Typed, TypeOK
      <4>2. CASE q = t
        <5>1. call'[q] = [call[t] EXCEPT !.previous = env, !.disturbed = Inside # {}]
          BY <2>4, <4>2 DEF Save
        <5>2. QED
          BY <4>1, <5>1 DEF Call
      <4>3. CASE q # t
        <5>1. call'[q] = [call[q] EXCEPT !.disturbed = @ \/ q \in Inside]
          BY <2>4, <4>3 DEF Save
        <5>2. QED
          BY <4>1, <5>1 DEF Call
      <4>4. QED
        BY <4>2, <4>3
    <3>2. call' \in [Thread -> Call]
      BY <2>4, <3>1 DEF Save
    <3>3. overlapped' \in BOOLEAN
      BY <2>4 DEF Save, Typed, TypeOK
    <3>4. QED
      BY <2>4, <3>2, <3>3 DEF Save, Go, Typed, TypeOK, Exporting
  <2>5. CASE RefuseRoot(t)
    BY <2>5, LeaveTyped DEF RefuseRoot, Typed, TypeOK, Result
  <2>6. CASE Export(t)
    BY <2>6 DEF Export, Go, Typed, TypeOK, Call, Exporting
  <2>7. CASE Open(t)
    BY <2>7 DEF Open, Go, Decide, Typed, TypeOK, Call, Result, Exporting
  <2>8. CASE QueryHealth(t)
    BY <2>8 DEF QueryHealth, Go, Decide, Typed, TypeOK, Call, Result, Exporting
  <2>9. CASE QueryDemo(t)
    <3>1. call' \in [Thread -> Call] /\ UNCHANGED <<process, rows, requests, overlapped>>
      BY <2>9 DEF QueryDemo, Decide, Typed, TypeOK, Call, Result
    <3>2. \A e \in rows : e.id \in 1 .. MaxRows
      BY DEF Typed, TypeOK, Row
    <3>3. shown' = shown \/ \E e \in rows : shown' = shown \cup {e.id}
      BY <2>9 DEF QueryDemo
    <3>4. shown' \subseteq 1 .. MaxRows
      <4>1. shown \subseteq 1 .. MaxRows
        BY DEF Typed, TypeOK
      <4>2. ASSUME NEW e \in rows, shown' = shown \cup {e.id} PROVE shown' \subseteq 1 .. MaxRows
        BY <4>1, <4>2, <3>2
      <4>3. QED
        BY <4>1, <4>2, <3>3
    <3>5. QED
      BY <2>9, <3>1, <3>4 DEF QueryDemo, Go, Typed, TypeOK, Exporting
  <2>10. CASE Swap(t)
    BY <2>10 DEF Swap, Go, Typed, TypeOK, Call, Exporting
  <2>11. CASE Embed(t)
    BY <2>11 DEF Embed, Go, Decide, Typed, TypeOK, Call, Result, Exporting
  <2>12. CASE Draft(t)
    BY <2>12 DEF Draft, Go, Decide, Typed, TypeOK, Call, Result, Exporting
  <2>13. CASE GiveBack(t)
    BY <2>13 DEF GiveBack, Go, Held, Swapped, Typed, TypeOK, Exporting
  <2>14. CASE Close(t)
    BY <2>14 DEF Close, Go, Decide, Typed, TypeOK, Call, Result, Exporting
  <2>15. CASE Restore(t)
    BY <2>15, LeaveTyped DEF Restore, Restored, Typed, TypeOK, Call
  <2>16. CASE ReleaseAgent(t)
    BY <2>16, AnswerTyped DEF ReleaseAgent, Typed, TypeOK
  <2>17. QED
    BY <1>4, <2>1, <2>2, <2>3, <2>4, <2>5, <2>6, <2>7, <2>8, <2>9, <2>10, <2>11, <2>12,
       <2>13, <2>14, <2>15, <2>16 DEF Proceed
<1>5. QED
  BY <1>1, <1>2, <1>3, <1>4 DEF Next

-----------------------------------------------------------------------------
(* Each part is preserved *)

\* What a step that belongs to one thread leaves alone.
LEMMA LeaveLocal ==
  ASSUME Typed, NEW t \in Thread, NEW r \in Result, Leave(t, r)
  PROVE  /\ \A q \in Thread \ {t} : pc'[q] = pc[q] /\ call'[q] = call[q]
         /\ IsDirect(t) => /\ pc'[t] = "release"
                           /\ call'[t].kind = call[t].kind
                           /\ call'[t].binding = call[t].binding
                           /\ call'[t].previous = call[t].previous
         /\ ~IsDirect(t) => /\ pc'[t] = "idle"
                            /\ call'[t].kind = "none"
                            /\ call'[t].binding = Absent
                            /\ call'[t].previous = Absent
<1>1. pc \in [Thread -> Exporting \cup {"idle", "lock", "load", "fetch", "bind", "release"}]
      /\ call \in [Thread -> Call]
  BY DEF Typed, TypeOK
<1>2. CASE IsDirect(t)
  BY <1>1, <1>2 DEF Leave, Go, Decide, Call
<1>3. CASE ~IsDirect(t)
  <2>1. /\ pc' = [pc EXCEPT ![t] = "idle"]
        /\ call' = [call EXCEPT ![t] = NoCall]
    BY <1>3 DEF Leave, Answer, Go
  <2>2. call'[t] = NoCall /\ pc'[t] = "idle"
        /\ \A q \in Thread \ {t} : pc'[q] = pc[q] /\ call'[q] = call[q]
    BY <1>1, <2>1
  <2>3. QED
    BY <1>3, <2>2 DEF NoCall
<1>4. QED
  BY <1>2, <1>3

\* What is held is undisturbed by a step that stays outside of the locked part,
\* or stays inside of it.
LEMMA HeldFrame ==
  ASSUME Held, NEW t \in Thread,
         UNCHANGED <<agentLock, agentMemory>>,
         \A q \in Thread : /\ call'[q].kind = call[q].kind
                           /\ call'[q].oldMemory = call[q].oldMemory
                           /\ q # t => pc'[q] = pc[q],
         pc[t] \notin {"idle", "lock"}, pc'[t] \notin {"idle", "lock"},
         pc'[t] \in Swapped <=> pc[t] \in Swapped,
         pc'[t] \in {"release", "swap"} => IsDirect(t)
  PROVE  Held'
BY DEF Held, IsDirect, Swapped

LEMMA HeldLeave ==
  ASSUME Typed, Held, NEW t \in Thread, NEW r \in Result, Leave(t, r),
         UNCHANGED <<agentLock, agentMemory>>,
         pc[t] \notin {"idle", "lock"} \cup Swapped
  PROVE  Held'
<1>1. CASE IsDirect(t)
  <2>1. \A q \in Thread : /\ call'[q].kind = call[q].kind
                          /\ call'[q].oldMemory = call[q].oldMemory
                          /\ q # t => pc'[q] = pc[q]
    BY <1>1 DEF Leave, Go, Decide, Typed, TypeOK, Call
  <2>2. pc'[t] = "release"
    BY <1>1 DEF Leave, Go, Typed, TypeOK
  <2>3. QED
    BY <1>1, <2>1, <2>2, HeldFrame DEF Swapped
<1>2. CASE ~IsDirect(t)
  <2>1. \A q \in Thread \ {t} : call'[q] = call[q] /\ pc'[q] = pc[q]
    BY <1>2, LeaveLocal
  <2>2. pc'[t] = "idle" /\ call'[t].kind = "none"
    BY <1>2, LeaveLocal
  <2>3. QED
    BY <1>2, <2>1, <2>2 DEF Held, IsDirect, Swapped
<1>3. QED
  BY <1>1, <1>2

LEMMA NextHeld == Typed /\ Held /\ [Next]_vars => Held'
<1> SUFFICES ASSUME Typed, Held, [Next]_vars PROVE Held'
  OBVIOUS
<1> USE LambdaAssumption DEF process, history
<1>1. CASE UNCHANGED vars
  BY <1>1 DEF vars, Held, IsDirect
<1>2. CASE Reevaluate
  BY <1>2 DEF Reevaluate, Held, IsDirect
<1>3. ASSUME NEW t \in Thread, Start(t) PROVE Held'
  <2>1. PICK k \in {"health", "demo", "direct"} :
          /\ call' = [call EXCEPT ![t].kind = k]
          /\ Go(t, IF k = "direct" THEN "lock" ELSE "load")
    BY <1>3 DEF Start
  <2>2. call'[t].kind = k /\ pc'[t] = IF k = "direct" THEN "lock" ELSE "load"
    BY <2>1 DEF Go, Call, Typed, TypeOK
  <2>3. \A q \in Thread \ {t} : pc'[q] = pc[q] /\ call'[q] = call[q]
    BY <2>1 DEF Go
  <2>4. UNCHANGED <<agentLock, agentMemory>> /\ pc[t] = "idle"
    BY <1>3 DEF Start
  <2>5. QED
    BY <2>2, <2>3, <2>4 DEF Held, IsDirect, Swapped
<1>4. ASSUME NEW t \in Thread, Proceed(t) PROVE Held'
  <2> DEFINE SameCalls == \A q \in Thread : /\ call'[q].kind = call[q].kind
                                            /\ call'[q].oldMemory = call[q].oldMemory
                                            /\ q # t => pc'[q] = pc[q]
  <2>1. CASE AcquireAgent(t)
    BY <2>1 DEF AcquireAgent, Go, Held, IsDirect, Swapped, Typed, TypeOK
  <2>2. CASE LoadSecret(t)
    <3>1. SameCalls
      BY <2>2 DEF LoadSecret, Go, Call, Typed, TypeOK
    <3>2. pc'[t] \in {"fetch", "bind"} /\ pc[t] = "load" /\ UNCHANGED <<agentLock, agentMemory>>
      BY <2>2 DEF LoadSecret, Go, Typed, TypeOK
    <3>3. QED
      BY <3>1, <3>2, HeldFrame DEF Swapped
  <2>3. CASE FetchSecret(t)
    <3>1. pc[t] = "fetch" /\ UNCHANGED <<agentLock, agentMemory>>
      BY <2>3 DEF FetchSecret
    <3>2. CASE Leave(t, "unavailable")
      BY <3>1, <3>2, HeldLeave DEF Result, Swapped
    <3>3. CASE Go(t, "bind") /\ \E s \in Secret : call' = [call EXCEPT ![t].binding = s]
      <4>1. SameCalls /\ pc'[t] = "bind"
        BY <3>3 DEF Go, Call, Typed, TypeOK
      <4>2. QED
        BY <3>1, <4>1, HeldFrame DEF Swapped
    <3>4. QED
      BY <2>3, <3>2, <3>3 DEF FetchSecret
  <2>4. CASE Save(t)
    <3>1. ASSUME NEW q \in Thread
          PROVE call'[q].kind = call[q].kind /\ call'[q].oldMemory = call[q].oldMemory
      <4>1. CASE q = t
        BY <2>4, <4>1 DEF Save, Call, Typed, TypeOK
      <4>2. CASE q # t
        <5>1. call'[q] = [call[q] EXCEPT !.disturbed = @ \/ q \in Inside]
          BY <2>4, <4>2 DEF Save
        <5>2. QED
          BY <5>1 DEF Call, Typed, TypeOK
      <4>3. QED
        BY <4>1, <4>2
    <3>2. /\ pc[t] = "bind" /\ pc'[t] = "export" /\ \A q \in Thread \ {t} : pc'[q] = pc[q]
          /\ UNCHANGED <<agentLock, agentMemory>>
      BY <2>4 DEF Save, Go, Typed, TypeOK
    <3>3. QED
      BY <3>1, <3>2, HeldFrame DEF Swapped
  <2>5. CASE RefuseRoot(t)
    BY <2>5, HeldLeave DEF RefuseRoot, Result, Swapped
  <2>6. CASE Export(t)
    <3>1. SameCalls
      BY <2>6 DEF Export, Go
    <3>2. pc'[t] = "open" /\ pc[t] = "export" /\ UNCHANGED <<agentLock, agentMemory>>
      BY <2>6 DEF Export, Go, Typed, TypeOK
    <3>3. QED
      BY <3>1, <3>2, HeldFrame DEF Swapped
  <2>7. CASE Open(t)
    <3>1. SameCalls
      BY <2>7 DEF Open, Go, Decide, Call, Typed, TypeOK
    <3>2. /\ pc'[t] \in {"swap", "query", "close"} /\ pc[t] = "open"
          /\ pc'[t] = "swap" => IsDirect(t)
          /\ UNCHANGED <<agentLock, agentMemory>>
      BY <2>7 DEF Open, Go, Typed, TypeOK
    <3>3. QED
      BY <3>1, <3>2, HeldFrame DEF Swapped
  <2>8. CASE QueryHealth(t) \/ QueryDemo(t)
    <3>1. PICK r \in Result : Decide(t, r)
      BY <2>8 DEF QueryHealth, QueryDemo, Result
    <3>2. Go(t, "close") /\ pc[t] = "query" /\ UNCHANGED <<agentLock, agentMemory>>
      BY <2>8 DEF QueryHealth, QueryDemo
    <3>3. SameCalls
      BY <3>1, <3>2 DEF Go, Decide, Call, Typed, TypeOK
    <3>4. pc'[t] = "close"
      BY <3>2 DEF Go, Typed, TypeOK
    <3>5. QED
      BY <3>2, <3>3, <3>4, HeldFrame DEF Swapped
  <2>9. CASE Swap(t)
    <3>1. agentLock = t /\ \A q \in Thread : pc[q] \notin Swapped
      BY <2>9 DEF Swap, Held, IsDirect, Swapped
    <3>2. call'[t].oldMemory = Original /\ call'[t].kind = call[t].kind
      BY <2>9, <3>1 DEF Swap, Held, Call, Typed, TypeOK
    <3>3. pc'[t] = "embed" /\ \A q \in Thread \ {t} : pc'[q] = pc[q] /\ call'[q] = call[q]
      BY <2>9 DEF Swap, Go, Typed, TypeOK
    <3>4. QED
      BY <2>9, <3>1, <3>2, <3>3 DEF Swap, Held, IsDirect, Swapped
  <2>10. CASE Embed(t) \/ Draft(t)
    <3>1. SameCalls
      BY <2>10 DEF Embed, Draft, Go, Decide, Call, Typed, TypeOK
    <3>2. /\ pc'[t] \in {"draft", "give_back"} /\ pc[t] \in Swapped
          /\ UNCHANGED <<agentLock, agentMemory>>
      BY <2>10 DEF Embed, Draft, Go, Swapped, Typed, TypeOK
    <3>3. QED
      BY <3>1, <3>2, HeldFrame DEF Swapped
  <2>11. CASE GiveBack(t)
    BY <2>11 DEF GiveBack, Go, Held, IsDirect, Swapped, Typed, TypeOK
  <2>12. CASE Close(t)
    <3>1. SameCalls
      BY <2>12 DEF Close, Go, Decide, Call, Typed, TypeOK
    <3>2. pc'[t] = "restore" /\ pc[t] = "close" /\ UNCHANGED <<agentLock, agentMemory>>
      BY <2>12 DEF Close, Go, Typed, TypeOK
    <3>3. QED
      BY <3>1, <3>2, HeldFrame DEF Swapped
  <2>13. CASE Restore(t)
    <3>1. call[t].result \in Result
      BY DEF Call, Typed, TypeOK
    <3>2. QED
      BY <2>13, <3>1, HeldLeave DEF Restore, Swapped
  <2>14. CASE ReleaseAgent(t)
    <3>1. \A q \in Thread \ {t} : call'[q] = call[q] /\ pc'[q] = pc[q]
      BY <2>14 DEF ReleaseAgent, Answer, Go
    <3>2. pc'[t] = "idle" /\ call'[t].kind = "none"
      BY <2>14 DEF ReleaseAgent, Answer, Go, NoCall, Typed, TypeOK
    <3>3. agentLock = t /\ UNCHANGED agentMemory
      BY <2>14 DEF ReleaseAgent, Held, IsDirect
    <3>4. QED
      BY <2>14, <3>1, <3>2, <3>3 DEF ReleaseAgent, Held, IsDirect, Swapped
  <2>15. QED
    BY <1>4, <2>1, <2>2, <2>3, <2>4, <2>5, <2>6, <2>7, <2>8, <2>9, <2>10, <2>11, <2>12,
       <2>13, <2>14 DEF Proceed
<1>5. QED
  BY <1>1, <1>2, <1>3, <1>4 DEF Next

LEMMA NextCached == Typed /\ Cached /\ [Next]_vars => Cached'
<1> SUFFICES ASSUME Typed, Cached, [Next]_vars PROVE Cached'
  OBVIOUS
<1> USE LambdaAssumption DEF process, history
<1>1. CASE UNCHANGED vars
  BY <1>1 DEF vars, Cached
<1>2. CASE Reevaluate
  BY <1>2 DEF Reevaluate, Cached
<1>3. ASSUME NEW t \in Thread, Start(t) PROVE Cached'
  <2>1. PICK k \in {"health", "demo", "direct"} :
          /\ call' = [call EXCEPT ![t].kind = k]
          /\ Go(t, IF k = "direct" THEN "lock" ELSE "load")
    BY <1>3 DEF Start
  <2>2. /\ pc'[t] \in {"lock", "load"} /\ \A q \in Thread \ {t} : pc'[q] = pc[q]
        /\ \A q \in Thread : call'[q].binding = call[q].binding
                             /\ call'[q].previous = call[q].previous
    BY <2>1 DEF Go, Call, Typed, TypeOK
  <2>3. QED
    BY <1>3, <2>2 DEF Start, Cached, Exporting
<1>4. ASSUME NEW t \in Thread, Proceed(t) PROVE Cached'
  <2> DEFINE SameValues ==
        \A q \in Thread : /\ call'[q].binding = call[q].binding
                          /\ call'[q].previous = call[q].previous
                          /\ q # t => pc'[q] = pc[q]
  <2> DEFINE SameCache == UNCHANGED <<secretCache, secretLock>>
  <2>1. ASSUME NEW r \in Result, Leave(t, r), SameCache, env' \in {Absent, secretCache}
        PROVE Cached'
    <3>1. \A q \in Thread \ {t} : pc'[q] = pc[q] /\ call'[q] = call[q]
      BY <2>1, LeaveLocal
    <3>2. /\ pc'[t] \in {"release", "idle"}
          /\ call'[t].binding \in {Absent, secretCache}
          /\ call'[t].previous \in {Absent, secretCache}
      BY <2>1, LeaveLocal DEF Cached
    <3>3. QED
      BY <2>1, <3>1, <3>2 DEF Cached, Exporting
  <2>2. CASE AcquireAgent(t)
    BY <2>2 DEF AcquireAgent, Go, Cached, Exporting, Typed, TypeOK
  <2>3. CASE LoadSecret(t)
    <3>1. CASE secretCache = Absent
      <4>1. SameValues /\ pc'[t] = "fetch"
        BY <2>3, <3>1 DEF LoadSecret, Go, Typed, TypeOK
      <4>2. \A q \in Thread : pc[q] # "fetch"
        BY <2>3 DEF LoadSecret, Cached, Typed, TypeOK
      <4>3. QED
        BY <2>3, <3>1, <4>1, <4>2 DEF LoadSecret, Cached, Exporting
    <3>2. CASE secretCache # Absent
      <4>1. /\ pc'[t] = "bind" /\ call'[t].binding = secretCache
            /\ call'[t].previous = call[t].previous
            /\ \A q \in Thread \ {t} : pc'[q] = pc[q] /\ call'[q] = call[q]
        BY <2>3, <3>2 DEF LoadSecret, Go, Call, Typed, TypeOK
      <4>2. QED
        BY <2>3, <3>2, <4>1 DEF LoadSecret, Cached
    <3>3. QED
      BY <3>1, <3>2
  <2>4. CASE FetchSecret(t)
    <3>1. /\ pc[t] = "fetch" /\ secretCache = Absent /\ secretLock = t /\ env' = Absent
          /\ \A q \in Thread \ {t} : pc[q] # "fetch"
      BY <2>4 DEF FetchSecret, Cached
    <3>2. \A q \in Thread : call[q].binding = Absent /\ call[q].previous = Absent
      BY <3>1 DEF Cached
    <3>3. CASE Leave(t, "unavailable") /\ UNCHANGED secretCache
      <4>1. \A q \in Thread \ {t} : pc'[q] = pc[q] /\ call'[q] = call[q]
        BY <3>3, LeaveLocal DEF Result
      <4>2. /\ pc'[t] \in {"release", "idle"}
            /\ call'[t].binding = Absent /\ call'[t].previous = Absent
        BY <3>2, <3>3, LeaveLocal DEF Result
      <4>3. QED
        BY <3>1, <3>2, <3>3, <4>1, <4>2 DEF Cached, Exporting
    <3>4. ASSUME NEW s \in Secret, secretCache' = s,
                 call' = [call EXCEPT ![t].binding = s], Go(t, "bind")
          PROVE Cached'
      <4>1. /\ pc'[t] = "bind" /\ call'[t].binding = s /\ call'[t].previous = Absent
            /\ \A q \in Thread \ {t} : pc'[q] = pc[q] /\ call'[q] = call[q]
        BY <3>2, <3>4 DEF Go, Call, Typed, TypeOK
      <4>2. QED
        BY <3>1, <3>2, <3>4, <4>1 DEF Cached
    <3>5. QED
      BY <2>4, <3>3, <3>4 DEF FetchSecret
  <2>5. CASE Save(t)
    <3>1. ASSUME NEW q \in Thread
          PROVE  /\ call'[q].binding = call[q].binding
                 /\ call'[q].previous = IF q = t THEN env ELSE call[q].previous
      <4>1. CASE q = t
        BY <2>5, <4>1 DEF Save, Call, Typed, TypeOK
      <4>2. CASE q # t
        <5>1. call'[q] = [call[q] EXCEPT !.disturbed = @ \/ q \in Inside]
          BY <2>5, <4>2 DEF Save
        <5>2. QED
          BY <4>2, <5>1 DEF Call, Typed, TypeOK
      <4>3. QED
        BY <4>1, <4>2
    <3>2. pc[t] = "bind" /\ pc'[t] = "export" /\ \A q \in Thread \ {t} : pc'[q] = pc[q]
      BY <2>5 DEF Save, Go, Typed, TypeOK
    <3>3. QED
      BY <2>5, <3>1, <3>2 DEF Save, Cached, Exporting
  <2>6. CASE RefuseRoot(t)
    BY <2>1, <2>6 DEF RefuseRoot, Result, Cached
  <2>7. CASE Export(t)
    <3>1. SameValues /\ pc'[t] = "open" /\ pc[t] = "export"
      BY <2>7 DEF Export, Go, Typed, TypeOK
    <3>2. QED
      BY <2>7, <3>1 DEF Export, Cached, Exporting
  <2>8. ASSUME SameCache, UNCHANGED env, SameValues,
               pc[t] \in Exporting, pc'[t] \in Exporting \cup {"release"}
        PROVE Cached'
    BY <2>8 DEF Cached, Exporting
  <2>9. CASE Open(t) \/ Close(t)
    <3>1. SameValues
      BY <2>9 DEF Open, Close, Go, Decide, Call, Typed, TypeOK
    <3>2. pc[t] \in Exporting /\ pc'[t] \in Exporting
      BY <2>9 DEF Open, Close, Go, Exporting, Typed, TypeOK
    <3>3. QED
      BY <2>8, <2>9, <3>1, <3>2 DEF Open, Close
  <2>10. CASE QueryHealth(t) \/ QueryDemo(t)
    <3>1. PICK r \in Result : Decide(t, r)
      BY <2>10 DEF QueryHealth, QueryDemo, Result
    <3>2. Go(t, "close") /\ pc[t] = "query" /\ SameCache /\ UNCHANGED env
      BY <2>10 DEF QueryHealth, QueryDemo
    <3>3. SameValues /\ pc'[t] = "close"
      BY <3>1, <3>2 DEF Go, Decide, Call, Typed, TypeOK
    <3>4. QED
      BY <2>8, <3>2, <3>3 DEF Exporting
  <2>11. CASE Swap(t) \/ GiveBack(t)
    <3>1. SameValues
      BY <2>11 DEF Swap, GiveBack, Go, Call, Typed, TypeOK
    <3>2. pc[t] \in Exporting /\ pc'[t] \in Exporting
      BY <2>11 DEF Swap, GiveBack, Go, Exporting, Typed, TypeOK
    <3>3. QED
      BY <2>8, <2>11, <3>1, <3>2 DEF Swap, GiveBack
  <2>12. CASE Embed(t) \/ Draft(t)
    <3>1. SameValues
      BY <2>12 DEF Embed, Draft, Go, Decide, Call, Typed, TypeOK
    <3>2. pc[t] \in Exporting /\ pc'[t] \in Exporting
      BY <2>12 DEF Embed, Draft, Go, Exporting, Typed, TypeOK
    <3>3. QED
      BY <2>8, <2>12, <3>1, <3>2 DEF Embed, Draft
  <2>13. CASE Restore(t)
    <3>1. call[t].result \in Result /\ env' \in {Absent, secretCache}
      BY <2>13 DEF Restore, Restored, Cached, Call, Typed, TypeOK
    <3>2. QED
      BY <2>1, <2>13, <3>1 DEF Restore
  <2>14. CASE ReleaseAgent(t)
    <3>1. \A q \in Thread \ {t} : call'[q] = call[q] /\ pc'[q] = pc[q]
      BY <2>14 DEF ReleaseAgent, Answer, Go
    <3>2. pc'[t] = "idle" /\ call'[t].binding = Absent /\ call'[t].previous = Absent
      BY <2>14 DEF ReleaseAgent, Answer, Go, NoCall, Typed, TypeOK
    <3>3. QED
      BY <2>14, <3>1, <3>2 DEF ReleaseAgent, Cached, Exporting
  <2>15. QED
    BY <1>4, <2>2, <2>3, <2>4, <2>5, <2>6, <2>7, <2>9, <2>10, <2>11, <2>12, <2>13, <2>14
       DEF Proceed
<1>5. QED
  BY <1>1, <1>2, <1>3, <1>4 DEF Next

LEMMA NextFirst == Typed /\ First /\ [Next]_vars => First'
<1> SUFFICES ASSUME Typed, First, [Next]_vars PROVE First'
  OBVIOUS
<1> USE DEF process, history
<1>1. CASE UNCHANGED vars
  BY <1>1 DEF vars, First
<1>2. CASE Reevaluate
  <2>1. rows \subseteq rows' /\ rows # {} /\ UNCHANGED shown
    BY <1>2 DEF Reevaluate
  <2>2. QED
    BY <2>1 DEF First
<1>3. ASSUME NEW t \in Thread, QueryDemo(t) PROVE First'
  <2>1. UNCHANGED rows
    BY <1>3 DEF QueryDemo
  <2>2. UNCHANGED shown \/ \E e \in rows : Sole(e) /\ shown' = shown \cup {e.id}
    BY <1>3 DEF QueryDemo
  <2>3. ASSUME NEW e \in rows, Sole(e) PROVE e.id = 1
    BY <2>3 DEF Sole, First
  <2>4. QED
    BY <2>1, <2>2, <2>3 DEF First
<1>4. ASSUME NEW t \in Thread, Start(t) \/ (Proceed(t) /\ ~QueryDemo(t)) PROVE First'
  <2>1. UNCHANGED <<rows, shown>>
    BY <1>4 DEF Start, Proceed, AcquireAgent, LoadSecret, FetchSecret, Save, RefuseRoot,
       Export, Open, QueryHealth, Swap, Embed, Draft, GiveBack, Close, Restore, ReleaseAgent
  <2>2. QED
    BY <2>1 DEF First
<1>5. QED
  BY <1>1, <1>2, <1>3, <1>4 DEF Next

\* A step that neither enters nor leaves the section and exports nothing.
LEMMA AloneFrame ==
  ASSUME Alone, NEW t \in Thread, UNCHANGED <<env, overlapped>>,
         \A q \in Thread \ {t} : pc'[q] = pc[q] /\ call'[q] = call[q],
         pc'[t] \in Exporting <=> pc[t] \in Exporting,
         pc[t] \in Exporting =>
           /\ pc[t] # "export"
           /\ call'[t].disturbed = call[t].disturbed
           /\ call'[t].previous = call[t].previous
           /\ call'[t].binding = call[t].binding
  PROVE  Alone'
<1>1. Inside' = Inside
  BY DEF Inside
<1>2. \A q \in Inside : /\ call'[q].disturbed = call[q].disturbed
                        /\ call'[q].previous = call[q].previous
                        /\ call'[q].binding = call[q].binding
                        /\ pc[q] = "export" => pc'[q] = "export"
  BY DEF Inside
<1>3. \A q \in Inside : pc'[q] # "export" => pc[q] # "export"
  BY <1>2
<1>4. QED
  BY <1>1, <1>2, <1>3 DEF Alone

LEMMA NextAlone == Typed /\ Alone /\ [Next]_vars => Alone'
<1> SUFFICES ASSUME Typed, Alone, [Next]_vars PROVE Alone'
  OBVIOUS
<1> USE DEF process, history
<1>1. CASE UNCHANGED vars
  BY <1>1 DEF vars, Alone, Inside
<1>2. CASE Reevaluate
  BY <1>2 DEF Reevaluate, Alone, Inside
<1>3. ASSUME NEW t \in Thread, Start(t) PROVE Alone'
  <2>1. \A q \in Thread \ {t} : pc'[q] = pc[q] /\ call'[q] = call[q]
    BY <1>3 DEF Start, Go
  <2>2. pc[t] = "idle" /\ pc'[t] \in {"lock", "load"} /\ UNCHANGED <<env, overlapped>>
    BY <1>3 DEF Start, Go, Typed, TypeOK
  <2>3. QED
    BY <2>1, <2>2, AloneFrame DEF Exporting
<1>4. ASSUME NEW t \in Thread, Proceed(t) PROVE Alone'
  <2> DEFINE Others == \A q \in Thread \ {t} : pc'[q] = pc[q] /\ call'[q] = call[q]
  <2> DEFINE SameFields == /\ call'[t].disturbed = call[t].disturbed
                           /\ call'[t].previous = call[t].previous
                           /\ call'[t].binding = call[t].binding
  <2>1. CASE AcquireAgent(t) \/ LoadSecret(t)
    <3>1. Others
      BY <2>1 DEF AcquireAgent, LoadSecret, Go, Typed, TypeOK
    <3>2. /\ pc[t] \notin Exporting /\ pc'[t] \notin Exporting
          /\ UNCHANGED <<env, overlapped>>
      BY <2>1 DEF AcquireAgent, LoadSecret, Go, Exporting, Typed, TypeOK
    <3>3. QED
      BY <3>1, <3>2, AloneFrame
  <2>2. CASE FetchSecret(t)
    <3>1. pc[t] \notin Exporting /\ UNCHANGED <<env, overlapped>>
      BY <2>2 DEF FetchSecret, Exporting
    <3>2. CASE Leave(t, "unavailable")
      BY <3>1, <3>2, LeaveLocal, AloneFrame DEF Result, Exporting
    <3>3. CASE Go(t, "bind") /\ \E s \in Secret : call' = [call EXCEPT ![t].binding = s]
      <4>1. Others /\ pc'[t] = "bind"
        BY <3>3 DEF Go, Typed, TypeOK
      <4>2. QED
        BY <3>1, <4>1, AloneFrame DEF Exporting
    <3>4. QED
      BY <2>2, <3>2, <3>3 DEF FetchSecret
  <2>3. CASE Save(t)
    <3>1. ASSUME NEW q \in Thread
          PROVE  /\ call'[q].binding = call[q].binding
                 /\ call'[q].previous = IF q = t THEN env ELSE call[q].previous
                 /\ call'[q].disturbed = IF q = t THEN Inside # {}
                                         ELSE call[q].disturbed \/ q \in Inside
      <4>1. CASE q = t
        BY <2>3, <4>1 DEF Save, Call, Typed, TypeOK
      <4>2. CASE q # t
        <5>1. call'[q] = [call[q] EXCEPT !.disturbed = @ \/ q \in Inside]
          BY <2>3, <4>2 DEF Save
        <5>2. QED
          BY <4>2, <5>1 DEF Call, Typed, TypeOK
      <4>3. QED
        BY <4>1, <4>2
    <3>2. pc[t] = "bind" /\ pc'[t] = "export" /\ \A q \in Thread \ {t} : pc'[q] = pc[q]
      BY <2>3 DEF Save, Go, Typed, TypeOK
    <3>3. Inside' = Inside \cup {t} /\ t \notin Inside
      BY <3>2 DEF Inside, Exporting
    <3>4. \A q \in Inside : call'[q].disturbed
      BY <3>1, <3>3 DEF Inside
    <3>5. (\A q \in Inside' : ~call'[q].disturbed) => Inside = {}
      BY <3>3, <3>4
    <3>6. \A r, q \in Inside' : r # q => call'[r].disturbed
      BY <3>1, <3>3, <3>4 DEF Inside
    <3>7. \A q \in Inside' : ~call'[q].disturbed /\ pc'[q] # "export" => env' = call'[q].binding
      BY <3>2, <3>3, <3>4
    <3>8. ASSUME ~overlapped'
          PROVE \A q \in Inside' : ~call'[q].disturbed /\ call'[q].previous = Absent
      <4>1. ~overlapped /\ Inside = {}
        BY <2>3, <3>8 DEF Save
      <4>2. env = Absent
        BY <4>1 DEF Alone
      <4>3. QED
        BY <3>1, <3>3, <4>1, <4>2
    <3>9. QED
      BY <3>3, <3>6, <3>7, <3>8 DEF Alone
  <2>4. CASE RefuseRoot(t)
    BY <2>4, LeaveLocal, AloneFrame DEF RefuseRoot, Result, Exporting
  <2>5. CASE Export(t)
    <3>1. /\ pc[t] = "export" /\ pc'[t] = "open" /\ UNCHANGED <<call, overlapped>>
          /\ env' = call[t].binding
          /\ \A q \in Thread \ {t} : pc'[q] = pc[q]
      BY <2>5 DEF Export, Go, Typed, TypeOK
    <3>2. Inside' = Inside /\ t \in Inside
      BY <3>1 DEF Inside, Exporting
    <3>3. \A q \in Inside : q # t => call[q].disturbed
      BY <3>2 DEF Alone
    <3>4. QED
      BY <3>1, <3>2, <3>3 DEF Alone
  <2>6. ASSUME Others, SameFields, UNCHANGED <<env, overlapped>>,
               pc[t] \in Exporting \ {"export"}, pc'[t] \in Exporting
        PROVE Alone'
    BY <2>6, AloneFrame
  <2>7. CASE Open(t) \/ Close(t)
    <3>1. Others /\ SameFields
      BY <2>7 DEF Open, Close, Go, Decide, Call, Typed, TypeOK
    <3>2. pc[t] \in Exporting \ {"export"} /\ pc'[t] \in Exporting
      BY <2>7 DEF Open, Close, Go, Exporting, Typed, TypeOK
    <3>3. QED
      BY <2>6, <2>7, <3>1, <3>2 DEF Open, Close
  <2>8. CASE QueryHealth(t) \/ QueryDemo(t)
    <3>1. PICK r \in Result : Decide(t, r)
      BY <2>8 DEF QueryHealth, QueryDemo, Result
    <3>2. Go(t, "close") /\ pc[t] = "query" /\ UNCHANGED <<env, overlapped>>
      BY <2>8 DEF QueryHealth, QueryDemo
    <3>3. Others /\ SameFields /\ pc'[t] = "close"
      BY <3>1, <3>2 DEF Go, Decide, Call, Typed, TypeOK
    <3>4. QED
      BY <2>6, <3>2, <3>3 DEF Exporting
  <2>9. CASE Swap(t) \/ GiveBack(t)
    <3>1. Others /\ SameFields
      BY <2>9 DEF Swap, GiveBack, Go, Call, Typed, TypeOK
    <3>2. pc[t] \in Exporting \ {"export"} /\ pc'[t] \in Exporting
      BY <2>9 DEF Swap, GiveBack, Go, Exporting, Typed, TypeOK
    <3>3. QED
      BY <2>6, <2>9, <3>1, <3>2 DEF Swap, GiveBack
  <2>10. CASE Embed(t) \/ Draft(t)
    <3>1. Others /\ SameFields
      BY <2>10 DEF Embed, Draft, Go, Decide, Call, Typed, TypeOK
    <3>2. pc[t] \in Exporting \ {"export"} /\ pc'[t] \in Exporting
      BY <2>10 DEF Embed, Draft, Go, Exporting, Typed, TypeOK
    <3>3. QED
      BY <2>6, <2>10, <3>1, <3>2 DEF Embed, Draft
  <2>11. CASE Restore(t)
    <3>1. call[t].result \in Result
      BY DEF Call, Typed, TypeOK
    <3>2. /\ pc[t] = "restore" /\ env' = call[t].previous /\ UNCHANGED overlapped
          /\ Leave(t, call[t].result)
      BY <2>11 DEF Restore, Restored
    <3>3. Others /\ pc'[t] \in {"release", "idle"}
      BY <3>1, <3>2, LeaveLocal
    <3>4. Inside' = Inside \ {t} /\ t \in Inside
      BY <3>2, <3>3 DEF Inside, Exporting
    <3>5. \A q \in Inside' : call[q].disturbed
      BY <3>4 DEF Alone
    <3>6. ~overlapped => Inside' = {} /\ call[t].previous = Absent
      BY <3>4, <3>5 DEF Alone
    <3>7. \A q \in Inside' : call'[q] = call[q]
      BY <3>3, <3>4 DEF Inside
    <3>8. QED
      BY <3>2, <3>4, <3>5, <3>6, <3>7 DEF Alone
  <2>12. CASE ReleaseAgent(t)
    <3>1. Others /\ pc'[t] = "idle"
      BY <2>12 DEF ReleaseAgent, Answer, Go, Typed, TypeOK
    <3>2. pc[t] = "release" /\ UNCHANGED <<env, overlapped>>
      BY <2>12 DEF ReleaseAgent
    <3>3. QED
      BY <3>1, <3>2, AloneFrame DEF Exporting
  <2>13. QED
    BY <1>4, <2>1, <2>2, <2>3, <2>4, <2>5, <2>7, <2>8, <2>9, <2>10, <2>11, <2>12 DEF Proceed
<1>5. QED
  BY <1>1, <1>2, <1>3, <1>4 DEF Next

-----------------------------------------------------------------------------
(* The theorems *)

LEMMA InitIInv == Init => IInv
<1> SUFFICES ASSUME Init PROVE IInv
  OBVIOUS
<1> USE LambdaAssumption
<1>1. NoCall \in Call
  BY DEF NoCall, Call, Result
<1>2. rows \subseteq Row
  BY DEF Init
<1>3. Typed
  <2>1. rows = {} \/ \E r \in Row : rows = {r}
    BY DEF Init
  <2>2. IsFiniteSet(rows)
    BY <2>1, FS_EmptySet, FS_Singleton
  <2>3. call \in [Thread -> Call]
    BY <1>1 DEF Init
  <2>4. pc \in [Thread -> Exporting \cup {"idle", "lock", "load", "fetch", "bind", "release"}]
    BY DEF Init
  <2>5. requests \in 0 .. MaxRequests /\ shown \subseteq 1 .. MaxRows
    BY DEF Init
  <2>6. /\ secretCache \in Secret \cup {Absent} /\ secretLock \in Thread \cup {Absent}
        /\ agentLock \in Thread \cup {Absent} /\ env \in Secret \cup {Absent}
        /\ agentMemory \in Thread \cup {Original} /\ overlapped \in BOOLEAN
    BY DEF Init
  <2>7. QED
    BY <1>2, <2>2, <2>3, <2>4, <2>5, <2>6 DEF Typed, TypeOK
<1>4. \A t \in Thread : pc[t] = "idle" /\ call[t] = NoCall
  BY DEF Init
<1>5. Held
  BY <1>4 DEF Init, Held, IsDirect, Swapped, NoCall
<1>6. Cached
  BY <1>4 DEF Init, Cached, Exporting, NoCall
<1>7. Inside = {}
  BY <1>4 DEF Inside, Exporting
<1>8. Alone
  BY <1>7 DEF Init, Alone
<1>9. First
  BY DEF Init, First
<1>10. QED
  BY <1>3, <1>5, <1>6, <1>8, <1>9 DEF IInv

LEMMA NextIInv == IInv /\ [Next]_vars => IInv'
BY NextTyped, NextHeld, NextCached, NextAlone, NextFirst DEF IInv

LEMMA Invariance == Spec => []IInv
BY InitIInv, NextIInv, PTL DEF Spec

\* Every value of the process has its shape in every reachable state; the locks
\* decide that what _agent_call puts back is a memory (handler.py:518-530).
THEOREM TypeCorrect == Spec => []TypeOK
<1>1. IInv => TypeOK
  BY DEF IInv, Typed
<1>2. QED
  BY <1>1, Invariance, PTL

\* However many threads serve direct requests, a task only ever uses the memory
\* of its own request, and the module's own is back when none runs
\* (handler.py:510-539).
THEOREM MemoryIsOwn == Spec => []OwnMemory
<1>1. IInv => OwnMemory
  BY DEF IInv, Held, OwnMemory
<1>2. QED
  BY <1>1, Invariance, PTL

\* A request that overlapped no other works with its secret, and without
\* overlaps the environment is left as it was found (handler.py:280-295).
THEOREM SecretStaysInPlace == Spec => []SecretInPlace
<1>1. IInv => SecretInPlace
  BY DEF IInv, Alone, Cached, SecretInPlace, Inside, Working, Exporting
<1>2. QED
  BY <1>1, Invariance, PTL

\* However requests overlap and whenever the secret is rotated, one secret is
\* all that is ever exported (handler.py:188-220, 280-295).
THEOREM SecretIsOne == Spec => []OneSecret
<1>1. IInv => OneSecret
  BY DEF IInv, Cached, OneSecret
<1>2. QED
  BY <1>1, Invariance, PTL

\* However often the profile is re-evaluated, all who are shown an evaluation
\* are shown the same (handler.py:344-378).
THEOREM DemosAgree == Spec => []DemoAgrees
<1>1. ASSUME IInv PROVE DemoAgrees
  <2>1. Cardinality({}) = 0 /\ Cardinality({1}) = 1
    BY FS_EmptySet, FS_Singleton
  <2>2. shown = {} \/ shown = {1}
    BY <1>1 DEF IInv, First
  <2>3. QED
    BY <2>1, <2>2 DEF DemoAgrees
<1>2. QED
  BY <1>1, Invariance, PTL

-----------------------------------------------------------------------------
(* Nobody waits for ever *)

\* A lock belongs to a thread that is past waiting for it and not yet done.
Owned ==
  /\ agentLock # Absent => /\ agentLock \in Thread /\ IsDirect(agentLock)
                           /\ pc[agentLock] \notin {"idle", "lock"}
  /\ secretLock # Absent => secretLock \in Thread /\ pc[secretLock] = "fetch"

\* A thread at a lock another one has.  Every other step of a request has an
\* outcome in any state.
Waits(t) ==
  \/ pc[t] = "lock" /\ agentLock # Absent
  \/ pc[t] = "load" /\ secretLock # Absent

\* Of the requests being served, one can go on.
NoGridlock ==
  (\E t \in Thread : pc[t] # "idle") => \E t \in Thread : pc[t] # "idle" /\ ~Waits(t)

\* The steps a request has left at most, by what its thread does next.
Left(step) ==
  CASE step = "lock" -> 13   [] step = "load" -> 12     [] step = "fetch" -> 11
    [] step = "bind" -> 10   [] step = "export" -> 9    [] step = "open" -> 8
    [] step = "swap" -> 7    [] step = "embed" -> 6     [] step = "draft" -> 5
    [] step \in {"give_back", "query"} -> 4             [] step = "close" -> 3
    [] step = "restore" -> 2 [] step = "release" -> 1   [] step = "idle" -> 0

\* A step of a request brings it nearer to its answer, and no step of another
\* thread sends it back.
NearsAnswer ==
  \A t \in Thread : \/ Left(pc'[t]) < Left(pc[t])
                    \/ ~Proceed(t) /\ (pc[t] = "idle" \/ pc'[t] = pc[t])

\* From where a request may go where, as _public, _direct, _load_secret,
\* _with_secret_environment and _agent_call lead it.
Ways == {<<"lock", "load">>,
         <<"load", "fetch">>, <<"load", "bind">>,
         <<"fetch", "bind">>, <<"fetch", "release">>, <<"fetch", "idle">>,
         <<"bind", "export">>, <<"bind", "release">>, <<"bind", "idle">>,
         <<"export", "open">>,
         <<"open", "swap">>, <<"open", "query">>, <<"open", "close">>,
         <<"query", "close">>,
         <<"swap", "embed">>, <<"embed", "draft">>, <<"embed", "give_back">>,
         <<"draft", "give_back">>, <<"give_back", "close">>, <<"close", "restore">>,
         <<"restore", "release">>, <<"restore", "idle">>, <<"release", "idle">>}

LEMMA WaysLead == \A w \in Ways : Left(w[2]) < Left(w[1]) /\ w[1] # "idle"
BY DEF Ways, Left

LEMMA LeaveWay ==
  ASSUME Typed, NEW t \in Thread, NEW r \in Result, Leave(t, r)
  PROVE  /\ pc'[t] \in {"release", "idle"}
         /\ \A q \in Thread \ {t} : pc'[q] = pc[q]
BY LeaveLocal

LEMMA Moves ==
  ASSUME Typed, NEW t \in Thread, Proceed(t)
  PROVE  <<pc[t], pc'[t]>> \in Ways /\ \A q \in Thread \ {t} : pc'[q] = pc[q]
<1> USE DEF Ways
<1>1. pc \in [Thread -> Exporting \cup {"idle", "lock", "load", "fetch", "bind", "release"}]
  BY DEF Typed, TypeOK
<1>2. ASSUME NEW s, Go(t, s) PROVE pc'[t] = s /\ \A q \in Thread \ {t} : pc'[q] = pc[q]
  BY <1>1, <1>2 DEF Go
<1>3. CASE AcquireAgent(t)
  BY <1>2, <1>3 DEF AcquireAgent
<1>4. CASE LoadSecret(t)
  BY <1>2, <1>4 DEF LoadSecret
<1>5. CASE FetchSecret(t)
  BY <1>2, <1>5, LeaveWay DEF FetchSecret, Result
<1>6. CASE Save(t)
  BY <1>2, <1>6 DEF Save
<1>7. CASE RefuseRoot(t)
  BY <1>7, LeaveWay DEF RefuseRoot, Result
<1>8. CASE Export(t)
  BY <1>2, <1>8 DEF Export
<1>9. CASE Open(t)
  BY <1>2, <1>9 DEF Open
<1>10. CASE QueryHealth(t) \/ QueryDemo(t)
  BY <1>2, <1>10 DEF QueryHealth, QueryDemo
<1>11. CASE Swap(t)
  BY <1>2, <1>11 DEF Swap
<1>12. CASE Embed(t) \/ Draft(t)
  BY <1>2, <1>12 DEF Embed, Draft
<1>13. CASE GiveBack(t) \/ Close(t)
  BY <1>2, <1>13 DEF GiveBack, Close
<1>14. CASE Restore(t)
  <2>1. call[t].result \in Result
    BY DEF Typed, TypeOK, Call
  <2>2. QED
    BY <1>14, <2>1, LeaveWay DEF Restore
<1>15. CASE ReleaseAgent(t)
  BY <1>2, <1>15 DEF ReleaseAgent, Answer
<1>16. QED
  BY <1>3, <1>4, <1>5, <1>6, <1>7, <1>8, <1>9, <1>10, <1>11, <1>12, <1>13, <1>14, <1>15
     DEF Proceed

\* Every step of a request leaves it fewer steps to its answer, of at most 13
\* in all, and no other thread can send it back: the safety half of
\* RequestAnswered (handler.py:190, 286-296, 510-540).
THEOREM RequestsNearTheirAnswer == Spec => [][NearsAnswer]_vars
<1>1. IInv /\ [Next]_vars => [NearsAnswer]_vars
  <2> SUFFICES ASSUME IInv, Next PROVE NearsAnswer
    OBVIOUS
  <2>1. CASE Reevaluate
    BY <2>1, Moves, WaysLead DEF Reevaluate, NearsAnswer, IInv
  <2>2. ASSUME NEW q \in Thread, Start(q) PROVE NearsAnswer
    <3>1. \A t \in Thread : pc[t] = "idle" \/ pc'[t] = pc[t]
      BY <2>2 DEF Start, Go, IInv, Typed, TypeOK
    <3>2. \A t \in Thread : Proceed(t) => Left(pc'[t]) < Left(pc[t])
      BY Moves, WaysLead DEF IInv
    <3>3. QED
      BY <3>1, <3>2 DEF NearsAnswer
  <2>3. ASSUME NEW q \in Thread, Proceed(q) PROVE NearsAnswer
    <3>1. \A t \in Thread : Proceed(t) => Left(pc'[t]) < Left(pc[t])
      BY Moves, WaysLead DEF IInv
    <3>2. \A t \in Thread \ {q} : pc'[t] = pc[t]
      BY <2>3, Moves DEF IInv
    <3>3. QED
      BY <2>3, <3>1, <3>2 DEF NearsAnswer
  <2>4. QED
    BY <2>1, <2>2, <2>3 DEF Next
<1>2. QED
  BY <1>1, Invariance, PTL DEF Spec

LEMMA NextOwned == IInv /\ Owned /\ [Next]_vars => Owned'
<1> SUFFICES ASSUME IInv, Owned, [Next]_vars PROVE Owned'
  OBVIOUS
<1> USE LambdaAssumption DEF process, history
<1>0. Typed /\ Held /\ Cached
  BY DEF IInv
<1>1. CASE UNCHANGED vars
  BY <1>1 DEF vars, Owned, IsDirect
<1>2. CASE Reevaluate
  BY <1>2 DEF Reevaluate, Owned, IsDirect
<1>3. ASSUME NEW t \in Thread, Start(t) PROVE Owned'
  <2>1. \A q \in Thread \ {t} : pc'[q] = pc[q] /\ call'[q] = call[q]
    BY <1>3 DEF Start, Go
  <2>2. pc[t] = "idle" /\ UNCHANGED <<agentLock, secretLock>>
    BY <1>3 DEF Start
  <2>3. QED
    BY <2>1, <2>2 DEF Owned, IsDirect
<1>4. ASSUME NEW t \in Thread, Proceed(t) PROVE Owned'
  <2>1. <<pc[t], pc'[t]>> \in Ways /\ \A q \in Thread \ {t} : pc'[q] = pc[q]
    BY <1>0, <1>4, Moves
  <2>2. CASE AcquireAgent(t)
    <3>1. agentLock' = t /\ pc'[t] = "load" /\ IsDirect(t)
      BY <2>2, <1>0 DEF AcquireAgent, Go, Held, Typed, TypeOK
    <3>2. UNCHANGED <<secretLock, call>> /\ pc[t] = "lock"
      BY <2>2 DEF AcquireAgent
    <3>3. QED
      BY <2>1, <3>1, <3>2 DEF Owned, IsDirect
  <2>3. CASE ReleaseAgent(t)
    BY <2>1, <2>3 DEF ReleaseAgent, Owned
  <2>4. CASE LoadSecret(t)
    BY <1>0, <2>1, <2>4 DEF LoadSecret, Go, Owned, IsDirect, Call, Typed, TypeOK
  <2>5. CASE FetchSecret(t)
    <3>1. secretLock' = Absent /\ UNCHANGED agentLock
      BY <2>5 DEF FetchSecret
    <3>2. \A q \in Thread \ {t} : call'[q] = call[q]
      <4>1. CASE Leave(t, "unavailable")
        BY <1>0, <4>1, LeaveLocal DEF Result
      <4>2. CASE \E s \in Secret : call' = [call EXCEPT ![t].binding = s]
        BY <4>2
      <4>3. QED
        BY <2>5, <4>1, <4>2 DEF FetchSecret
    <3>3. IsDirect(t) => pc'[t] \notin {"idle", "lock"} /\ call'[t].kind = call[t].kind
      BY <1>0, <2>5, LeaveLocal DEF FetchSecret, Go, Result, Call, Typed, TypeOK
    <3>4. QED
      BY <2>1, <3>1, <3>2, <3>3 DEF Owned, IsDirect
  <2>6. CASE RefuseRoot(t) \/ Restore(t)
    <3>1. PICK r \in Result : Leave(t, r)
      BY <2>6, <1>0 DEF RefuseRoot, Restore, Result, Call, Typed, TypeOK
    <3>2. UNCHANGED <<agentLock, secretLock>> /\ pc[t] # "fetch"
      BY <2>6 DEF RefuseRoot, Restore
    <3>3. \A q \in Thread \ {t} : call'[q] = call[q]
      BY <1>0, <3>1, LeaveLocal
    <3>4. IsDirect(t) => pc'[t] = "release" /\ call'[t].kind = call[t].kind
      BY <1>0, <3>1, LeaveLocal
    <3>5. QED
      BY <2>1, <3>2, <3>3, <3>4 DEF Owned, IsDirect
  <2>7. ASSUME \/ Save(t) \/ Export(t) \/ Open(t) \/ QueryHealth(t) \/ QueryDemo(t)
               \/ Swap(t) \/ Embed(t) \/ Draft(t) \/ GiveBack(t) \/ Close(t)
        PROVE  Owned'
    <3>1. UNCHANGED <<agentLock, secretLock>> /\ pc[t] # "fetch" /\ pc'[t] \notin {"idle", "lock"}
      <4>1. pc \in [Thread -> Exporting \cup {"idle", "lock", "load", "fetch", "bind", "release"}]
        BY <1>0 DEF Typed, TypeOK
      <4>2. QED
        BY <2>7, <4>1 DEF Save, Export, Open, QueryHealth, QueryDemo, Swap, Embed, Draft,
           GiveBack, Close, Go
    <3>2. \A q \in Thread : call'[q].kind = call[q].kind
      <4>1. CASE Save(t)
        <5>1. ASSUME NEW q \in Thread PROVE call'[q].kind = call[q].kind
          <6>1. CASE q = t
            BY <4>1, <6>1, <1>0 DEF Save, Call, Typed, TypeOK
          <6>2. CASE q # t
            <7>1. call'[q] = [call[q] EXCEPT !.disturbed = @ \/ q \in Inside]
              BY <4>1, <6>2 DEF Save
            <7>2. QED
              BY <7>1, <1>0 DEF Call, Typed, TypeOK
          <6>3. QED
            BY <6>1, <6>2
        <5>2. QED
          BY <5>1
      <4>2. CASE Swap(t)
        BY <4>2, <1>0 DEF Swap, Call, Typed, TypeOK
      <4>3. CASE UNCHANGED call
        BY <4>3
      <4>4. CASE \E r \in Result : Decide(t, r)
        BY <4>4, <1>0 DEF Decide, Call, Typed, TypeOK
      <4>5. QED
        BY <2>7, <4>1, <4>2, <4>3, <4>4 DEF Export, Open, QueryHealth, QueryDemo, Embed,
           Draft, GiveBack, Close, Result
    <3>3. QED
      BY <2>1, <3>1, <3>2 DEF Owned, IsDirect
  <2>8. QED
    BY <1>4, <2>2, <2>3, <2>4, <2>5, <2>6, <2>7 DEF Proceed
<1>5. QED
  BY <1>1, <1>2, <1>3, <1>4 DEF Next

\* The two locks of the handler are never waited for in a circle: as long as
\* requests are being served, one of them can go on (handler.py:190, 538).
THEOREM NeverGridlocked == Spec => []NoGridlock
<1>1. Init => Owned
  BY DEF Init, Owned
<1>2. Owned => NoGridlock
  <2> SUFFICES ASSUME Owned, NEW t \in Thread, pc[t] # "idle"
               PROVE  \E q \in Thread : pc[q] # "idle" /\ ~Waits(q)
    BY DEF NoGridlock
  <2>1. CASE secretLock # Absent
    BY <2>1 DEF Owned, Waits
  <2>2. CASE secretLock = Absent /\ agentLock # Absent
    BY <2>2 DEF Owned, Waits
  <2>3. CASE secretLock = Absent /\ agentLock = Absent
    BY <2>3 DEF Waits
  <2>4. QED
    BY <2>1, <2>2, <2>3
<1>3. QED
  BY <1>1, <1>2, Invariance, NextOwned, PTL DEF Spec
=============================================================================
