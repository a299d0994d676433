---------------------------- MODULE CaptureProofs ----------------------------
(* Proofs about Capture: what evidence rests on and what is left behind, for *)
(* every limit, chunk size, deadline and amount of output.                   *)
EXTENDS Capture, TLAPS

-----------------------------------------------------------------------------
(* The inductive invariant *)

LEMMA MinOfTwo ==
  ASSUME NEW a \in Nat, NEW b \in Nat
  PROVE  Min({a, b}) = IF a <= b THEN a ELSE b
<1> DEFINE m == IF a <= b THEN a ELSE b
<1>1. m \in {a, b} /\ \A y \in {a, b} : m <= y
  OBVIOUS
<1>2. \A x \in {a, b} : (\A y \in {a, b} : x <= y) => x = m
  OBVIOUS
<1>3. QED
  BY <1>1, <1>2 DEF Min

\* Nothing is read that was not written; a stream the selector has forgotten is
\* closed and read to its end; until the adapter is done the total is in bounds.
Streams ==
  /\ \A s \in Stream : got[s] <= written[s]
  /\ pc = "idle" => got = [s \in Stream |-> 0] /\ ready = {}
  /\ pc \in {"select", "wait", "document", "persist", "readback"} =>
       /\ Total <= MaxOutput
       /\ \A s \in Stream \ registered : s \notin open /\ got[s] = written[s]
  /\ pc = "select" => \A s \in ready : Readable(s)
  /\ pc \in {"wait", "document", "persist", "readback"} => registered = {}

\* Which child there is at each point, and what is known of it.
Children ==
  /\ pc = "idle" => child = "none"
  /\ pc \in {"document", "persist", "readback"} => child = "reaped" /\ status = 0
  /\ pc \in {"persist", "readback"} => OnTarget /\ purpose = "closure"
  /\ pc # "done" => answer = "none"
  /\ pc \notin {"readback", "done"} => ~stored

IInv == TypeOK /\ Streams /\ Children /\ ChildReaped /\ NothingCut /\ AnswerStored

-----------------------------------------------------------------------------
(* The world cannot disturb the invariant *)

LEMMA SameTarget == UNCHANGED document => (OnTarget' <=> OnTarget)
BY DEF OnTarget, Semantic

LEMMA NextWorld == IInv /\ World => IInv'
<1> SUFFICES ASSUME IInv, World PROVE IInv'
  OBVIOUS
<1> USE DEF IInv, adapter, world
<1>1. UNCHANGED <<purpose, document, registered, ready, got, pc, answer, stored>>
  BY DEF World, Tick, Exit, Write, CloseStream
<1>2. CASE Tick
  <2>1. UNCHANGED <<child, status, open, written>> /\ clock' \in 0 .. Timeout
    BY <1>2, CaptureAssumption DEF Tick, TypeOK
  <2>2. TypeOK'
    BY <1>1, <2>1 DEF TypeOK
  <2>3. QED
    BY <1>1, <2>1, <2>2, SameTarget
       DEF Streams, Children, ChildReaped, NothingCut, AnswerStored, Total, Readable, Unread
<1>3. CASE Exit
  <2>1. /\ child = "running" /\ child' = "exited" /\ status' \in {0, 1}
        /\ UNCHANGED <<clock, open, written>>
    BY <1>3 DEF Exit
  <2>2. TypeOK'
    BY <1>1, <2>1 DEF TypeOK
  <2>3. Streams' /\ AnswerStored'
    BY <1>1, <2>1 DEF Streams, Total, Readable, Unread, AnswerStored
  <2>4. Children' /\ ChildReaped' /\ NothingCut'
    BY <1>1, <2>1 DEF Children, ChildReaped, NothingCut
  <2>5. QED
    BY <2>2, <2>3, <2>4
<1>4. ASSUME NEW s \in Stream, Write(s) PROVE IInv'
  <2>1. /\ s \in open /\ written' = [written EXCEPT ![s] = @ + 1]
        /\ written[s] < MaxWritten /\ UNCHANGED <<clock, child, status, open>>
    BY <1>4 DEF Write
  <2>2. written \in [Stream -> 0 .. MaxWritten] /\ got \in [Stream -> Nat]
    BY DEF TypeOK
  <2>3. /\ written'[s] = written[s] + 1
        /\ \A q \in Stream \ {s} : written'[q] = written[q]
    BY <2>1, <2>2
  <2>4. TypeOK'
    <3>1. written' \in [Stream -> 0 .. MaxWritten]
      BY <2>1, <2>2, CaptureAssumption
    <3>2. QED
      BY <1>1, <2>1, <3>1 DEF TypeOK
  <2>5. Streams'
    BY <1>1, <2>1, <2>2, <2>3, CaptureAssumption DEF Streams, Total, Readable, Unread
  <2>6. Children' /\ ChildReaped' /\ AnswerStored'
    BY <1>1, <2>1, SameTarget DEF Children, ChildReaped, AnswerStored
  <2>7. NothingCut'
    BY <1>1, <2>1 DEF NothingCut
  <2>8. QED
    BY <2>4, <2>5, <2>6, <2>7
<1>5. ASSUME NEW s \in Stream, CloseStream(s) PROVE IInv'
  <2>1. /\ open' = open \ {s} /\ UNCHANGED <<clock, child, status, written>>
    BY <1>5 DEF CloseStream
  <2>2. TypeOK'
    BY <1>1, <2>1 DEF TypeOK
  <2>3. Streams'
    BY <1>1, <2>1 DEF Streams, Total, Readable, Unread
  <2>4. Children' /\ ChildReaped' /\ AnswerStored'
    BY <1>1, <2>1, SameTarget DEF Children, ChildReaped, AnswerStored
  <2>5. NothingCut'
    BY <1>1, <2>1, SameTarget DEF NothingCut, Total
  <2>6. QED
    BY <2>2, <2>3, <2>4, <2>5
<1>6. QED
  BY <1>2, <1>3, <1>4, <1>5 DEF World

-----------------------------------------------------------------------------
(* The adapter keeps it *)

\* A step that ends the capture without evidence needs no more than its types.
LEMMA NextBlocked ==
  ASSUME IInv, pc = "select", Block, UNCHANGED <<purpose, document, clock, status, open, written>>,
         UNCHANGED stored, ready' \subseteq registered', registered' \subseteq Stream,
         got' \in [Stream -> Nat], \A s \in Stream : got'[s] <= written[s]
  PROVE  IInv'
<1> USE DEF IInv
<1>1. pc' = "done" /\ answer' = "blocked" /\ child' = "reaped" /\ ~stored'
  BY DEF Block, Answer, Children
<1>2. TypeOK'
  BY <1>1 DEF TypeOK
<1>3. QED
  BY <1>1, <1>2 DEF Streams, Children, ChildReaped, NothingCut, AnswerStored

\* What a read takes: something, if there is anything, and no more than there is.
LEMMA ReadTakes ==
  ASSUME IInv, NEW s \in Stream, Read(s)
  PROVE  \E size \in Nat :
           /\ size <= Unread(s) /\ (size = 0 => Unread(s) = 0)
           /\ got'[s] = got[s] + size
           /\ \A q \in Stream \ {s} : got'[q] = got[q]
           /\ got' \in [Stream -> Nat]
           /\ registered' = IF size = 0 THEN registered \ {s} ELSE registered
           /\ IF Total + size > MaxOutput THEN Block ELSE Go("select") /\ UNCHANGED child
<1> USE DEF IInv, Stream
<1> DEFINE size == Min({ReadSize, Unread(s)})
<1>1. /\ pc = "select" /\ s \in ready
      /\ got' = [got EXCEPT ![s] = @ + size]
      /\ registered' = IF size = 0 THEN registered \ {s} ELSE registered
      /\ IF Total + size > MaxOutput THEN Block ELSE Go("select") /\ UNCHANGED child
  BY DEF Read
<1>2. got \in [Stream -> Nat] /\ written \in [Stream -> 0 .. MaxWritten]
  BY DEF TypeOK
<1>3. Unread(s) \in Nat /\ Total \in Nat /\ Total <= MaxOutput
  BY <1>1, <1>2, CaptureAssumption DEF Unread, Total, Streams
<1>4. ReadSize \in Nat \ {0}
  <2>1. MaxOutput + 1 - Total \in Nat \ {0}
    BY <1>3, CaptureAssumption
  <2>2. QED
    BY <2>1, CaptureAssumption, MinOfTwo DEF ReadSize
<1>5. size \in Nat /\ size <= Unread(s) /\ (size = 0 => Unread(s) = 0)
  <2>1. size = IF ReadSize <= Unread(s) THEN ReadSize ELSE Unread(s)
    BY <1>3, <1>4, MinOfTwo
  <2>2. QED
    BY <1>3, <1>4, <2>1
<1> HIDE DEF size
<1>6. /\ got'[s] = got[s] + size
      /\ \A q \in Stream \ {s} : got'[q] = got[q]
      /\ got' \in [Stream -> Nat]
  BY <1>1, <1>2, <1>5
<1>7. QED
  BY <1>1, <1>5, <1>6

LEMMA NextRead ==
  ASSUME IInv, NEW s \in Stream, Read(s)
  PROVE  IInv'
<1> USE DEF IInv, Stream
<1>1. /\ pc = "select" /\ s \in ready /\ ready' = ready \ {s}
      /\ UNCHANGED <<purpose, document, clock, status, open, written, stored>>
  BY DEF Read
<1>2. got \in [Stream -> Nat] /\ written \in [Stream -> 0 .. MaxWritten]
  BY DEF TypeOK
<1>3. Unread(s) \in Nat /\ Total \in Nat /\ Total <= MaxOutput
  BY <1>1, <1>2, CaptureAssumption DEF Unread, Total, Streams
<1>4. PICK size \in Nat :
        /\ size <= Unread(s) /\ (size = 0 => Unread(s) = 0)
        /\ got'[s] = got[s] + size
        /\ \A q \in Stream \ {s} : got'[q] = got[q]
        /\ got' \in [Stream -> Nat]
        /\ registered' = IF size = 0 THEN registered \ {s} ELSE registered
        /\ IF Total + size > MaxOutput THEN Block ELSE Go("select") /\ UNCHANGED child
  BY ReadTakes
<1>5. size \in Nat /\ size <= Unread(s) /\ (size = 0 => Unread(s) = 0)
  BY <1>4
<1>6. /\ got'[s] = got[s] + size
      /\ \A q \in Stream \ {s} : got'[q] = got[q]
      /\ got' \in [Stream -> Nat]
  BY <1>4
<1>7. \A q \in Stream : got'[q] <= written[q]
  BY <1>2, <1>5, <1>6 DEF Unread, Streams
<1>8. ready' \subseteq registered' /\ registered' \subseteq Stream
  BY <1>1, <1>4 DEF TypeOK
<1>9. CASE Total + size > MaxOutput
  BY <1>1, <1>4, <1>6, <1>7, <1>8, <1>9, NextBlocked
<1>10. CASE ~(Total + size > MaxOutput)
  <2>1. pc' = "select" /\ UNCHANGED <<answer, child>>
    BY <1>4, <1>10 DEF Go
  <2>2. TypeOK'
    BY <1>1, <1>6, <1>8, <2>1 DEF TypeOK
  <2>3. Total' = Total + size
    BY <1>2, <1>5, <1>6 DEF Total
  <2>4. ASSUME NEW q \in Stream \ registered'
        PROVE q \notin open' /\ got'[q] = written'[q]
    <3>1. CASE q \in registered
      <4>1. q = s /\ size = 0
        BY <1>4, <2>4, <3>1
      <4>2. s \notin open
        BY <1>1, <1>5, <4>1 DEF Streams, Readable
      <4>3. QED
        BY <1>1, <1>2, <1>5, <1>6, <4>1, <4>2 DEF Unread
    <3>2. CASE q \notin registered
      <4>1. q # s
        BY <1>1, <3>2 DEF TypeOK
      <4>2. QED
        BY <1>1, <1>6, <3>2, <4>1 DEF Streams
    <3>3. QED
      BY <3>1, <3>2
  <2>5. \A q \in ready' : Readable(q)'
    BY <1>1, <1>6 DEF Streams, Readable, Unread, TypeOK
  <2>6. Streams'
    BY <1>1, <1>3, <1>5, <1>7, <1>10, <2>1, <2>3, <2>4, <2>5, CaptureAssumption DEF Streams
  <2>7. Children' /\ ChildReaped' /\ NothingCut' /\ AnswerStored'
    BY <1>1, <2>1 DEF Children, ChildReaped, NothingCut, AnswerStored
  <2>8. QED
    BY <2>2, <2>6, <2>7
<1>11. QED
  BY <1>9, <1>10

LEMMA NextAdapter == IInv /\ (Spawn \/ Proceed) => IInv'
<1> SUFFICES ASSUME IInv, Spawn \/ Proceed PROVE IInv'
  OBVIOUS
<1> USE DEF IInv, adapter, world
<1>1. CASE Spawn
  <2>1. /\ pc = "idle" /\ answer = "none" /\ ~stored /\ child = "none"
        /\ UNCHANGED <<purpose, document, clock, status, written, ready, got, stored>>
    BY <1>1 DEF Spawn, Children
  <2>2. got = [s \in Stream |-> 0] /\ Total = 0 /\ ready = {}
    BY <2>1 DEF Streams, Total, Stream
  <2>3. CASE child' = "running" /\ open' = Stream /\ registered' = Stream /\ Go("select")
    <3>1. TypeOK'
      BY <2>1, <2>2, <2>3 DEF Go, TypeOK
    <3>2. Streams'
      BY <2>1, <2>2, <2>3, CaptureAssumption DEF Go, Streams, Total, Readable, Unread
    <3>3. Children' /\ ChildReaped' /\ NothingCut' /\ AnswerStored'
      BY <2>1, <2>3 DEF Go, Children, ChildReaped, NothingCut, AnswerStored
    <3>4. QED
      BY <3>1, <3>2, <3>3
  <2>4. CASE Answer("blocked") /\ UNCHANGED <<child, open, registered>>
    <3>1. TypeOK'
      BY <2>1, <2>4 DEF Answer, TypeOK
    <3>2. QED
      BY <2>1, <2>4, <3>1
         DEF Answer, Streams, Children, ChildReaped, NothingCut, AnswerStored
  <2>5. QED
    BY <1>1, <2>3, <2>4 DEF Spawn
<1>2. CASE Select
  <2>1. /\ pc = "select" /\ ready' = {s \in registered : Readable(s)}
        /\ UNCHANGED <<purpose, document, clock, child, status, open, written, registered,
                       got, pc, answer, stored>>
    BY <1>2 DEF Select
  <2>2. TypeOK'
    BY <2>1 DEF TypeOK
  <2>3. Streams'
    BY <2>1 DEF Streams, Total, Readable, Unread
  <2>4. QED
    BY <2>1, <2>2, <2>3, SameTarget DEF Children, ChildReaped, NothingCut, AnswerStored
<1>3. ASSUME NEW s \in Stream, Read(s) PROVE IInv'
  BY <1>3, NextRead
<1>4. CASE GiveUp
  BY <1>4, NextBlocked DEF GiveUp, TypeOK, Streams
<1>5. CASE Drained
  <2>1. /\ pc = "select" /\ registered = {} /\ pc' = "wait"
        /\ UNCHANGED <<purpose, document, clock, child, status, open, written, registered,
                       ready, got, answer, stored>>
    BY <1>5 DEF Drained, Go
  <2>2. TypeOK'
    BY <2>1 DEF TypeOK
  <2>3. Streams'
    BY <2>1 DEF Streams, Total
  <2>4. QED
    BY <2>1, <2>2, <2>3 DEF Children, ChildReaped, NothingCut, AnswerStored
<1>6. CASE Wait
  <2>1. /\ pc = "wait" /\ child' = "reaped" /\ answer = "none" /\ ~stored
        /\ UNCHANGED <<purpose, document, clock, status, open, written, registered,
                       ready, got, stored>>
    BY <1>6 DEF Wait, Children
  <2>2. CASE status = 0 /\ Go("document")
    <3>1. TypeOK'
      BY <2>1, <2>2 DEF Go, TypeOK
    <3>2. Streams'
      BY <2>1, <2>2 DEF Go, Streams, Total
    <3>3. QED
      BY <2>1, <2>2, <3>1, <3>2 DEF Go, Children, ChildReaped, NothingCut, AnswerStored
  <2>3. CASE Answer("blocked")
    <3>1. TypeOK'
      BY <2>1, <2>3 DEF Answer, TypeOK
    <3>2. QED
      BY <2>1, <2>3, <3>1
         DEF Answer, Streams, Children, ChildReaped, NothingCut, AnswerStored
  <2>4. QED
    BY <1>6, <2>2, <2>3 DEF Wait
<1>7. CASE WaitExpires
  <2>1. /\ pc = "wait" /\ pc' = "done" /\ answer' = "raised" /\ ~stored
        /\ UNCHANGED <<purpose, document, clock, child, status, open, written, registered,
                       ready, got, stored>>
    BY <1>7 DEF WaitExpires, Answer, Children
  <2>2. TypeOK'
    BY <2>1 DEF TypeOK
  <2>3. QED
    BY <2>1, <2>2 DEF Streams, Children, ChildReaped, NothingCut, AnswerStored
<1>8. CASE Describe
  <2>1. /\ pc = "document" /\ answer = "none" /\ ~stored /\ child = "reaped" /\ status = 0
        /\ UNCHANGED <<purpose, document, clock, child, status, open, written, registered,
                       ready, got, stored>>
    BY <1>8 DEF Describe, Children
  <2>2. CASE Answer("blocked")
    <3>1. TypeOK'
      BY <2>1, <2>2 DEF Answer, TypeOK
    <3>2. QED
      BY <2>1, <2>2, <3>1
         DEF Answer, Streams, Children, ChildReaped, NothingCut, AnswerStored
  <2>3. CASE OnTarget /\ purpose = "runtime" /\ Answer("captured")
    <3>1. pc' = "done" /\ answer' = "captured"
      BY <2>3 DEF Answer
    <3>2. TypeOK'
      BY <2>1, <3>1 DEF TypeOK
    <3>3. NothingCut'
      <4>1. OnTarget' /\ Total' = Total
        BY <2>1, <2>3, SameTarget DEF Total
      <4>2. \A s \in Stream : s \notin open /\ got[s] = written[s]
        BY <2>1 DEF Streams
      <4>3. got = written /\ open = {}
        BY <4>2 DEF TypeOK
      <4>4. QED
        BY <2>1, <3>1, <4>1, <4>3 DEF NothingCut, Streams
    <3>4. Streams' /\ Children' /\ ChildReaped' /\ AnswerStored'
      BY <2>1, <2>3, <3>1 DEF Streams, Children, ChildReaped, AnswerStored
    <3>5. QED
      BY <3>2, <3>3, <3>4
  <2>4. CASE OnTarget /\ purpose # "runtime" /\ Go("persist")
    <3>1. pc' = "persist" /\ answer' = "none" /\ purpose' = "closure" /\ OnTarget'
      BY <2>1, <2>4, SameTarget DEF Go, TypeOK
    <3>2. TypeOK'
      BY <2>1, <3>1 DEF TypeOK
    <3>3. Streams'
      BY <2>1, <3>1 DEF Streams, Total
    <3>4. QED
      BY <2>1, <3>1, <3>2, <3>3 DEF Children, ChildReaped, NothingCut, AnswerStored
  <2>5. QED
    BY <1>8, <2>2, <2>3, <2>4 DEF Describe
<1>9. CASE Insert \/ ReadBack
  <2>1. /\ pc \in {"persist", "readback"} /\ child = "reaped" /\ status = 0
        /\ OnTarget /\ purpose = "closure" /\ stored' \in BOOLEAN
        /\ \/ pc' = "readback" /\ answer' = "none"
           \/ pc' = "done" /\ answer' = "captured" /\ stored'
           \/ pc' = "done" /\ answer' = "blocked"
        /\ UNCHANGED <<purpose, document, clock, child, status, open, written, registered,
                       ready, got>>
    BY <1>9 DEF Insert, ReadBack, Go, Answer, Children, TypeOK
  <2>2. TypeOK'
    BY <2>1 DEF TypeOK
  <2>3. NothingCut'
    <3>1. OnTarget' /\ Total' = Total
      BY <2>1, SameTarget DEF Total
    <3>2. \A s \in Stream : s \notin open /\ got[s] = written[s]
      BY <2>1 DEF Streams
    <3>3. got = written /\ open = {}
      BY <3>2 DEF TypeOK
    <3>4. QED
      BY <2>1, <3>1, <3>3 DEF NothingCut, Streams
  <2>4. Streams'
    BY <2>1 DEF Streams, Total
  <2>5. Children' /\ ChildReaped' /\ AnswerStored'
    BY <2>1, SameTarget DEF Children, ChildReaped, AnswerStored
  <2>6. QED
    BY <2>2, <2>3, <2>4, <2>5
<1>10. QED
  BY <1>1, <1>2, <1>3, <1>4, <1>5, <1>6, <1>7, <1>8, <1>9 DEF Proceed

-----------------------------------------------------------------------------
(* The theorems *)

LEMMA InitIInv == Init => IInv
<1> SUFFICES ASSUME Init PROVE IInv
  OBVIOUS
<1>1. TypeOK
  <2>1. clock \in 0 .. Timeout /\ written \in [Stream -> 0 .. MaxWritten]
        /\ got \in [Stream -> Nat]
    BY CaptureAssumption DEF Init
  <2>2. QED
    BY <2>1 DEF Init, TypeOK
<1>2. QED
  BY <1>1 DEF Init, IInv, Streams, Children, ChildReaped, NothingCut, AnswerStored

LEMMA NextIInv == IInv /\ [Next]_vars => IInv'
<1> SUFFICES ASSUME IInv, [Next]_vars PROVE IInv'
  OBVIOUS
<1>1. CASE UNCHANGED vars
  <2>1. UNCHANGED <<purpose, document, clock, child, status, open, written, registered,
                    ready, got, pc, answer, stored>>
    BY <1>1 DEF vars, world, adapter
  <2>2. TypeOK'
    BY <2>1 DEF IInv, TypeOK
  <2>3. QED
    BY <2>1, <2>2, SameTarget
       DEF IInv, Streams, Children, ChildReaped, NothingCut, AnswerStored, Total, Readable,
           Unread
<1>2. CASE World
  BY <1>2, NextWorld
<1>3. CASE Spawn \/ Proceed
  BY <1>3, NextAdapter
<1>4. QED
  BY <1>1, <1>2, <1>3 DEF Next

LEMMA Invariance == Spec => []IInv
BY InitIInv, NextIInv, PTL DEF Spec

\* Every value of the adapter has its shape in every reachable state; only
\* streams the selector knows are ever read (ccloud_tool.py:173-188).
THEOREM TypeCorrect == Spec => []TypeOK
<1>1. IInv => TypeOK
  BY DEF IInv
<1>2. QED
  BY <1>1, Invariance, PTL

\* Whenever the adapter gives up or answers in an orderly way, which the uncaught
\* TimeoutExpired is not, no child is left (ccloud_tool.py:212-230).
THEOREM ChildIsReaped == Spec => []ChildReaped
<1>1. IInv => ChildReaped
  BY DEF IInv
<1>2. QED
  BY <1>1, Invariance, PTL

\* Whatever the limit, the chunks and the order of writing, closing, reading and
\* exiting, evidence rests on the whole output, and the evidence a closure
\* capture reports is stored (ccloud_tool.py:173-188, 237, 468-503).
THEOREM EvidenceIsSound == Spec => []EvidenceSound
<1>1. IInv => EvidenceSound
  BY DEF IInv, EvidenceSound
<1>2. QED
  BY <1>1, Invariance, PTL

-----------------------------------------------------------------------------
(* How long a capture can run *)

Count(S) == (IF "stdout" \in S THEN 1 ELSE 0) + (IF "stderr" \in S THEN 1 ELSE 0)

\* The steps the adapter has left at most.  A selected stream that is not at
\* its end brings output, of which there can be MaxOutput + 1 units before the
\* adapter gives up; one that is at its end is forgotten.
StepsLeft ==
  CASE pc = "select"   -> 5 + 3 * (MaxOutput - Total) + 3 * Count(registered) - Count(ready)
    [] pc = "wait"     -> 4
    [] pc = "document" -> 3
    [] pc = "persist"  -> 2
    [] pc = "readback" -> 1
    [] pc \in {"idle", "done"} -> 0

CaptureBounded == StepsLeft \in 0 .. 3 * MaxOutput + 11

\* Every step of a running adapter brings it nearer to its answer, and nothing
\* the child or the clock does sends it back.
CaptureNearsAnswer ==
  \/ StepsLeft' < StepsLeft
  \/ pc = "idle"
  \/ ~Proceed /\ StepsLeft' = StepsLeft

LEMMA StepsLeftBounded == IInv => CaptureBounded
<1> SUFFICES ASSUME IInv PROVE CaptureBounded
  OBVIOUS
<1>1. Total \in Nat /\ MaxOutput \in Nat
  BY CaptureAssumption DEF IInv, TypeOK, Total, Stream
<1>2. /\ Count(ready) \in 0 .. 2 /\ Count(registered) \in 0 .. 2
      /\ Count(ready) <= Count(registered)
  BY DEF Count, IInv, TypeOK
<1>3. pc \in {"idle", "select", "wait", "document", "persist", "readback", "done"}
      /\ (pc = "select" => Total <= MaxOutput)
  BY DEF IInv, TypeOK, Streams
<1>4. QED
  BY <1>1, <1>2, <1>3 DEF CaptureBounded, StepsLeft

LEMMA ReadNears ==
  ASSUME IInv, NEW s \in Stream, Read(s)
  PROVE  StepsLeft' < StepsLeft
<1>1. PICK size \in Nat :
        /\ size <= Unread(s) /\ (size = 0 => Unread(s) = 0)
        /\ got'[s] = got[s] + size
        /\ \A q \in Stream \ {s} : got'[q] = got[q]
        /\ got' \in [Stream -> Nat]
        /\ registered' = IF size = 0 THEN registered \ {s} ELSE registered
        /\ IF Total + size > MaxOutput THEN Block ELSE Go("select") /\ UNCHANGED child
  BY ReadTakes
<1>2. pc = "select" /\ s \in ready /\ ready' = ready \ {s} /\ ready \subseteq registered
  BY DEF Read, IInv, TypeOK
<1>3. Total \in Nat /\ MaxOutput \in Nat /\ Total <= MaxOutput /\ Total' = Total + size
  BY <1>1, <1>2, CaptureAssumption DEF IInv, TypeOK, Total, Stream, Streams
<1>4. /\ Count(ready) \in Nat /\ Count(registered) \in Nat
      /\ Count(ready) <= Count(registered)
      /\ Count(ready') = Count(ready) - 1
      /\ Count(registered') = IF size = 0 THEN Count(registered) - 1 ELSE Count(registered)
  BY <1>1, <1>2 DEF Count, Stream
<1>5. pc' = "done" \/ pc' = "select"
  BY <1>1 DEF Block, Answer, Go
<1>6. StepsLeft = 5 + 3 * (MaxOutput - Total) + 3 * Count(registered) - Count(ready)
  BY <1>2 DEF StepsLeft
<1>7. CASE pc' = "done"
  <2>1. StepsLeft' = 0
    BY <1>7 DEF StepsLeft
  <2>2. QED
    BY <1>3, <1>4, <1>6, <2>1
<1>8. CASE pc' = "select"
  <2>1. StepsLeft' = 5 + 3 * (MaxOutput - Total') + 3 * Count(registered') - Count(ready')
    BY <1>8 DEF StepsLeft
  <2>2. QED
    BY <1>3, <1>4, <1>6, <2>1
<1>9. QED
  BY <1>5, <1>7, <1>8

LEMMA SelectNears ==
  ASSUME IInv, Select, ready' # ready
  PROVE  StepsLeft' < StepsLeft
<1>1. /\ pc = "select" /\ ready = {} /\ pc' = "select" /\ ready' \subseteq Stream
      /\ registered' = registered /\ got' = got
  BY DEF Select, IInv, TypeOK
<1>2. Total \in Nat /\ MaxOutput \in Nat /\ Total' = Total
  BY <1>1, CaptureAssumption DEF IInv, TypeOK, Total, Stream
<1>3. /\ Count(ready) = 0 /\ Count(registered) \in Nat /\ Count(registered') = Count(registered)
      /\ Count(ready') \in Nat /\ Count(ready') > 0
  <2>1. "stdout" \in ready' \/ "stderr" \in ready'
    BY <1>1 DEF Stream
  <2>2. QED
    BY <1>1, <2>1 DEF Count
<1>4. QED
  BY <1>1, <1>2, <1>3 DEF StepsLeft

LEMMA ProceedNears ==
  ASSUME IInv, Proceed
  PROVE  StepsLeft' < StepsLeft \/ UNCHANGED vars
<1>1. ASSUME NEW s \in Stream, Read(s) PROVE StepsLeft' < StepsLeft
  BY <1>1, ReadNears
<1>2. CASE Select
  <2>1. CASE ready' = ready
    BY <1>2, <2>1 DEF Select, vars, world, adapter
  <2>2. QED
    BY <1>2, <2>1, SelectNears
<1>3. CASE GiveUp \/ Drained
  <2>1. pc = "select" /\ pc' \in {"wait", "done"} /\ ready = {}
    BY <1>3 DEF GiveUp, Drained, Block, Answer, Go
  <2>2. /\ Total \in Nat /\ MaxOutput \in Nat /\ Total <= MaxOutput
        /\ Count(ready) = 0 /\ Count(registered) \in Nat
    BY <2>1, CaptureAssumption DEF IInv, TypeOK, Total, Stream, Streams, Count
  <2>3. QED
    BY <2>1, <2>2 DEF StepsLeft
<1>4. CASE Wait \/ WaitExpires \/ Describe \/ Insert \/ ReadBack
  BY <1>4 DEF Wait, WaitExpires, Describe, Insert, ReadBack, Answer, Go, StepsLeft
<1>5. QED
  BY <1>1, <1>2, <1>3, <1>4 DEF Proceed

\* The world moves something that the adapter leaves alone, and the other way
\* round: a step is of one of them.
LEMMA WorldApart ==
  ASSUME IInv, World
  PROVE  ~Proceed /\ StepsLeft' = StepsLeft
<1>1. UNCHANGED <<registered, ready, got, pc>>
  BY DEF World, Tick, Exit, Write, CloseStream, adapter
<1>2. StepsLeft' = StepsLeft
  <2>1. Total' = Total
    BY <1>1 DEF Total
  <2>2. QED
    BY <1>1, <2>1 DEF StepsLeft
<1>3. ASSUME Proceed PROVE FALSE
  <2>1. CASE Select
    <3>1. UNCHANGED <<clock, child, open, written>>
      BY <2>1 DEF Select, world
    <3>2. QED
      BY <3>1 DEF World, Tick, Exit, Write, CloseStream, IInv, TypeOK
  <2>2. ASSUME NEW s \in Stream, Read(s) PROVE FALSE
    BY <1>1, <2>2 DEF Read
  <2>3. CASE GiveUp \/ Drained \/ Wait \/ WaitExpires \/ Describe \/ Insert \/ ReadBack
    BY <1>1, <2>3 DEF GiveUp, Drained, Wait, WaitExpires, Describe, Insert, ReadBack, Block, Answer, Go
  <2>4. QED
    BY <1>3, <2>1, <2>2, <2>3 DEF Proceed
<1>4. QED
  BY <1>2, <1>3

\* A capture is answered within 3 * MaxOutput + 11 steps of the adapter that
\* change anything, whatever the child writes, closes or keeps open: the safety
\* half of CaptureReturns (ccloud_tool.py:bounded_process, _read_ready).
THEOREM CaptureNearsItsAnswer == Spec => []CaptureBounded /\ [][CaptureNearsAnswer]_vars
<1>1. IInv /\ [Next]_vars => [CaptureNearsAnswer]_vars
  <2> SUFFICES ASSUME IInv, Next, ~UNCHANGED vars PROVE CaptureNearsAnswer
    OBVIOUS
  <2>1. CASE Spawn
    BY <2>1 DEF Spawn, CaptureNearsAnswer
  <2>2. CASE Proceed
    BY <2>2, ProceedNears DEF CaptureNearsAnswer
  <2>3. CASE World
    BY <2>3, WorldApart DEF CaptureNearsAnswer
  <2>4. QED
    BY <2>1, <2>2, <2>3 DEF Next
<1>2. QED
  BY <1>1, StepsLeftBounded, Invariance, PTL DEF Spec
=============================================================================
