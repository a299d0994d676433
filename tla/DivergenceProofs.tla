--------------------------- MODULE DivergenceProofs ---------------------------
(* Proofs about Divergence, for any JSON values: what the leaves of a        *)
(* comparison are, that their pointers tell them apart, and the range of the *)
(* score.  Recursive functions are shown to exist before they are used, and  *)
(* induction is over sets of numbers.                                        *)
EXTENDS Divergence, Integers, SequenceTheorems, FiniteSetTheorems,
        WellFoundedInduction, TLAPS

-----------------------------------------------------------------------------
(* Induction and recursion *)

\* Numbers that are there have a least one.
LEMMA LeastNatural ==
  ASSUME NEW T, T \subseteq Nat, T # {}
  PROVE  \E x \in T : \A y \in T : x <= y
<1> DEFINE Below == {p \in Nat \X Nat : p[1] < p[2]}
<1>1. IsWellFoundedOn(Below, Nat)
  BY NatLessThanWellFounded DEF OpToRel
<1>2. PICK x \in T : \A y \in T : <<y, x>> \notin Below
  <2> HIDE DEF Below
  <2> QED BY <1>1, WFMin
<1>3. \A y \in T : <<y, x>> \notin Below => x <= y
  OBVIOUS
<1>4. QED
  BY <1>2, <1>3

\* A set that has every element whose predecessors by rank it has is everything.
LEMMA RankInduction ==
  ASSUME NEW D, NEW rank \in [D -> Nat], NEW S,
         \A x \in D : (\A y \in D : rank[y] < rank[x] => y \in S) => x \in S
  PROVE  D \subseteq S
<1> SUFFICES ASSUME D \ S # {} PROVE FALSE
  OBVIOUS
<1> DEFINE T == {rank[x] : x \in D \ S}
<1>1. T # {} /\ T \subseteq Nat
  OBVIOUS
<1>2. PICK n \in T : \A m \in T : n <= m
  <2> HIDE DEF T
  <2> QED BY <1>1, LeastNatural
<1>3. PICK x \in D \ S : rank[x] = n
  BY <1>2
<1>4. \A y \in D : rank[y] < rank[x] => y \in S
  BY <1>2, <1>3
<1>5. QED
  BY <1>3, <1>4

LEMMA Induction ==
  ASSUME NEW S, 0 \in S, \A n \in Nat : n \in S => n + 1 \in S
  PROVE  Nat \subseteq S
<1> DEFINE rank == [n \in Nat |-> n]
<1>1. ASSUME NEW n \in Nat, \A m \in Nat : rank[m] < rank[n] => m \in S
      PROVE  n \in S
  <2>1. CASE n = 0
    BY <2>1
  <2>2. CASE n # 0
    <3>1. n - 1 \in Nat /\ n - 1 < n /\ (n - 1) + 1 = n
      BY <2>2
    <3>2. n - 1 \in S
      BY <1>1, <3>1
    <3>3. QED
      BY <3>1, <3>2
  <2>3. QED
    BY <2>1, <2>2
<1>2. rank \in [Nat -> Nat]
  OBVIOUS
<1> HIDE DEF rank
<1>3. QED
  BY <1>1, <1>2, RankInduction

\* F computes a value of R at x in D from the values at lower ranks.
Recursive(F, D, R, rank) ==
  /\ R # {}
  /\ rank \in [D -> Nat]
  /\ F \in [[D -> R] \X D -> R]
  /\ \A f, g \in [D -> R], x \in D :
       (\A y \in D : rank[y] < rank[x] => f[y] = g[y]) => F[<<f, x>>] = F[<<g, x>>]

LEMMA Recursion ==
  ASSUME NEW D, NEW R, NEW rank, NEW F, Recursive(F, D, R, rank)
  PROVE  \E f \in [D -> R] : \A x \in D : f[x] = F[<<f, x>>]
<1> USE DEF Recursive
<1> DEFINE Solves(f, n) == \A x \in D : rank[x] < n => f[x] = F[<<f, x>>]
           Solvable == {n \in Nat : \E f \in [D -> R] : Solves(f, n)}
<1>1. 0 \in Solvable
  <2>1. PICK r \in R : TRUE
    OBVIOUS
  <2>2. [x \in D |-> r] \in [D -> R] /\ Solves([x \in D |-> r], 0)
    OBVIOUS
  <2>3. QED
    BY <2>2
<1>2. ASSUME NEW n \in Nat, n \in Solvable PROVE n + 1 \in Solvable
  <2>1. PICK f \in [D -> R] : Solves(f, n)
    BY <1>2
  <2> DEFINE g == [x \in D |-> F[<<f, x>>]]
  <2>2. g \in [D -> R]
    OBVIOUS
  <2>3. ASSUME NEW x \in D, rank[x] < n + 1 PROVE g[x] = F[<<g, x>>]
    <3>1. \A y \in D : rank[y] < rank[x] => rank[y] < n
      BY <2>3
    <3>2. \A y \in D : rank[y] < rank[x] => f[y] = g[y]
      BY <2>1, <3>1
    <3> HIDE DEF g
    <3>3. F[<<f, x>>] = F[<<g, x>>]
      BY <2>2, <3>2
    <3>4. QED
      BY <3>3 DEF g
  <2>4. Solves(g, n + 1)
    BY <2>3
  <2> HIDE DEF g, Solves
  <2>5. QED
    BY <2>2, <2>4
<1>3. Nat \subseteq Solvable
  <2> HIDE DEF Solvable
  <2> QED BY <1>1, <1>2, Induction
<1>4. ASSUME NEW m \in Nat, NEW n \in Nat, NEW f \in [D -> R], NEW g \in [D -> R],
             Solves(f, m), Solves(g, n)
      PROVE  \A x \in D : rank[x] < m /\ rank[x] < n => f[x] = g[x]
  <2> DEFINE S == {x \in D : rank[x] < m /\ rank[x] < n => f[x] = g[x]}
  <2>1. ASSUME NEW x \in D, \A y \in D : rank[y] < rank[x] => y \in S PROVE x \in S
    <3> SUFFICES ASSUME rank[x] < m, rank[x] < n PROVE f[x] = g[x]
      OBVIOUS
    <3>1. \A y \in D : rank[y] < rank[x] => f[y] = g[y]
      BY <2>1
    <3>2. F[<<f, x>>] = F[<<g, x>>]
      BY <3>1
    <3>3. QED
      BY <3>2, <1>4
  <2>2. D \subseteq S
    <3> HIDE DEF S
    <3> QED BY <2>1, RankInduction
  <2>3. QED
    BY <2>2
<1>5. PICK part \in [Nat -> [D -> R]] : \A n \in Nat : Solves(part[n], n)
  <2> DEFINE part == [n \in Nat |-> CHOOSE f \in [D -> R] : Solves(f, n)]
  <2>1. ASSUME NEW n \in Nat PROVE part[n] \in [D -> R] /\ Solves(part[n], n)
    <3>1. \E f \in [D -> R] : Solves(f, n)
      BY <1>3
    <3> HIDE DEF Solves
    <3>2. QED
      BY <3>1
  <2> HIDE DEF Solves
  <2>2. part \in [Nat -> [D -> R]]
    BY <2>1
  <2>3. QED
    BY <2>1, <2>2
<1> DEFINE h == [x \in D |-> part[rank[x] + 1][x]]
<1>6. h \in [D -> R] /\ \A x \in D : rank[x] + 1 \in Nat
  OBVIOUS
<1>7. ASSUME NEW x \in D PROVE h[x] = F[<<h, x>>]
  <2>1. PICK f \in [D -> R] : f = part[rank[x] + 1]
    BY <1>6
  <2>2. Solves(f, rank[x] + 1)
    <3> HIDE DEF Solves
    <3> QED BY <1>5, <1>6, <2>1
  <2>3. h[x] = F[<<f, x>>]
    <3>1. h[x] = f[x]
      BY <2>1
    <3>2. rank[x] < rank[x] + 1
      BY <1>6
    <3>3. f[x] = F[<<f, x>>]
      BY <2>2, <3>2
    <3>4. QED
      BY <3>1, <3>3
  <2>4. ASSUME NEW y \in D, rank[y] < rank[x] PROVE f[y] = h[y]
    <3>1. PICK g \in [D -> R] : g = part[rank[y] + 1]
      BY <1>6
    <3>2. Solves(g, rank[y] + 1)
      <4> HIDE DEF Solves
      <4> QED BY <1>5, <1>6, <3>1
    <3>3. rank[y] < rank[x] + 1 /\ rank[y] < rank[y] + 1
      BY <2>4
    <3>4. h[y] = g[y]
      BY <3>1
    <3> HIDE DEF h, Solves
    <3>5. QED
      BY <2>2, <3>2, <3>3, <3>4, <1>4, <1>6
  <2> HIDE DEF h, Solves
  <2>5. QED
    BY <1>6, <2>3, <2>4
<1>8. QED
  <2> HIDE DEF h
  <2> QED BY <1>6, <1>7

-----------------------------------------------------------------------------
(* Flattened sequences *)

\* FlattenSeq concatenates from the left.
LEMMA FlattenSolution ==
  ASSUME NEW S, NEW s \in Seq(Seq(S)), s # <<>>
  PROVE  \E f \in [1 .. Len(s) -> Seq(S)] :
           /\ \A i \in 1 .. Len(s) : f[i] = IF i = 1 THEN s[i] ELSE f[i - 1] \o s[i]
           /\ FlattenSeq(s) = f[Len(s)]
<1> DEFINE D == 1 .. Len(s)
           R == Seq(S)
           F == [fx \in [D -> R] \X D |->
                   IF fx[2] = 1 THEN s[fx[2]] ELSE fx[1][fx[2] - 1] \o s[fx[2]]]
           Solution(f) == f = [i \in D |-> IF i = 1 THEN s[i] ELSE f[i - 1] \o s[i]]
<1>1. Len(s) \in Nat /\ Len(s) \in D /\ \A i \in D : s[i] \in R /\ i \in Nat
  BY LenProperties, EmptySeq, ElementOfSeq
<1>2. \A i \in D : i # 1 => i - 1 \in D
  BY <1>1
<1>3. F \in [[D -> R] \X D -> R]
  <2>1. ASSUME NEW f \in [D -> R], NEW i \in D
        PROVE (IF i = 1 THEN s[i] ELSE f[i - 1] \o s[i]) \in R
    <3>1. CASE i = 1
      BY <3>1, <1>1
    <3>2. CASE i # 1
      <4>1. f[i - 1] \in R /\ s[i] \in R
        BY <3>2, <1>1, <1>2
      <4>2. f[i - 1] \o s[i] \in R
        BY <4>1, ConcatProperties
      <4>3. QED
        BY <3>2, <4>2
    <3>3. QED
      BY <3>1, <3>2
  <2> HIDE DEF D, R
  <2>2. QED
    BY <2>1
<1>4. \A f \in [D -> R], i \in D :
         F[<<f, i>>] = IF i = 1 THEN s[i] ELSE f[i - 1] \o s[i]
  <2> HIDE DEF D, R
  <2>1. QED
    OBVIOUS
<1> DEFINE rank == [i \in D |-> i]
<1>5. rank \in [D -> Nat]
  BY <1>1
<1>6. \A f, g \in [D -> R], i \in D :
         (\A j \in D : rank[j] < rank[i] => f[j] = g[j]) => F[<<f, i>>] = F[<<g, i>>]
  <2> SUFFICES ASSUME NEW f \in [D -> R], NEW g \in [D -> R], NEW i \in D,
                      \A j \in D : rank[j] < rank[i] => f[j] = g[j]
               PROVE  F[<<f, i>>] = F[<<g, i>>]
    OBVIOUS
  <2>1. i # 1 => f[i - 1] = g[i - 1]
    BY <1>1, <1>2
  <2>2. F[<<f, i>>] = IF i = 1 THEN s[i] ELSE f[i - 1] \o s[i]
    BY <1>4
  <2>3. F[<<g, i>>] = IF i = 1 THEN s[i] ELSE g[i - 1] \o s[i]
    BY <1>4
  <2> HIDE DEF F, D, R
  <2>4. QED
    BY <2>1, <2>2, <2>3
<1>7. PICK f \in [D -> R] : \A i \in D : f[i] = F[<<f, i>>]
  <2>1. R # {}
    BY EmptySeq
  <2> HIDE DEF D, R, F, rank
  <2>2. Recursive(F, D, R, rank)
    BY <2>1, <1>3, <1>5, <1>6 DEF Recursive
  <2>3. QED
    BY <2>2, Recursion
<1>8. Solution(f)
  <2>1. \A i \in D : f[i] = IF i = 1 THEN s[i] ELSE f[i - 1] \o s[i]
    BY <1>4, <1>7
  <2> HIDE DEF D, R, F
  <2>2. QED
    BY <2>1
<1>9. PICK g : Solution(g) /\ FlattenSeq(s) = g[Len(s)]
  <2>1. Len(s) # 0
    BY <1>1
  <2>2. Solution(CHOOSE g : Solution(g))
    <3> HIDE DEF Solution
    <3> QED BY <1>8
  <2>3. FlattenSeq(s) = (CHOOSE g : Solution(g))[Len(s)]
    BY <2>1 DEF FlattenSeq
  <2>4. QED
    BY <2>2, <2>3
<1>10. \A i \in D : g[i] \in R
  <2> DEFINE T == {i \in D : g[i] \in R}
  <2>1. ASSUME NEW i \in D, \A j \in D : rank[j] < rank[i] => j \in T PROVE i \in T
    <3>1. CASE i = 1
      BY <3>1, <1>1, <1>9
    <3>2. CASE i # 1
      <4>1. g[i - 1] \in R /\ s[i] \in R
        BY <3>2, <1>1, <1>2, <2>1
      <4>2. g[i - 1] \o s[i] \in R
        BY <4>1, ConcatProperties
      <4>3. g[i] = g[i - 1] \o s[i]
        BY <3>2, <1>9
      <4>4. QED
        BY <4>2, <4>3
    <3>3. QED
      BY <3>1, <3>2
  <2>2. D \subseteq T
    <3> HIDE DEF D, T, rank
    <3> QED BY <2>1, <1>5, RankInduction
  <2>3. QED
    BY <2>2
<1>11. g \in [D -> R]
  <2> HIDE DEF R
  <2> QED BY <1>9, <1>10
<1>12. \A i \in D : g[i] = IF i = 1 THEN s[i] ELSE g[i - 1] \o s[i]
  BY <1>9
<1>13. QED
  BY <1>9, <1>11, <1>12

LEMMA FunctionIsSeq ==
  ASSUME NEW S, NEW n \in Nat, NEW f \in [1 .. n -> S]
  PROVE  f \in Seq(S) /\ Len(f) = n
<1>1. f \in Seq(S)
  BY SeqDef
<1>2. DOMAIN f = 1 .. n
  OBVIOUS
<1>3. QED
  BY <1>1, <1>2, LenProperties

LEMMA FlattenEmpty == FlattenSeq(<<>>) = <<>>
BY EmptySeq DEF FlattenSeq

LEMMA FlattenTyped ==
  ASSUME NEW S, NEW s \in Seq(Seq(S))
  PROVE  FlattenSeq(s) \in Seq(S)
<1>1. CASE s = <<>>
  BY <1>1, FlattenEmpty, EmptySeq
<1>2. CASE s # <<>>
  <2>1. Len(s) \in 1 .. Len(s)
    BY <1>2, EmptySeq, LenProperties
  <2>2. QED
    BY <1>2, <2>1, FlattenSolution
<1>3. QED
  BY <1>1, <1>2

LEMMA FlattenAppend ==
  ASSUME NEW S, NEW s \in Seq(Seq(S)), NEW x \in Seq(S)
  PROVE  FlattenSeq(Append(s, x)) = FlattenSeq(s) \o x
<1> DEFINE t == Append(s, x)
           n == Len(s)
<1>1. /\ t \in Seq(Seq(S)) /\ Len(t) = n + 1 /\ t # <<>> /\ n \in Nat
      /\ t[n + 1] = x /\ \A i \in 1 .. n : t[i] = s[i]
  BY AppendProperties, LenProperties, EmptySeq
<1>2. PICK g \in [1 .. n + 1 -> Seq(S)] :
         /\ \A i \in 1 .. n + 1 : g[i] = IF i = 1 THEN t[i] ELSE g[i - 1] \o t[i]
         /\ FlattenSeq(t) = g[n + 1]
  <2> HIDE DEF t
  <2>1. \E g \in [1 .. Len(t) -> Seq(S)] :
           /\ \A i \in 1 .. Len(t) : g[i] = IF i = 1 THEN t[i] ELSE g[i - 1] \o t[i]
           /\ FlattenSeq(t) = g[Len(t)]
    BY <1>1, FlattenSolution
  <2>2. Len(t) = n + 1
    BY <1>1
  <2> HIDE DEF n
  <2>3. QED
    BY <2>1, <2>2
<1>3. CASE s = <<>>
  <2>1. n = 0
    BY <1>3
  <2>2. FlattenSeq(t) = x
    BY <2>1, <1>1, <1>2
  <2>3. FlattenSeq(s) \o x = x
    BY <1>3, FlattenEmpty, ConcatEmptySeq
  <2>4. QED
    BY <2>2, <2>3
<1>4. CASE s # <<>>
  <2>1. n # 0 /\ n \in 1 .. n
    BY <1>4, <1>1, EmptySeq
  <2>2. PICK f \in [1 .. n -> Seq(S)] :
           /\ \A i \in 1 .. n : f[i] = IF i = 1 THEN s[i] ELSE f[i - 1] \o s[i]
           /\ FlattenSeq(s) = f[n]
    BY <1>4, FlattenSolution
  <2> DEFINE D == 1 .. n
             T == {i \in D : f[i] = g[i]}
             rank == [i \in D |-> i]
  <2>3. rank \in [D -> Nat]
    BY <1>1
  <2>4. ASSUME NEW i \in D, \A j \in D : rank[j] < rank[i] => j \in T PROVE i \in T
    <3>1. i \in 1 .. n + 1 /\ t[i] = s[i]
      BY <1>1
    <3>2. CASE i = 1
      BY <3>1, <3>2, <1>2, <2>2
    <3>3. CASE i # 1
      <4>1. i - 1 \in D /\ rank[i - 1] < rank[i]
        BY <3>3, <1>1
      <4>2. f[i - 1] = g[i - 1]
        BY <4>1, <2>4
      <4>3. QED
        BY <4>2, <3>1, <3>3, <1>2, <2>2
    <3>4. QED
      BY <3>2, <3>3
  <2>5. D \subseteq T
    <3> HIDE DEF D, T, rank
    <3> QED BY <2>3, <2>4, RankInduction
  <2>6. f[n] = g[n]
    BY <2>1, <2>5
  <2>7. g[n + 1] = g[n] \o x
    <3>1. n + 1 \in 1 .. n + 1 /\ n + 1 # 1 /\ (n + 1) - 1 = n
      BY <1>1, <2>1
    <3> HIDE DEF n, t
    <3>2. QED
      BY <3>1, <1>1, <1>2
  <2>8. QED
    BY <1>2, <2>2, <2>6, <2>7
<1>5. QED
  BY <1>3, <1>4

-----------------------------------------------------------------------------
(* Sequences under names that provers do not unfold: what follows needs no   *)
(* more of them than their algebra.                                          *)

Empty == <<>>
Single(x) == <<x>>
Add(s, x) == Append(s, x)
Join(s, t) == s \o t

LEMMA AddFacts ==
  ASSUME NEW A, NEW s \in Seq(A), NEW x \in A
  PROVE  Empty \in Seq(A) /\ Add(s, x) \in Seq(A) /\ Add(s, x) # Empty /\ Len(Add(s, x)) = Len(s) + 1
BY AppendProperties, EmptySeq DEF Add, Empty

LEMMA AddInjective ==
  ASSUME NEW A, NEW s \in Seq(A), NEW t \in Seq(A), NEW x \in A, NEW y \in A,
         Add(s, x) = Add(t, y)
  PROVE  s = t /\ x = y
BY AppendInjective DEF Add

LEMMA EmptyOrAdd ==
  ASSUME NEW A, NEW s \in Seq(A), s # Empty
  PROVE  \E t \in Seq(A), x \in A : s = Add(t, x)
BY SequenceEmptyOrAppend DEF Add, Empty

LEMMA AddInduction ==
  ASSUME NEW A, NEW S, Empty \in S,
         \A s \in Seq(A), x \in A : s \in S => Add(s, x) \in S
  PROVE  Seq(A) \subseteq S
<1> DEFINE rank == [s \in Seq(A) |-> Len(s)]
<1>1. rank \in [Seq(A) -> Nat]
  BY LenProperties
<1>2. ASSUME NEW s \in Seq(A), \A t \in Seq(A) : rank[t] < rank[s] => t \in S
      PROVE  s \in S
  <2>1. CASE s = Empty
    BY <2>1
  <2>2. CASE s # Empty
    <3>1. PICK t \in Seq(A), x \in A : s = Add(t, x)
      BY <2>2, EmptyOrAdd
    <3>2. Len(s) = Len(t) + 1 /\ Len(t) \in Nat
      BY <3>1, AddFacts, LenProperties
    <3>3. rank[t] < rank[s]
      BY <3>2
    <3>4. QED
      BY <1>2, <3>1, <3>3
  <2>3. QED
    BY <2>1, <2>2
<1> HIDE DEF rank
<1>3. QED
  BY <1>1, <1>2, RankInduction

LEMMA JoinFacts ==
  ASSUME NEW A, NEW s \in Seq(A)
  PROVE  /\ Join(s, Empty) = s
         /\ \A t \in Seq(A) : Join(s, t) \in Seq(A)
         /\ \A t \in Seq(A), x \in A : Join(s, Add(t, x)) = Add(Join(s, t), x)
<1>1. Join(s, Empty) = s
  BY ConcatEmptySeq DEF Join, Empty
<1>2. \A t \in Seq(A) : Join(s, t) \in Seq(A)
  BY ConcatProperties DEF Join
<1>3. ASSUME NEW t \in Seq(A), NEW x \in A PROVE Join(s, Add(t, x)) = Add(Join(s, t), x)
  <2>1. <<x>> \in Seq(A) /\ s \o t \in Seq(A)
    BY ConcatProperties
  <2>2. Append(t, x) = t \o <<x>> /\ Append(s \o t, x) = (s \o t) \o <<x>>
    BY <2>1, AppendIsConcat
  <2>3. (s \o t) \o <<x>> = s \o (t \o <<x>>)
    BY <2>1, ConcatAssociative
  <2>4. QED
    BY <2>2, <2>3 DEF Join, Add
<1>4. QED
  BY <1>1, <1>2, <1>3

LEMMA Singles ==
  ASSUME NEW A, NEW x \in A, NEW y \in A
  PROVE  /\ Single(x) = Add(Empty, x)
         /\ <<x, y>> = Add(Add(Empty, x), y)
<1>1. /\ <<>> \in Seq(A) /\ <<x>> \in Seq(A) /\ <<x, y>> \in Seq(A)
      /\ Len(<<>>) = 0 /\ Len(<<x>>) = 1 /\ Len(<<x, y>>) = 2
  BY EmptySeq
<1>2. <<x>> = Append(<<>>, x)
  <2>1. /\ Append(<<>>, x) \in Seq(A) /\ Len(Append(<<>>, x)) = 1
        /\ Append(<<>>, x)[1] = x
    BY <1>1, AppendProperties
  <2>2. QED
    BY <1>1, <2>1, SeqEqual
<1>3. <<x, y>> = Append(<<x>>, y)
  <2>1. /\ Append(<<x>>, y) \in Seq(A) /\ Len(Append(<<x>>, y)) = 2
        /\ Append(<<x>>, y)[1] = x /\ Append(<<x>>, y)[2] = y
    BY <1>1, AppendProperties
  <2>2. QED
    BY <1>1, <2>1, SeqEqual
<1>4. QED
  BY <1>2, <1>3 DEF Add, Empty, Single

LEMMA FlattenAdd ==
  ASSUME NEW A, NEW s \in Seq(Seq(A)), NEW x \in Seq(A)
  PROVE  FlattenSeq(Add(s, x)) = Join(FlattenSeq(s), x)
BY FlattenAppend DEF Add, Join

Block(x, c, by) == IF x = c THEN by ELSE Single(x)

LEMMA ReplacedEmpty == ASSUME NEW c, NEW by PROVE Replaced(Empty, c, by) = Empty
<1>1. [i \in DOMAIN <<>> |-> IF <<>>[i] = c THEN by ELSE << <<>>[i] >>] = <<>>
  OBVIOUS
<1>2. QED
  BY <1>1, FlattenEmpty DEF Replaced, Empty

Writes(g, A, B) == g \in [A -> Seq(B)]

Written(s, g) == FlattenSeq([i \in DOMAIN s |-> g[s[i]]])

\* What is written of a sequence symbol by symbol grows by what is written of x.
LEMMA WrittenAppend ==
  ASSUME NEW A, NEW B, NEW g, Writes(g, A, B), NEW s \in Seq(A), NEW x \in A,
         NEW t, t = Add(s, x)
  PROVE  Written(s, g) \in Seq(B) /\ Written(t, g) = Join(Written(s, g), g[x])
<1>0. t = Append(s, x) /\ g \in [A -> Seq(B)]
  BY DEF Add, Writes
<1> USE <1>0
<1> DEFINE Blocks(u) == [i \in DOMAIN u |-> g[u[i]]]
<1>1. Blocks(s) \in Seq(Seq(B)) /\ Len(Blocks(s)) = Len(s)
  <2>1. Len(s) \in Nat /\ DOMAIN s = 1 .. Len(s) /\ \A i \in 1 .. Len(s) : s[i] \in A
    BY LenProperties, ElementOfSeq
  <2>2. Blocks(s) \in [1 .. Len(s) -> Seq(B)]
    BY <2>1
  <2> HIDE DEF Blocks
  <2>3. QED
    BY <2>1, <2>2, FunctionIsSeq
<1>2. t \in Seq(A)
  BY <1>0, AppendProperties
<1>3. Blocks(t) = Append(Blocks(s), g[x])
  <2>1. /\ Len(t) = Len(s) + 1 /\ Len(s) \in Nat /\ t[Len(s) + 1] = x
        /\ \A i \in 1 .. Len(s) : t[i] = s[i]
        /\ DOMAIN t = 1 .. Len(s) + 1 /\ DOMAIN s = 1 .. Len(s)
    BY <1>0, <1>2, AppendProperties, LenProperties
  <2> DEFINE b == Append(Blocks(s), g[x])
  <2>2. /\ b \in Seq(Seq(B)) /\ Len(b) = Len(s) + 1 /\ b[Len(s) + 1] = g[x]
        /\ \A i \in 1 .. Len(s) : b[i] = Blocks(s)[i]
    <3>1. g[x] \in Seq(B) /\ Blocks(s) \in Seq(Seq(B))
      BY <1>1
    <3> HIDE DEF Blocks
    <3>2. /\ b \in Seq(Seq(B)) /\ Len(b) = Len(Blocks(s)) + 1
          /\ \A i \in 1 .. Len(Blocks(s)) : b[i] = Blocks(s)[i]
          /\ b[Len(Blocks(s)) + 1] = g[x]
      BY <3>1, AppendProperties
    <3>3. QED
      BY <3>2, <1>1
  <2>3. b \in [1 .. Len(s) + 1 -> Seq(B)]
    <3> HIDE DEF b
    <3> QED BY <2>2, LenProperties
  <2>4. \A i \in 1 .. Len(s) + 1 : b[i] = g[t[i]]
    <3> SUFFICES ASSUME NEW i \in 1 .. Len(s) + 1 PROVE b[i] = g[t[i]]
      OBVIOUS
    <3>1. CASE i = Len(s) + 1
      <4> HIDE DEF b
      <4> QED BY <3>1, <2>1, <2>2
    <3>2. CASE i # Len(s) + 1
      <4>1. i \in 1 .. Len(s)
        BY <3>2, <2>1
      <4>2. Blocks(s)[i] = g[s[i]]
        BY <4>1, <2>1
      <4> HIDE DEF b, Blocks
      <4>3. QED
        BY <4>1, <4>2, <2>1, <2>2
    <3>3. QED
      BY <3>1, <3>2
  <2>5. Blocks(t) = [i \in 1 .. Len(s) + 1 |-> g[t[i]]]
    BY <2>1
  <2> HIDE DEF b, Blocks
  <2>6. QED
    BY <2>3, <2>4, <2>5 DEF b
<1>4. Written(s, g) = FlattenSeq(Blocks(s)) /\ Written(t, g) = FlattenSeq(Blocks(t))
  BY DEF Written
<1> HIDE DEF Blocks
<1>5. FlattenSeq(Blocks(t)) = FlattenSeq(Blocks(s)) \o g[x]
  <2>1. g[x] \in Seq(B)
    OBVIOUS
  <2>2. QED
    BY <1>1, <1>3, <2>1, FlattenAppend
<1>6. QED
  BY <1>1, <1>4, <1>5, FlattenTyped DEF Join

LEMMA ReplacedAdd ==
  ASSUME NEW A, NEW s \in Seq(A), NEW x \in A, NEW c \in A, NEW by \in Seq(A)
  PROVE  /\ Replaced(s, c, by) \in Seq(A)
         /\ Replaced(Add(s, x), c, by) = Join(Replaced(s, c, by), Block(x, c, by))
<1> DEFINE g == [y \in A |-> Block(y, c, by)]
<1>1. Writes(g, A, A)
  BY DEF Block, Single, Writes
<1>2. \A t \in Seq(A) : Replaced(t, c, by) = Written(t, g)
  <2> TAKE t \in Seq(A)
  <2>1. DOMAIN t = 1 .. Len(t) /\ \A i \in 1 .. Len(t) : t[i] \in A
    BY LenProperties, ElementOfSeq
  <2>2. [i \in DOMAIN t |-> IF t[i] = c THEN by ELSE <<t[i]>>] = [i \in DOMAIN t |-> g[t[i]]]
    BY <2>1 DEF Block, Single
  <2>3. QED
    BY <2>2 DEF Replaced, Written
<1>3. Add(s, x) \in Seq(A)
  BY AddFacts
<1>4. g[x] = Block(x, c, by)
  OBVIOUS
<1> HIDE DEF g
<1>5. Replaced(s, c, by) = Written(s, g) /\ Replaced(Add(s, x), c, by) = Written(Add(s, x), g)
  BY <1>2, <1>3
<1>6. Written(s, g) \in Seq(A) /\ Written(Add(s, x), g) = Join(Written(s, g), g[x])
  BY <1>1, WrittenAppend
<1>7. QED
  BY <1>4, <1>5, <1>6

\* Texts in which c is replaced by two symbols, a and b, grow by symbols.
ReplacesByTwo(A, c, a, b, by) ==
  \A s \in Seq(A), x \in A :
    /\ Replaced(s, c, by) \in Seq(A)
    /\ x = c => Replaced(Add(s, x), c, by) = Add(Add(Replaced(s, c, by), a), b)
    /\ x # c => Replaced(Add(s, x), c, by) = Add(Replaced(s, c, by), x)

LEMMA ReplacedByTwo ==
  ASSUME NEW A, NEW c \in A, NEW a \in A, NEW b \in A
  PROVE  ReplacesByTwo(A, c, a, b, <<a, b>>)
<1> SUFFICES ASSUME NEW s \in Seq(A), NEW x \in A, NEW by, by = Add(Add(Empty, a), b)
    PROVE  /\ Replaced(s, c, by) \in Seq(A)
           /\ x = c => Replaced(Add(s, x), c, by) = Add(Add(Replaced(s, c, by), a), b)
           /\ x # c => Replaced(Add(s, x), c, by) = Add(Replaced(s, c, by), x)
  <2>1. <<a, b>> = Add(Add(Empty, a), b)
    BY Singles
  <2>2. QED
    BY <2>1 DEF ReplacesByTwo
<1>1. by \in Seq(A) /\ Empty \in Seq(A) /\ Add(Empty, a) \in Seq(A) /\ Single(x) = Add(Empty, x)
  BY Singles, AddFacts
<1>2. /\ Replaced(s, c, by) \in Seq(A)
      /\ Replaced(Add(s, x), c, by) = Join(Replaced(s, c, by), Block(x, c, by))
  BY <1>1, ReplacedAdd
<1> DEFINE r == Replaced(s, c, by)
<1> HIDE DEF r
<1>3. Join(r, by) = Add(Add(r, a), b) /\ Join(r, Single(x)) = Add(r, x)
  <2>1. r \in Seq(A) /\ Add(Empty, a) \in Seq(A)
    BY <1>1, <1>2, AddFacts DEF r
  <2>2. Join(r, Empty) = r
    BY <2>1, JoinFacts
  <2>3. Join(r, Add(Empty, x)) = Add(r, x) /\ Join(r, Add(Empty, a)) = Add(r, a)
    BY <1>1, <2>1, <2>2, JoinFacts
  <2>4. Join(r, Add(Add(Empty, a), b)) = Add(Add(r, a), b)
    BY <2>1, <2>3, JoinFacts
  <2>5. QED
    BY <1>1, <2>3, <2>4
<1>4. CASE x = c
  <2>1. Block(x, c, by) = by
    BY <1>4 DEF Block
  <2>2. QED
    BY <1>2, <1>3, <1>4, <2>1 DEF r
<1>5. CASE x # c
  <2>1. Block(x, c, by) = Single(x)
    BY <1>5 DEF Block
  <2>2. QED
    BY <1>2, <1>3, <1>5, <2>1 DEF r
<1>6. QED
  BY <1>4, <1>5

\* What x adds to an escaped text.
Marked(u, x) ==
  IF x = Tilde THEN Add(Add(u, Tilde), Zero)
  ELSE IF x = Slash THEN Add(Add(u, Tilde), One)
  ELSE Add(u, x)

\* Code points and numerals.
Symbol == Nat

LEMMA Characters ==
  /\ Tilde \in Symbol /\ Slash \in Symbol /\ Zero \in Symbol /\ One \in Symbol
  /\ Tilde # Slash /\ Slash # Zero /\ Slash # One /\ Tilde # One /\ Tilde # Zero /\ Zero # One
BY DEF Symbol, Tilde, Slash, Zero, One

LEMMA EscapedEmpty == Escaped(Empty) = Empty
BY ReplacedEmpty DEF Escaped

LEMMA EscapedAdd ==
  ASSUME NEW s \in Seq(Symbol), NEW x \in Symbol
  PROVE  Escaped(s) \in Seq(Symbol) /\ Escaped(Add(s, x)) = Marked(Escaped(s), x)
<1> DEFINE First(t) == Replaced(t, Tilde, <<Tilde, Zero>>)
           Second(t) == Replaced(t, Slash, <<Tilde, One>>)
<1>1. \A t \in Seq(Symbol), y \in Symbol :
         /\ First(t) \in Seq(Symbol)
         /\ y = Tilde => First(Add(t, y)) = Add(Add(First(t), Tilde), Zero)
         /\ y # Tilde => First(Add(t, y)) = Add(First(t), y)
  <2>1. ReplacesByTwo(Symbol, Tilde, Tilde, Zero, <<Tilde, Zero>>)
    BY Characters, ReplacedByTwo
  <2>2. QED
    BY <2>1 DEF ReplacesByTwo
<1>2. \A t \in Seq(Symbol), y \in Symbol :
         /\ Second(t) \in Seq(Symbol)
         /\ y = Slash => Second(Add(t, y)) = Add(Add(Second(t), Tilde), One)
         /\ y # Slash => Second(Add(t, y)) = Add(Second(t), y)
  <2>1. ReplacesByTwo(Symbol, Slash, Tilde, One, <<Tilde, One>>)
    BY Characters, ReplacedByTwo
  <2>2. QED
    BY <2>1 DEF ReplacesByTwo
<1>3. \A t : Escaped(t) = Second(First(t))
  BY DEF Escaped
<1> HIDE DEF First, Second
<1>4. Escaped(s) \in Seq(Symbol) /\ First(s) \in Seq(Symbol)
  BY <1>1, <1>2, <1>3
<1>5. CASE x = Tilde
  <2>1. First(Add(s, x)) = Add(Add(First(s), Tilde), Zero)
    BY <1>1, <1>5
  <2>2. Add(First(s), Tilde) \in Seq(Symbol)
    BY <1>4, Characters, AddFacts
  <2>3. Second(Add(First(s), Tilde)) = Add(Escaped(s), Tilde)
    BY <1>2, <1>3, <1>4, Characters
  <2>4. Second(Add(Add(First(s), Tilde), Zero)) = Add(Add(Escaped(s), Tilde), Zero)
    BY <1>2, <2>2, <2>3, Characters
  <2>5. QED
    BY <1>3, <1>4, <1>5, <2>1, <2>4 DEF Marked
<1>6. CASE x = Slash
  BY <1>1, <1>2, <1>3, <1>4, <1>6, Characters DEF Marked
<1>7. CASE x # Tilde /\ x # Slash
  BY <1>1, <1>2, <1>3, <1>4, <1>7 DEF Marked
<1>8. QED
  BY <1>5, <1>6, <1>7

\* An escaped text is empty, or ends as it was marked.
LEMMA EscapedTyped == \A s \in Seq(Symbol) : Escaped(s) \in Seq(Symbol \ {Slash})
<1> DEFINE S == {s \in Seq(Symbol) : Escaped(s) \in Seq(Symbol \ {Slash})}
           A == Symbol \ {Slash}
<1>1. Empty \in S
  BY EscapedEmpty, EmptySeq DEF Empty
<1>2. ASSUME NEW s \in Seq(Symbol), NEW x \in Symbol, s \in S PROVE Add(s, x) \in S
  <2>1. Add(s, x) \in Seq(Symbol) /\ Escaped(Add(s, x)) = Marked(Escaped(s), x)
    BY AddFacts, EscapedAdd
  <2>2. Escaped(s) \in Seq(A) /\ Tilde \in A /\ Zero \in A /\ One \in A /\ (x # Slash => x \in A)
    BY <1>2, Characters
  <2> HIDE DEF A
  <2>3. Marked(Escaped(s), x) \in Seq(A)
    BY <2>2, AddFacts DEF Marked
  <2>4. QED
    BY <2>1, <2>3 DEF A
<1>3. Seq(Symbol) \subseteq S
  <2> HIDE DEF S
  <2> QED BY <1>1, <1>2, AddInduction
<1>4. QED
  BY <1>3

\* An escaped text does not end in a tilde.
LEMMA EscapedEnd ==
  ASSUME NEW s \in Seq(Symbol), NEW u \in Seq(Symbol)
  PROVE  Escaped(s) # Add(u, Tilde)
<1>1. CASE s = Empty
  BY <1>1, EscapedEmpty, AddFacts, Characters DEF Empty
<1>2. CASE s # Empty
  <2>1. PICK t \in Seq(Symbol), x \in Symbol : s = Add(t, x)
    BY <1>2, EmptyOrAdd
  <2>2. Escaped(t) \in Seq(Symbol) /\ Escaped(s) = Marked(Escaped(t), x)
    BY <2>1, EscapedAdd
  <2>3. Add(Escaped(t), Tilde) \in Seq(Symbol)
    BY <2>2, AddFacts, Characters
  <2>4. QED
    BY <2>2, <2>3, AddInjective, Characters DEF Marked
<1>3. QED
  BY <1>1, <1>2

LEMMA MarkedInjective ==
  ASSUME NEW s \in Seq(Symbol), NEW t \in Seq(Symbol), NEW x \in Symbol, NEW y \in Symbol,
         Marked(Escaped(s), x) = Marked(Escaped(t), y)
  PROVE  x = y /\ Escaped(s) = Escaped(t)
<1> DEFINE u == Escaped(s)
           v == Escaped(t)
<1>1. u \in Seq(Symbol) /\ v \in Seq(Symbol)
  BY EscapedAdd
<1>2. Add(u, Tilde) \in Seq(Symbol) /\ Add(v, Tilde) \in Seq(Symbol)
  BY <1>1, AddFacts, Characters
<1>3. \A w \in Seq(Symbol) : u # Add(w, Tilde) /\ v # Add(w, Tilde)
  BY EscapedEnd
<1> HIDE DEF u, v
<1>4. Marked(u, x) = Marked(v, y)
  BY DEF u, v
<1> DEFINE last(z) == IF z = Tilde THEN Zero ELSE One
<1>5. CASE x \in {Tilde, Slash} /\ y \in {Tilde, Slash}
  <2>1. last(x) \in Symbol /\ last(y) \in Symbol /\ (last(x) = last(y) => x = y)
    BY <1>5, Characters
  <2>2. Add(Add(u, Tilde), last(x)) = Add(Add(v, Tilde), last(y))
    BY <1>4, <1>5, Characters DEF Marked
  <2> HIDE DEF last
  <2>3. Add(u, Tilde) = Add(v, Tilde) /\ last(x) = last(y)
    BY <1>2, <2>1, <2>2, AddInjective
  <2>4. u = v
    BY <1>1, <2>3, AddInjective, Characters
  <2>5. QED
    BY <2>1, <2>3, <2>4 DEF u, v
<1>6. CASE x \notin {Tilde, Slash} /\ y \notin {Tilde, Slash}
  <2>1. Add(u, x) = Add(v, y)
    BY <1>4, <1>6 DEF Marked
  <2>2. QED
    BY <1>1, <2>1, AddInjective DEF u, v
<1>7. CASE x \in {Tilde, Slash} /\ y \notin {Tilde, Slash}
  <2>1. Add(Add(u, Tilde), IF x = Tilde THEN Zero ELSE One) = Add(v, y)
    BY <1>4, <1>7, Characters DEF Marked
  <2>2. Add(u, Tilde) = v
    BY <1>1, <1>2, <2>1, AddInjective, Characters
  <2>3. QED
    BY <1>1, <1>3, <2>2
<1>8. CASE x \notin {Tilde, Slash} /\ y \in {Tilde, Slash}
  <2>1. Add(u, x) = Add(Add(v, Tilde), IF y = Tilde THEN Zero ELSE One)
    BY <1>4, <1>8, Characters DEF Marked
  <2>2. u = Add(v, Tilde)
    BY <1>1, <1>2, <2>1, AddInjective, Characters
  <2>3. QED
    BY <1>1, <1>3, <2>2
<1>9. QED
  BY <1>5, <1>6, <1>7, <1>8

LEMMA MarkedNotEmpty ==
  ASSUME NEW s \in Seq(Symbol), NEW x \in Symbol
  PROVE  Escaped(Add(s, x)) # Empty
<1>1. Escaped(s) \in Seq(Symbol) /\ Escaped(Add(s, x)) = Marked(Escaped(s), x)
  BY EscapedAdd
<1>2. Add(Escaped(s), Tilde) \in Seq(Symbol)
  BY <1>1, AddFacts, Characters
<1>3. QED
  BY <1>1, <1>2, AddFacts, Characters DEF Marked, Empty

LEMMA EscapedInjective ==
  ASSUME NEW s \in Seq(Symbol), NEW t \in Seq(Symbol), Escaped(s) = Escaped(t)
  PROVE  s = t
<1> DEFINE S == {r \in Seq(Symbol) : \A q \in Seq(Symbol) : Escaped(r) = Escaped(q) => r = q}
<1>1. Empty \in S
  <2>1. ASSUME NEW q \in Seq(Symbol), Escaped(Empty) = Escaped(q) PROVE Empty = q
    <3> SUFFICES ASSUME q # Empty PROVE FALSE
      OBVIOUS
    <3>1. PICK r \in Seq(Symbol), y \in Symbol : q = Add(r, y)
      BY EmptyOrAdd
    <3>2. QED
      BY <2>1, <3>1, EscapedEmpty, MarkedNotEmpty DEF Empty
  <2>2. QED
    BY <2>1, EmptySeq DEF Empty
<1>2. ASSUME NEW r \in Seq(Symbol), NEW x \in Symbol, r \in S PROVE Add(r, x) \in S
  <2>1. ASSUME NEW q \in Seq(Symbol), Escaped(Add(r, x)) = Escaped(q) PROVE Add(r, x) = q
    <3>1. q # Empty
      BY <2>1, EscapedEmpty, MarkedNotEmpty DEF Empty
    <3>2. PICK p \in Seq(Symbol), y \in Symbol : q = Add(p, y)
      BY <3>1, EmptyOrAdd
    <3>3. Marked(Escaped(r), x) = Marked(Escaped(p), y)
      BY <2>1, <3>2, EscapedAdd
    <3>4. x = y /\ Escaped(r) = Escaped(p)
      BY <3>3, MarkedInjective
    <3>5. QED
      BY <1>2, <3>2, <3>4
  <2>2. Add(r, x) \in Seq(Symbol)
    BY AddFacts
  <2>3. QED
    BY <2>1, <2>2
<1>3. Seq(Symbol) \subseteq S
  <2> HIDE DEF S
  <2> QED BY <1>1, <1>2, AddInduction
<1>4. QED
  BY <1>3

LEMMA JoinSingle ==
  ASSUME NEW A, NEW u \in Seq(A), NEW v \in Seq(A), NEW x \in A
  PROVE  Join(u, Join(Single(x), v)) = Join(Add(u, x), v)
<1>1. Single(x) \in Seq(A) /\ Append(u, x) = u \o Single(x)
  BY AppendIsConcat DEF Single
<1>2. (u \o Single(x)) \o v = u \o (Single(x) \o v)
  BY <1>1, ConcatAssociative
<1>3. QED
  BY <1>1, <1>2 DEF Join, Add

\* The components of paths, and paths.
Component == Seq(Symbol)
Path == Seq(Component)

LEMMA PointerEmpty == Pointer(Empty) = Empty
<1>1. [i \in DOMAIN <<>> |-> <<Slash>> \o Escaped(<<>>[i])] = <<>>
  OBVIOUS
<1>2. QED
  BY <1>1, FlattenEmpty DEF Pointer, Empty

LEMMA PointerAdd ==
  ASSUME NEW path \in Path, NEW c \in Component
  PROVE  /\ Pointer(path) \in Seq(Symbol)
         /\ Pointer(Add(path, c)) = Join(Add(Pointer(path), Slash), Escaped(c))
<1> DEFINE g == [d \in Component |-> Join(Single(Slash), Escaped(d))]
<1>1. \A d \in Component : Escaped(d) \in Seq(Symbol)
  BY EscapedAdd, Characters DEF Component
<1>2. Writes(g, Component, Symbol)
  <2>1. Single(Slash) \in Seq(Symbol)
    BY Characters DEF Single
  <2>2. \A d \in Component : Join(Single(Slash), Escaped(d)) \in Seq(Symbol)
    BY <1>1, <2>1, JoinFacts
  <2>3. QED
    BY <2>2 DEF Writes
<1>3. \A p \in Path : Pointer(p) = Written(p, g)
  <2> TAKE p \in Path
  <2>1. DOMAIN p = 1 .. Len(p) /\ \A i \in 1 .. Len(p) : p[i] \in Component
    BY LenProperties, ElementOfSeq DEF Path
  <2>2. [i \in DOMAIN p |-> <<Slash>> \o Escaped(p[i])] = [i \in DOMAIN p |-> g[p[i]]]
    BY <2>1 DEF Join, Single
  <2>3. QED
    BY <2>2 DEF Pointer, Written
<1>4. Add(path, c) \in Path
  BY AddFacts DEF Path
<1>5. g[c] = Join(Single(Slash), Escaped(c))
  OBVIOUS
<1> HIDE DEF g
<1>6. Pointer(path) = Written(path, g) /\ Pointer(Add(path, c)) = Written(Add(path, c), g)
  BY <1>3, <1>4
<1>7. Written(path, g) \in Seq(Symbol) /\ Written(Add(path, c), g) = Join(Written(path, g), g[c])
  BY <1>2, WrittenAppend DEF Path
<1>8. Join(Pointer(path), Join(Single(Slash), Escaped(c))) = Join(Add(Pointer(path), Slash), Escaped(c))
  BY <1>1, <1>6, <1>7, JoinSingle, Characters
<1>9. QED
  BY <1>5, <1>6, <1>7, <1>8

Unslashed == Symbol \ {Slash}

\* The last slash of a text is where the last component begins.
LEMMA LastSlash ==
  ASSUME NEW u \in Seq(Symbol), NEW x \in Seq(Symbol),
         NEW v \in Seq(Unslashed), NEW y \in Seq(Unslashed),
         Join(Add(u, Slash), v) = Join(Add(x, Slash), y)
  PROVE  u = x /\ v = y
<1> DEFINE a == Add(u, Slash)
           b == Add(x, Slash)
           S == {w \in Seq(Unslashed) : \A z \in Seq(Unslashed) : Join(a, w) = Join(b, z) => a = b /\ w = z}
<1>1. a \in Seq(Symbol) /\ b \in Seq(Symbol)
  BY AddFacts, Characters
<1>2. \A w \in Seq(Unslashed) : w \in Seq(Symbol) /\ Join(a, w) \in Seq(Symbol) /\ Join(b, w) \in Seq(Symbol)
  <2>1. \A w \in Seq(Unslashed) : w \in Seq(Symbol)
    BY SeqMonotonic DEF Unslashed
  <2> HIDE DEF a, b
  <2>2. QED
    BY <1>1, <2>1, JoinFacts
<1>3. /\ Join(a, Empty) = a /\ Join(b, Empty) = b
      /\ \A w \in Seq(Unslashed), q \in Unslashed : /\ Join(a, Add(w, q)) = Add(Join(a, w), q)
                                    /\ Join(b, Add(w, q)) = Add(Join(b, w), q)
  <2>1. \A q \in Unslashed : q \in Symbol
    BY DEF Unslashed
  <2> HIDE DEF a, b
  <2>2. QED
    BY <1>1, <1>2, <2>1, JoinFacts
<1>4. \A w \in Seq(Unslashed), q \in Unslashed, z \in Seq(Symbol) : Join(a, Add(w, q)) # Add(z, Slash) /\ Join(b, Add(w, q)) # Add(z, Slash)
  <2> HIDE DEF a, b
  <2> SUFFICES ASSUME NEW w \in Seq(Unslashed), NEW q \in Unslashed, NEW z \in Seq(Symbol)
      PROVE Add(Join(a, w), q) # Add(z, Slash) /\ Add(Join(b, w), q) # Add(z, Slash)
    BY <1>3
  <2>1. q \in Symbol /\ q # Slash
    BY DEF Unslashed
  <2>2. QED
    BY <1>2, <2>1, AddInjective, Characters
<1>5. Empty \in S
  <2>1. ASSUME NEW z \in Seq(Unslashed), Join(a, Empty) = Join(b, z) PROVE a = b /\ Empty = z
    <3>1. CASE z = Empty
      BY <1>3, <2>1, <3>1
    <3>2. CASE z # Empty
      <4>1. PICK w \in Seq(Unslashed), q \in Unslashed : z = Add(w, q)
        BY <3>2, EmptyOrAdd
      <4>2. QED
        BY <1>3, <1>4, <2>1, <4>1
    <3>3. QED
      BY <3>1, <3>2
  <2>2. QED
    BY <2>1, EmptySeq DEF Empty
<1>6. ASSUME NEW w \in Seq(Unslashed), NEW q \in Unslashed, w \in S PROVE Add(w, q) \in S
  <2>1. ASSUME NEW z \in Seq(Unslashed), Join(a, Add(w, q)) = Join(b, z) PROVE a = b /\ Add(w, q) = z
    <3>1. CASE z = Empty
      BY <1>3, <1>4, <2>1, <3>1
    <3>2. CASE z # Empty
      <4>1. PICK r \in Seq(Unslashed), p \in Unslashed : z = Add(r, p)
        BY <3>2, EmptyOrAdd
      <4> HIDE DEF a, b
      <4>2. Add(Join(a, w), q) = Add(Join(b, r), p)
        BY <1>3, <2>1, <4>1
      <4>3. q \in Symbol /\ p \in Symbol
        BY DEF Unslashed
      <4>4. Join(a, w) = Join(b, r) /\ q = p
        BY <1>2, <4>2, <4>3, AddInjective
      <4>5. QED
        BY <1>6, <4>1, <4>4
    <3>3. QED
      BY <3>1, <3>2
  <2>2. Add(w, q) \in Seq(Unslashed)
    BY AddFacts
  <2>3. QED
    BY <2>1, <2>2
<1>7. Seq(Unslashed) \subseteq S
  <2> HIDE DEF S
  <2> QED BY <1>5, <1>6, AddInduction
<1>8. a = b /\ v = y
  BY <1>7
<1>9. QED
  BY <1>8, AddInjective, Characters

\* Different paths have different pointers.
LEMMA PointerInjective ==
  ASSUME NEW p \in Path, NEW q \in Path, Pointer(p) = Pointer(q)
  PROVE  p = q
<1> DEFINE S == {r \in Path : \A t \in Path : Pointer(r) = Pointer(t) => r = t}
<1>1. \A r \in Path, c \in Component :
         /\ Pointer(r) \in Seq(Symbol) /\ Escaped(c) \in Seq(Unslashed)
         /\ Pointer(Add(r, c)) = Join(Add(Pointer(r), Slash), Escaped(c))
         /\ Add(r, c) \in Path
  BY PointerAdd, EscapedTyped, AddFacts DEF Component, Path, Unslashed
<1>2. \A r \in Path, c \in Component : Pointer(Add(r, c)) # Empty
  <2> TAKE r \in Path, c \in Component
  <2> DEFINE u == Add(Pointer(r), Slash)
  <2>1. u \in Seq(Symbol) /\ Escaped(c) \in Seq(Symbol)
    BY <1>1, AddFacts, EscapedAdd, Characters DEF Component
  <2>2. Len(u) = Len(Pointer(r)) + 1 /\ Len(Pointer(r)) \in Nat /\ Len(Escaped(c)) \in Nat
    BY <1>1, <2>1, AddFacts, LenProperties, Characters
  <2>3. Len(Join(u, Escaped(c))) = Len(u) + Len(Escaped(c))
    BY <2>1, ConcatProperties DEF Join
  <2>4. Len(Empty) = 0
    BY DEF Empty
  <2>5. QED
    BY <1>1, <2>2, <2>3, <2>4
<1>3. Empty \in S
  <2>1. ASSUME NEW t \in Path, Pointer(Empty) = Pointer(t) PROVE Empty = t
    <3> SUFFICES ASSUME t # Empty PROVE FALSE
      OBVIOUS
    <3>1. PICK r \in Path, c \in Component : t = Add(r, c)
      BY EmptyOrAdd DEF Path
    <3>2. QED
      BY <1>2, <2>1, <3>1, PointerEmpty
  <2>2. QED
    BY <2>1, EmptySeq DEF Empty, Path
<1>4. ASSUME NEW r \in Path, NEW c \in Component, r \in S PROVE Add(r, c) \in S
  <2>1. ASSUME NEW t \in Path, Pointer(Add(r, c)) = Pointer(t) PROVE Add(r, c) = t
    <3>1. t # Empty
      BY <1>2, <2>1, PointerEmpty
    <3>2. PICK w \in Path, d \in Component : t = Add(w, d)
      BY <3>1, EmptyOrAdd DEF Path
    <3>3. Join(Add(Pointer(r), Slash), Escaped(c)) = Join(Add(Pointer(w), Slash), Escaped(d))
      BY <1>1, <2>1, <3>2
    <3>4. Pointer(r) = Pointer(w) /\ Escaped(c) = Escaped(d)
      BY <1>1, <3>3, LastSlash, Characters
    <3>5. c = d
      BY <3>4, EscapedInjective DEF Component
    <3>6. QED
      BY <1>4, <3>2, <3>4, <3>5
  <2>2. QED
    BY <1>1, <2>1
<1>5. Path \subseteq S
  <2> HIDE DEF S
  <2> QED BY <1>3, <1>4, AddInduction DEF Path
<1>6. QED
  BY <1>5

-----------------------------------------------------------------------------
(* Leaves *)

LeafKind == Kind \cup {"type_mismatch", "missing_predicted", "missing_actual",
                       "empty_array", "empty_object"}

ALeaf == {l \in [path : Path, kind : LeafKind, num : Nat, den : Nat] :
            0 < l.den /\ l.num <= l.den}

\* What a comparison gives: leaves that their paths tell apart.
Comparison == {L \in SUBSET ALeaf :
             /\ IsFiniteSet(L) /\ L # {}
             /\ \A k, l \in L : k.path = l.path => k = l}

LEMMA OneLeaf == \A l \in ALeaf : {l} \in Comparison
BY FS_Singleton DEF Comparison

LEMMA LeafTyped ==
  ASSUME NEW kind \in LeafKind, NEW num \in Nat, NEW den \in Nat, 0 < den, num <= den
  PROVE  Leaf(kind, num, den) \in ALeaf
<1>1. <<>> \in Path
  BY EmptySeq DEF Path
<1>2. QED
  BY <1>1 DEF Leaf, ALeaf

LEMMA MaxOfThree ==
  ASSUME NEW a \in Int, NEW b \in Int, NEW c \in Int
  PROVE  /\ Max({a, b, c}) \in Int
         /\ a <= Max({a, b, c}) /\ b <= Max({a, b, c}) /\ c <= Max({a, b, c})
<1> DEFINE S == {a, b, c}
<1>1. \E x \in S : \A y \in S : x >= y
  <2>1. CASE a >= b /\ a >= c
    BY <2>1
  <2>2. CASE b >= a /\ b >= c
    BY <2>2
  <2>3. CASE c >= a /\ c >= b
    BY <2>3
  <2>4. QED
    BY <2>1, <2>2, <2>3
<1>2. Max(S) \in S /\ \A y \in S : Max(S) >= y
  <2> HIDE DEF S
  <2> QED BY <1>1 DEF Max
<1>3. \A x \in S : x \in Int
  OBVIOUS
<1>4. QED
  BY <1>2, <1>3

LEMMA MinOfTwo ==
  ASSUME NEW a \in Nat, NEW b \in Nat
  PROVE Min({a, b}) = IF a <= b THEN a ELSE b
<1>1. \A x \in {a, b} : x \in Nat
  OBVIOUS
<1>2. \E x \in {a, b} : \A y \in {a, b} : x <= y
  OBVIOUS
<1>3. Min({a, b}) \in {a, b} /\ \A y \in {a, b} : Min({a, b}) <= y
  BY <1>2 DEF Min
<1>4. QED
  BY <1>1, <1>3

LEMMA NumberLeafTyped ==
  ASSUME NEW p \in Int, NEW a \in Int
  PROVE  /\ NumberLeaf(p, a) \in ALeaf
         /\ p = a => NumberLeaf(p, a).num = 0
<1> DEFINE scale == Max({Abs(p), Abs(a), Scale})
<1>1. Abs(p) \in Nat /\ Abs(a) \in Nat /\ Abs(p - a) \in Nat /\ (p = a => Abs(p - a) = 0)
  BY DEF Abs
<1>2. scale \in Nat /\ 1 <= scale
  <2>1. Abs(p) \in Int /\ Abs(a) \in Int /\ Scale \in Int /\ 1 <= Scale
    BY <1>1, DivergenceAssumption
  <2>2. scale \in Int /\ Scale <= scale
    BY <2>1, MaxOfThree
  <2> HIDE DEF scale
  <2>3. QED
    BY <2>1, <2>2
<1> HIDE DEF scale
<1>3. /\ Min({Abs(p - a), scale}) \in Nat /\ Min({Abs(p - a), scale}) <= scale
      /\ p = a => Min({Abs(p - a), scale}) = 0
  BY <1>1, <1>2, MinOfTwo
<1>4. NumberLeaf(p, a) = Leaf("number", Min({Abs(p - a), scale}), scale)
  BY DEF NumberLeaf, scale
<1>5. QED
  BY <1>2, <1>3, <1>4, LeafTyped DEF LeafKind, Kind, Leaf

-----------------------------------------------------------------------------

\* The component that a leaf of an item is named by, before its path in there.
Prefixed(c, path) == <<c>> \o path

LEMMA PrefixedFacts ==
  ASSUME NEW c \in Component, NEW d \in Component, NEW s \in Path, NEW t \in Path
  PROVE  Prefixed(c, s) \in Path /\ (Prefixed(c, s) = Prefixed(d, t) => c = d /\ s = t)
<1>1. <<c>> \in Seq(Component) /\ <<d>> \in Seq(Component) /\ Len(<<c>>) = 1 /\ Len(<<d>>) = 1
  OBVIOUS
<1>2. /\ Prefixed(c, s) \in Path /\ Prefixed(d, t) \in Path
      /\ Len(Prefixed(c, s)) = 1 + Len(s) /\ Len(s) \in Nat
      /\ \A i \in 1 .. 1 + Len(s) : Prefixed(c, s)[i] = IF i <= 1 THEN c ELSE s[i - 1]
  BY <1>1, ConcatProperties, LenProperties DEF Prefixed, Path
<1>3. /\ Len(Prefixed(d, t)) = 1 + Len(t) /\ Len(t) \in Nat
      /\ \A i \in 1 .. 1 + Len(t) : Prefixed(d, t)[i] = IF i <= 1 THEN d ELSE t[i - 1]
  BY <1>1, ConcatProperties, LenProperties DEF Prefixed, Path
<1>4. ASSUME Prefixed(c, s) = Prefixed(d, t) PROVE c = d /\ s = t
  <2>1. Len(s) = Len(t)
    BY <1>2, <1>3, <1>4
  <2>2. c = d
    BY <1>2, <1>3, <1>4
  <2>3. ASSUME NEW i \in 1 .. Len(s) PROVE s[i] = t[i]
    <3>1. i + 1 \in 1 .. 1 + Len(s) /\ ~(i + 1 <= 1) /\ (i + 1) - 1 = i
      BY <1>2
    <3>2. Prefixed(c, s)[i + 1] = s[i]
      BY <1>2, <3>1
    <3>3. Prefixed(d, t)[i + 1] = t[i]
      BY <1>3, <2>1, <3>1
    <3>4. QED
      BY <1>4, <3>2, <3>3
  <2>4. QED
    BY <2>1, <2>2, <2>3, SeqEqual DEF Path
<1>5. QED
  BY <1>2, <1>4

LEMMA UnderTyped ==
  ASSUME NEW c \in Component, NEW L \in Comparison
  PROVE  /\ IsFiniteSet(Under(c, L)) /\ Under(c, L) # {} /\ Under(c, L) \subseteq ALeaf
         /\ \A m \in Under(c, L) : \E l \in L :
              /\ m.path = Prefixed(c, l.path) /\ m.kind = l.kind
              /\ m.num = l.num /\ m.den = l.den
<1> DEFINE f == [l \in L |-> [l EXCEPT !.path = Prefixed(c, @)]]
<1>1. IsFiniteSet(L) /\ L # {} /\ L \subseteq ALeaf
  BY DEF Comparison
<1>2. Under(c, L) = {f[l] : l \in L}
  BY DEF Under, Prefixed
<1>3. \A l \in L :
        /\ f[l].path = Prefixed(c, l.path) /\ f[l].kind = l.kind
        /\ f[l].num = l.num /\ f[l].den = l.den
        /\ f[l] \in ALeaf
  <2> TAKE l \in L
  <2>1. l \in [path : Path, kind : LeafKind, num : Nat, den : Nat] /\ 0 < l.den /\ l.num <= l.den
    BY <1>1 DEF ALeaf
  <2>2. Prefixed(c, l.path) \in Path
    BY <2>1, PrefixedFacts
  <2>3. f[l] = [path |-> Prefixed(c, l.path), kind |-> l.kind, num |-> l.num, den |-> l.den]
    BY <2>1
  <2> HIDE DEF f
  <2>4. QED
    BY <2>1, <2>2, <2>3 DEF ALeaf
<1>4. IsFiniteSet(Under(c, L))
  <2>1. f \in Surjection(L, {f[l] : l \in L})
    BY DEF Surjection
  <2> HIDE DEF f
  <2>2. QED
    BY <1>1, <1>2, <2>1, FS_Surjection
<1> HIDE DEF f
<1>5. QED
  BY <1>1, <1>2, <1>3, <1>4

\* Two values whose items are compared key by key.
Matched(p, a) == p \in Json /\ a \in Json /\ p.kind = a.kind /\ p.kind \in Container

LEMMA CodePointsAreSymbols == CodePoint \subseteq Symbol
<1>1. MaxCodePoint \in Nat
  BY SMT DEF MaxCodePoint
<1>2. QED
  BY <1>1 DEF CodePoint, Symbol

LEMMA KeysTyped ==
  ASSUME NEW p, NEW a, Matched(p, a)
  PROVE  /\ IsFiniteSet(Keys(p, a))
         /\ p.kind = "array" => Keys(p, a) \subseteq Nat \ {0}
         /\ p.kind = "object" => Keys(p, a) \subseteq Component
<1> USE DivergenceAssumption
<1>1. IsFiniteSet(DOMAIN p.items) /\ IsFiniteSet(DOMAIN a.items)
  BY DEF Matched
<1>2. IsFiniteSet(Keys(p, a))
  BY <1>1, FS_Union DEF Keys
<1>3. ASSUME p.kind = "array" PROVE Keys(p, a) \subseteq Nat \ {0}
  <2>1. p.items \in Seq(Json) /\ a.items \in Seq(Json)
    BY <1>3 DEF Matched
  <2>2. DOMAIN p.items = 1 .. Len(p.items) /\ DOMAIN a.items = 1 .. Len(a.items)
    BY <2>1, LenProperties
  <2>3. Len(p.items) \in Nat /\ Len(a.items) \in Nat
    BY <2>1, LenProperties
  <2>4. QED
    BY <2>2, <2>3 DEF Keys
<1>4. ASSUME p.kind = "object" PROVE Keys(p, a) \subseteq Component
  <2>1. CodePoint \subseteq Symbol
    BY CodePointsAreSymbols
  <2>2. Seq(CodePoint) \subseteq Component
    BY <2>1 DEF Component
  <2>3. QED
    BY <1>4, <2>2 DEF Keys, Matched
<1>5. QED
  BY <1>2, <1>3, <1>4

LEMMA Numerals ==
  ASSUME NEW i \in Nat, NEW j \in Nat
  PROVE  Numeral(i) \in Component /\ (Numeral(i) = Numeral(j) => i = j)
<1>1. MaxCodePoint \in Nat
  BY SMT DEF MaxCodePoint
<1>2. MaxCodePoint + 1 + i \in Nat /\ MaxCodePoint + 1 + j \in Nat
  BY <1>1
<1>3. Numeral(i) \in Component
  BY <1>2 DEF Numeral, Component, Symbol
<1>4. Numeral(i)[1] = MaxCodePoint + 1 + i /\ Numeral(j)[1] = MaxCodePoint + 1 + j
  BY <1>2 DEF Numeral
<1>5. QED
  BY <1>1, <1>3, <1>4

LEMMA NameFacts ==
  ASSUME NEW p, NEW a, Matched(p, a), NEW k \in Keys(p, a), NEW l \in Keys(p, a)
  PROVE  Name(p, k) \in Component /\ (Name(p, k) = Name(p, l) => k = l)
<1>1. CASE p.kind = "array"
  <2>1. k - 1 \in Nat /\ l - 1 \in Nat /\ (k - 1 = l - 1 => k = l)
    BY <1>1, KeysTyped
  <2>2. QED
    BY <1>1, <2>1, Numerals DEF Name
<1>2. CASE p.kind = "object"
  BY <1>2, KeysTyped DEF Name
<1>3. QED
  BY <1>1, <1>2 DEF Matched, Container

\* The leaves found in the items, by pair of values.
Found == [Json \X Json -> Comparison]

LEMMA ItemLeavesTyped ==
  ASSUME NEW p, NEW a, Matched(p, a), NEW k \in Keys(p, a), NEW f \in Found
  PROVE  ItemLeaves(p, a, k, f) \in Comparison
<1>1. {Leaf("missing_predicted", 1, 1)} \in Comparison /\ {Leaf("missing_actual", 1, 1)} \in Comparison
  BY LeafTyped, OneLeaf DEF LeafKind
<1>2. CASE k \in DOMAIN p.items /\ k \in DOMAIN a.items
  <2>1. p.items[k] \in Json /\ a.items[k] \in Json
    BY <1>2, DivergenceAssumption DEF Matched
  <2>2. f[<<p.items[k], a.items[k]>>] \in Comparison
    BY <2>1 DEF Found
  <2>3. QED
    BY <1>2, <2>2 DEF ItemLeaves
<1>3. QED
  BY <1>1, <1>2 DEF ItemLeaves, Keys

LEMMA SameLeaf ==
  ASSUME NEW m \in ALeaf, NEW n \in ALeaf,
         m.path = n.path, m.kind = n.kind, m.num = n.num, m.den = n.den
  PROVE  m = n
BY DEF ALeaf

\* The leaves of all items, each under the name of its own.
LEMMA MergedTyped ==
  ASSUME NEW p, NEW a, Matched(p, a), Keys(p, a) # {}, NEW f \in Found
  PROVE  UNION {Under(Name(p, k), ItemLeaves(p, a, k, f)) : k \in Keys(p, a)} \in Comparison
<1> DEFINE K == Keys(p, a)
           G == [k \in K |-> Under(Name(p, k), ItemLeaves(p, a, k, f))]
           U == {G[k] : k \in K}
<1>1. ASSUME NEW k \in K
      PROVE  /\ IsFiniteSet(G[k]) /\ G[k] # {} /\ G[k] \subseteq ALeaf
             /\ \A m \in G[k] : \E l \in ItemLeaves(p, a, k, f) :
                  /\ m.path = Prefixed(Name(p, k), l.path) /\ m.kind = l.kind
                  /\ m.num = l.num /\ m.den = l.den
  BY NameFacts, ItemLeavesTyped, UnderTyped
<1>2. IsFiniteSet(U)
  <2>1. G \in Surjection(K, U)
    BY DEF Surjection
  <2>2. IsFiniteSet(K)
    BY KeysTyped
  <2> HIDE DEF G, K, U
  <2>3. QED
    BY <2>1, <2>2, FS_Surjection
<1>3. IsFiniteSet(UNION U) /\ UNION U # {} /\ UNION U \subseteq ALeaf
  <2> HIDE DEF G
  <2>1. \A T \in U : IsFiniteSet(T)
    BY <1>1
  <2>2. IsFiniteSet(UNION U)
    <3> HIDE DEF U
    <3> QED BY <1>2, <2>1, FS_UNION
  <2>3. QED
    BY <1>1, <2>2
<1>4. ASSUME NEW m \in UNION U, NEW n \in UNION U, m.path = n.path PROVE m = n
  <2>1. PICK k \in K : m \in G[k]
    OBVIOUS
  <2>2. PICK l \in K : n \in G[l]
    OBVIOUS
  <2> HIDE DEF G
  <2>3. PICK u \in ItemLeaves(p, a, k, f) :
          /\ m.path = Prefixed(Name(p, k), u.path) /\ m.kind = u.kind
          /\ m.num = u.num /\ m.den = u.den
    BY <1>1, <2>1
  <2>4. PICK v \in ItemLeaves(p, a, l, f) :
          /\ n.path = Prefixed(Name(p, l), v.path) /\ n.kind = v.kind
          /\ n.num = v.num /\ n.den = v.den
    BY <1>1, <2>2
  <2>5. /\ ItemLeaves(p, a, k, f) \in Comparison /\ ItemLeaves(p, a, l, f) \in Comparison
    BY ItemLeavesTyped
  <2>6. u \in ALeaf /\ v \in ALeaf
    BY <2>5 DEF Comparison
  <2>7. u.path \in Path /\ v.path \in Path
    BY <2>6 DEF ALeaf
  <2>8. Name(p, k) \in Component /\ Name(p, l) \in Component
    BY NameFacts
  <2>9. Prefixed(Name(p, k), u.path) = Prefixed(Name(p, l), v.path)
    BY <1>4, <2>3, <2>4
  <2>10. Name(p, k) = Name(p, l) /\ u.path = v.path
    BY <2>7, <2>8, <2>9, PrefixedFacts
  <2>11. k = l
    BY <2>10, NameFacts
  <2>12. u = v
    BY <2>5, <2>10, <2>11 DEF Comparison
  <2>13. m \in ALeaf /\ n \in ALeaf
    BY <1>3
  <2>14. m.path = n.path /\ m.kind = n.kind /\ m.num = n.num /\ m.den = n.den
    BY <1>4, <2>3, <2>4, <2>12
  <2>15. QED
    BY <2>13, <2>14, SameLeaf
<1>5. UNION U \in Comparison
  BY <1>3, <1>4 DEF Comparison
<1>6. UNION U = UNION {Under(Name(p, k), ItemLeaves(p, a, k, f)) : k \in Keys(p, a)}
  OBVIOUS
<1>7. QED
  BY <1>5, <1>6

LEMMA LeavesOfTyped ==
  ASSUME NEW p \in Json, NEW a \in Json, NEW f \in Found
  PROVE  LeavesOf(p, a, f) \in Comparison
<1>1. CASE p.kind # a.kind
  BY <1>1, LeafTyped, OneLeaf DEF LeavesOf, LeafKind
<1>2. CASE p.kind = a.kind /\ p.kind = "number"
  BY <1>2, NumberLeafTyped, OneLeaf, DivergenceAssumption DEF LeavesOf
<1>3. CASE p.kind = a.kind /\ p.kind # "number" /\ p.kind \notin Container
  <2>1. PICK num \in Nat : num <= 1 /\ num = IF p = a THEN 0 ELSE 1
    OBVIOUS
  <2>2. Leaf(p.kind, num, 1) \in ALeaf
    <3>1. num <= 1
      BY <2>1
    <3>2. p.kind \in LeafKind
      BY DivergenceAssumption DEF LeafKind
    <3>3. QED
      BY <3>1, <3>2, LeafTyped
  <2>3. LeavesOf(p, a, f) = {Leaf(p.kind, num, 1)}
    BY <1>3, <2>1 DEF LeavesOf
  <2>4. QED
    BY <2>2, <2>3, OneLeaf
<1>4. CASE p.kind = a.kind /\ p.kind \in Container
  <2>1. p.kind # "number" /\ Matched(p, a)
    BY <1>4 DEF Container, Matched
  <2>2. CASE Keys(p, a) = {}
    BY <1>4, <2>1, <2>2, LeafTyped, OneLeaf DEF LeavesOf, LeafKind
  <2>3. CASE Keys(p, a) # {}
    BY <1>4, <2>1, <2>3, MergedTyped DEF LeavesOf
  <2>4. QED
    BY <2>2, <2>3
<1>5. QED
  BY <1>1, <1>2, <1>3, <1>4

\* What is found in the items is all that counts.
LEMMA LeavesOfLocal ==
  ASSUME NEW p \in Json, NEW a \in Json, NEW f, NEW g,
         \A v \in Json \X Json : Depth[v[1]] < Depth[p] => f[v] = g[v]
  PROVE  LeavesOf(p, a, f) = LeavesOf(p, a, g)
<1>1. ASSUME p.kind \in Container, p.kind = a.kind, NEW k \in Keys(p, a)
      PROVE  ItemLeaves(p, a, k, f) = ItemLeaves(p, a, k, g)
  <2>1. CASE k \in DOMAIN p.items /\ k \in DOMAIN a.items
    <3>1. p.items[k] \in Json /\ a.items[k] \in Json /\ Depth[p.items[k]] < Depth[p]
      BY <1>1, <2>1, DivergenceAssumption
    <3>2. QED
      BY <2>1, <3>1 DEF ItemLeaves
  <2>2. QED
    BY <2>1 DEF ItemLeaves
<1>2. QED
  BY <1>1 DEF LeavesOf

\* The comparison of two values is built from those of their items.
LEMMA LeavesFacts ==
  /\ Leaves \in Found
  /\ \A v \in Json \X Json : Leaves[v] = LeavesOf(v[1], v[2], Leaves)
<1> DEFINE D == Json \X Json
           F == [fv \in Found \X D |-> LeavesOf(fv[2][1], fv[2][2], fv[1])]
           rank == [v \in D |-> Depth[v[1]]]
           Solution(f) == f = [v \in D |-> LeavesOf(v[1], v[2], f)]
<1>1. \A v \in D : v[1] \in Json /\ v[2] \in Json
  OBVIOUS
<1>2. \A f \in Found, v \in D : F[<<f, v>>] = LeavesOf(v[1], v[2], f)
  <2> HIDE DEF D
  <2> QED OBVIOUS
<1>3. F \in [Found \X D -> Comparison]
  <2> HIDE DEF D
  <2> QED BY <1>1, LeavesOfTyped
<1>4. rank \in [D -> Nat]
  BY DivergenceAssumption
<1>5. \A v \in D : rank[v] = Depth[v[1]]
  OBVIOUS
<1>6. ASSUME NEW f, NEW g, NEW v \in D, \A w \in D : rank[w] < rank[v] => f[w] = g[w]
      PROVE  LeavesOf(v[1], v[2], f) = LeavesOf(v[1], v[2], g)
  <2>1. \A w \in D : Depth[w[1]] < Depth[v[1]] => f[w] = g[w]
    BY <1>5, <1>6
  <2>2. QED
    BY <1>1, <2>1, LeavesOfLocal
<1>7. Comparison # {}
  <2>1. Leaf("type_mismatch", 1, 1) \in ALeaf
    BY LeafTyped DEF LeafKind
  <2>2. QED
    BY <2>1, OneLeaf
<1>8. PICK f \in Found : \A v \in D : f[v] = F[<<f, v>>]
  <2> HIDE DEF D, F, rank
  <2>1. \A f, g \in [D -> Comparison], v \in D :
          (\A w \in D : rank[w] < rank[v] => f[w] = g[w]) => F[<<f, v>>] = F[<<g, v>>]
    BY <1>2, <1>6 DEF Found, D
  <2>2. Recursive(F, D, Comparison, rank)
    BY <1>3, <1>4, <1>7, <2>1 DEF Recursive, Found, D
  <2>3. QED
    BY <2>2, Recursion DEF Found, D
<1>9. Solution(f)
  <2>1. \A v \in D : f[v] = LeavesOf(v[1], v[2], f)
    BY <1>2, <1>8
  <2>2. f = [v \in D |-> f[v]]
    BY DEF Found
  <2> HIDE DEF D, F
  <2>3. QED
    BY <2>1, <2>2
<1>10. Solution(Leaves)
  <2>1. Leaves = CHOOSE g : Solution(g)
    BY DEF Leaves
  <2> HIDE DEF Solution
  <2>2. QED
    BY <1>9, <2>1
<1>11. \A v \in D : Leaves[v] = LeavesOf(v[1], v[2], Leaves)
  <2> HIDE DEF D
  <2> QED BY <1>10
<1>12. \A v \in D : Leaves[v] = f[v]
  <2> DEFINE S == {v \in D : Leaves[v] = f[v]}
  <2>1. ASSUME NEW v \in D, \A w \in D : rank[w] < rank[v] => w \in S PROVE v \in S
    <3> HIDE DEF D, F, rank
    <3>1. LeavesOf(v[1], v[2], Leaves) = LeavesOf(v[1], v[2], f)
      BY <1>6, <2>1
    <3>2. QED
      BY <1>2, <1>8, <1>11, <3>1
  <2>2. D \subseteq S
    <3> HIDE DEF D, S, rank
    <3> QED BY <1>4, <2>1, RankInduction
  <2>3. QED
    BY <2>2
<1>13. Leaves = f
  <2>1. Leaves = [v \in D |-> Leaves[v]]
    <3> HIDE DEF D
    <3> QED BY <1>10
  <2>2. QED
    BY <1>12, <2>1 DEF Found
<1>14. QED
  BY <1>11, <1>13

\* Equal values do not diverge.
LEMMA EqualLeaves ==
  ASSUME NEW p \in Json
  PROVE  \A l \in Leaves[<<p, p>>] : l.num = 0
<1> DEFINE S == {q \in Json : \A l \in Leaves[<<q, q>>] : l.num = 0}
           rank == [q \in Json |-> Depth[q]]
<1>1. ASSUME NEW q \in Json, \A r \in Json : rank[r] < rank[q] => r \in S PROVE q \in S
  <2>1. Leaves[<<q, q>>] = LeavesOf(q, q, Leaves)
    BY LeavesFacts
  <2>2. CASE q.kind = "number"
    BY <2>1, <2>2, NumberLeafTyped, DivergenceAssumption DEF LeavesOf
  <2>3. CASE q.kind # "number" /\ q.kind \notin Container
    BY <2>1, <2>3 DEF LeavesOf, Leaf
  <2>4. CASE q.kind \in Container /\ Keys(q, q) = {}
    BY <2>1, <2>4 DEF LeavesOf, Leaf, Container
  <2>5. CASE q.kind \in Container /\ Keys(q, q) # {}
    <3>1. Leaves[<<q, q>>] = UNION {Under(Name(q, k), ItemLeaves(q, q, k, Leaves)) : k \in Keys(q, q)}
      BY <2>1, <2>5 DEF LeavesOf, Container
    <3>2. ASSUME NEW k \in Keys(q, q), NEW l \in Under(Name(q, k), ItemLeaves(q, q, k, Leaves))
          PROVE  l.num = 0
      <4>1. Matched(q, q) /\ Keys(q, q) = DOMAIN q.items
        BY <2>5 DEF Matched, Keys
      <4>2. q.items[k] \in Json /\ Depth[q.items[k]] < Depth[q]
        BY <2>5, <4>1, DivergenceAssumption
      <4>3. ItemLeaves(q, q, k, Leaves) = Leaves[<<q.items[k], q.items[k]>>]
        BY <4>1 DEF ItemLeaves
      <4>4. \A m \in Leaves[<<q.items[k], q.items[k]>>] : m.num = 0
        BY <1>1, <4>2
      <4>5. ItemLeaves(q, q, k, Leaves) \in Comparison /\ Name(q, k) \in Component
        BY <4>1, LeavesFacts, ItemLeavesTyped, NameFacts
      <4>6. PICK m \in ItemLeaves(q, q, k, Leaves) : l.num = m.num
        BY <4>5, UnderTyped
      <4>7. QED
        BY <4>3, <4>4, <4>6
    <3>3. QED
      BY <3>1, <3>2
  <2>6. QED
    BY <2>2, <2>3, <2>4, <2>5
<1>2. rank \in [Json -> Nat]
  BY DivergenceAssumption
<1>3. Json \subseteq S
  <2> HIDE DEF S, rank
  <2> QED BY <1>1, <1>2, RankInduction
<1>4. QED
  BY <1>3

-----------------------------------------------------------------------------
(* The mean *)

LEMMA Scaled ==
  ASSUME NEW a \in Nat, NEW b \in Nat, NEW c \in Nat, a <= b
  PROVE  a * c <= b * c
<1>1. b - a \in Nat
  OBVIOUS
<1>2. (b - a) * c \in Nat
  BY <1>1
<1>3. b * c = a * c + (b - a) * c
  OBVIOUS
<1>4. QED
  BY <1>2, <1>3

ASum == [num : Nat, den : Nat \ {0}]

LEMMA PlusTyped ==
  ASSUME NEW l \in ALeaf, NEW s \in ASum
  PROVE  /\ Plus(l, s) \in ASum
         /\ \A n \in Nat : s.num <= n * s.den => Plus(l, s).num <= (n + 1) * Plus(l, s).den
         /\ l.num = 0 /\ s.num = 0 => Plus(l, s).num = 0
<1>1. PICK a, d \in Nat : a = l.num /\ d = l.den /\ 0 < d /\ a <= d
  BY DEF ALeaf
<1>2. PICK b, e \in Nat : b = s.num /\ e = s.den /\ 0 < e
  BY DEF ASum
<1>3. Plus(l, s) = [num |-> b * d + a * e, den |-> e * d]
  BY <1>1, <1>2 DEF Plus
<1>4. e * d \in Nat /\ 0 < e * d /\ b * d + a * e \in Nat
  BY <1>1, <1>2
<1>5. ASSUME NEW n \in Nat, b <= n * e PROVE b * d + a * e <= (n + 1) * (e * d)
  <2>1. b * d <= (n * e) * d
    BY <1>5, Scaled
  <2>2. a * e <= d * e
    BY <1>1, Scaled
  <2>3. (n + 1) * (e * d) = (n * e) * d + d * e
    OBVIOUS
  <2>4. QED
    BY <2>1, <2>2, <2>3
<1>6. a = 0 /\ b = 0 => b * d + a * e = 0
  OBVIOUS
<1>7. QED
  BY <1>1, <1>2, <1>3, <1>4, <1>5, <1>6 DEF ASum

\* A sum of so many scores up to one, over their common denominator.
SumOf(L, sum) ==
  /\ sum \in ASum
  /\ sum.num <= Cardinality(L) * sum.den
  /\ (\A l \in L : l.num = 0) => sum.num = 0

LEMMA TotalFacts ==
  ASSUME NEW L, IsFiniteSet(L), L \subseteq ALeaf
  PROVE  SumOf(L, Total(L))
<1> DEFINE D == SUBSET L
           pick == [s \in D |-> CHOOSE x \in s : TRUE]
           none == [num |-> 0, den |-> 1]
           F == [gs \in [D -> ASum] \X D |->
                   IF gs[2] = {} THEN none ELSE Plus(pick[gs[2]], gs[1][gs[2] \ {pick[gs[2]]}])]
           rank == [s \in D |-> Cardinality(s)]
           Solution(g) == g = [s \in D |-> IF s = {} THEN none
                                           ELSE Plus(CHOOSE x \in s : TRUE, g[s \ {CHOOSE x \in s : TRUE}])]
           Rest(s) == s \ {pick[s]}
<1>1. none \in ASum
  BY DEF ASum
<1>2. ASSUME NEW s \in D, s # {}
      PROVE  /\ pick[s] \in s /\ pick[s] \in ALeaf /\ Rest(s) \in D
             /\ Cardinality(Rest(s)) \in Nat /\ Cardinality(s) = Cardinality(Rest(s)) + 1
  <2>1. pick[s] \in s
    BY <1>2
  <2> HIDE DEF pick
  <2>2. pick[s] \in ALeaf /\ Rest(s) \in D
    BY <2>1
  <2>3. IsFiniteSet(s) /\ IsFiniteSet(Rest(s))
    BY <2>2, FS_Subset
  <2>4. Cardinality(Rest(s)) \in Nat /\ Cardinality(s) \in Nat
    BY <2>3, FS_CardinalityType
  <2>5. Cardinality(Rest(s)) = Cardinality(s) - 1
    BY <2>1, <2>3, FS_RemoveElement
  <2>6. QED
    BY <2>1, <2>2, <2>4, <2>5
<1>3. rank \in [D -> Nat]
  <2>1. \A s \in D : Cardinality(s) \in Nat
    BY FS_Subset, FS_CardinalityType
  <2>2. QED
    BY <2>1
<1>4. \A s \in D : s # {} => rank[Rest(s)] < rank[s]
  <2>1. \A s \in D : rank[s] = Cardinality(s)
    OBVIOUS
  <2> HIDE DEF D, rank, pick
  <2>2. QED
    BY <1>2, <2>1
<1>5. \A g \in [D -> ASum], s \in D :
        F[<<g, s>>] = IF s = {} THEN none ELSE Plus(pick[s], g[Rest(s)])
  <2> HIDE DEF D, pick, none
  <2> QED OBVIOUS
<1>6. ASSUME NEW s \in ASum, NEW l \in ALeaf PROVE Plus(l, s) \in ASum
  BY PlusTyped
<1>7. F \in [[D -> ASum] \X D -> ASum]
  <2> HIDE DEF D, pick, none
  <2>1. ASSUME NEW g \in [D -> ASum], NEW s \in D, s # {} PROVE Plus(pick[s], g[Rest(s)]) \in ASum
    BY <1>2, <1>6, <2>1
  <2>2. QED
    BY <1>1, <2>1
<1>8. PICK f \in [D -> ASum] : \A s \in D : f[s] = F[<<f, s>>]
  <2> HIDE DEF D, F, rank, pick, none
  <2>1. \A f, g \in [D -> ASum], s \in D :
          (\A t \in D : rank[t] < rank[s] => f[t] = g[t]) => F[<<f, s>>] = F[<<g, s>>]
    BY <1>2, <1>4, <1>5
  <2>2. Recursive(F, D, ASum, rank)
    BY <1>1, <1>3, <1>7, <2>1 DEF Recursive
  <2>3. QED
    BY <2>2, Recursion
<1>9. \A s \in D : pick[s] = CHOOSE x \in s : TRUE
  OBVIOUS
<1>10. Solution(f)
  <2> HIDE DEF D, F, pick, none
  <2>1. \A s \in D : f[s] = IF s = {} THEN none ELSE Plus(CHOOSE x \in s : TRUE, f[s \ {CHOOSE x \in s : TRUE}])
    <3> TAKE s \in D
    <3>1. f[s] = IF s = {} THEN none ELSE Plus(pick[s], f[Rest(s)])
      BY <1>5, <1>8
    <3>2. pick[s] = CHOOSE x \in s : TRUE
      BY <1>9
    <3>3. QED
      BY <3>1, <3>2
  <2>2. QED
    BY <2>1
<1>11. PICK g : Solution(g) /\ Total(L) = g[L]
  <2>1. Solution(CHOOSE g : Solution(g))
    <3> HIDE DEF Solution
    <3> QED BY <1>10
  <2>2. Total(L) = (CHOOSE g : Solution(g))[L]
    BY DEF Total, FoldSet, MapThenFoldSet
  <2>3. QED
    BY <2>1, <2>2
<1>12. \A s \in D : g[s] = IF s = {} THEN none ELSE Plus(pick[s], g[Rest(s)])
  <2> HIDE DEF none
  <2> QED BY <1>9, <1>11
<1> DEFINE S == {s \in D : SumOf(s, g[s])}
<1>13. ASSUME NEW s \in D, \A t \in D : rank[t] < rank[s] => t \in S PROVE s \in S
  <2>1. CASE s = {}
    <3>1. g[s] = none /\ Cardinality(s) = 0
      BY <1>12, <2>1, FS_EmptySet
    <3>2. QED
      BY <1>1, <3>1 DEF SumOf
  <2>2. CASE s # {}
    <3>1. Rest(s) \in S
      <4> HIDE DEF S, D, rank, pick
      <4> QED BY <1>2, <1>4, <1>13, <2>2
    <3>2. SumOf(Rest(s), g[Rest(s)])
      <4> HIDE DEF D, pick
      <4> QED BY <3>1
    <3>3. g[s] = Plus(pick[s], g[Rest(s)])
      BY <1>12, <2>2
    <3> HIDE DEF D, pick, S, Solution
    <3>4. /\ pick[s] \in s /\ pick[s] \in ALeaf /\ Rest(s) \subseteq s
          /\ Cardinality(Rest(s)) \in Nat /\ Cardinality(s) = Cardinality(Rest(s)) + 1
      BY <1>2, <2>2
    <3>5. Plus(pick[s], g[Rest(s)]) \in ASum
      BY <3>2, <3>4, PlusTyped DEF SumOf
    <3>6. Plus(pick[s], g[Rest(s)]).num <= Cardinality(s) * Plus(pick[s], g[Rest(s)]).den
      BY <3>2, <3>4, PlusTyped DEF SumOf
    <3>7. (\A l \in s : l.num = 0) => Plus(pick[s], g[Rest(s)]).num = 0
      <4> HAVE \A l \in s : l.num = 0
      <4>1. pick[s].num = 0 /\ g[Rest(s)].num = 0
        BY <3>2, <3>4 DEF SumOf
      <4>2. QED
        BY <4>1, <3>2, <3>4, PlusTyped DEF SumOf
    <3>8. QED
      BY <3>3, <3>5, <3>6, <3>7 DEF S, SumOf
  <2>3. QED
    BY <2>1, <2>2
<1>14. D \subseteq S
  <2> HIDE DEF D, S, rank
  <2> QED BY <1>3, <1>13, RankInduction
<1>15. L \in S
  BY <1>14
<1>16. QED
  BY <1>11, <1>15

LEMMA HalfEvenFacts ==
  ASSUME NEW num \in Nat, NEW den \in Nat, 0 < den, num <= den
  PROVE  /\ HalfEven(num, den) \in 0 .. Unit
         /\ num = 0 => HalfEven(num, den) = 0
<1> DEFINE scaled == num * Unit
           down == scaled \div den
           rest == scaled % den
<1>1. Unit \in Nat
  BY SMT DEF Unit
<1>2. scaled \in Nat /\ scaled <= Unit * den
  <2>1. num * Unit <= den * Unit
    BY <1>1, Scaled
  <2>2. QED
    BY <1>1, <2>1
<1>3. Unit % 2 = 0
  BY SMT DEF Unit
<1> HIDE DEF scaled
<1>4. /\ down \in Int /\ rest \in Int /\ 0 <= rest /\ rest < den
      /\ scaled = den * down + rest
  BY <1>2
<1> HIDE DEF down, rest
<1>5. 0 <= down
  <2>1. CASE down <= -1
    <3>1. den * down <= -den
      BY <2>1, <1>4
    <3>2. QED
      BY <1>2, <1>4, <3>1
  <2>2. QED
    BY <1>4, <2>1
<1>6. down <= Unit
  <2>1. CASE down >= Unit + 1
    <3>1. down - (Unit + 1) \in Nat
      BY <2>1, <1>1, <1>4
    <3>2. (down - (Unit + 1)) * den \in Nat
      BY <3>1
    <3>3. den * down = (down - (Unit + 1)) * den + Unit * den + den
      BY <1>1, <1>4
    <3>4. QED
      BY <1>1, <1>2, <1>4, <3>2, <3>3
  <2>2. QED
    BY <1>1, <1>4, <2>1
<1>7. down = Unit => rest = 0
  BY <1>1, <1>2, <1>4
<1>8. num = 0 => down = 0 /\ rest = 0
  <2> SUFFICES ASSUME num = 0 PROVE down = 0 /\ rest = 0
    OBVIOUS
  <2>1. scaled = 0
    BY <1>1 DEF scaled
  <2>2. down = 0
    <3>1. CASE down >= 1
      <4>1. (down - 1) * den \in Nat
        BY <3>1, <1>4
      <4>2. den * down = (down - 1) * den + den
        BY <1>4
      <4>3. QED
        BY <1>4, <2>1, <4>1, <4>2
    <3>2. QED
      BY <1>4, <1>5, <3>1
  <2>3. QED
    BY <1>4, <2>1, <2>2
<1>9. HalfEven(num, den) = CASE 2 * rest < den -> down
                             [] 2 * rest > den -> down + 1
                             [] OTHER -> down + (down % 2)
  BY DEF HalfEven, scaled, down, rest
<1>10. down % 2 \in {0, 1} /\ 0 % 2 = 0
  BY <1>4
<1>11. 0 <= HalfEven(num, den) /\ HalfEven(num, den) <= Unit /\ HalfEven(num, den) \in Int
  <2> HIDE DEF Unit
  <2>1. HalfEven(num, den) \in {down, down + 1}
    <3>1. down + (down % 2) \in {down, down + 1}
      BY <1>4, <1>10
    <3>2. QED
      BY <1>9, <3>1, Zenon
  <2>2. CASE down = Unit
    <3>1. 2 * rest < den
      BY <1>4, <1>7, <2>2
    <3>2. HalfEven(num, den) = down
      BY <1>9, <3>1, <1>4
    <3>3. QED
      BY <1>1, <1>4, <1>5, <2>2, <3>2
  <2>3. CASE down # Unit
    <3>1. down + 1 <= Unit
      BY <1>1, <1>4, <1>6, <2>3
    <3>2. QED
      BY <1>1, <1>4, <1>5, <2>1, <3>1
  <2>4. QED
    BY <2>2, <2>3
<1>12. num = 0 => HalfEven(num, den) = 0
  BY <1>4, <1>8, <1>9
<1>13. QED
  BY <1>1, <1>11, <1>12

\* Every leaf of a report has a pointer of its own: escaping "~" before "/"
\* in _pointer keeps the components of any two paths apart.
THEOREM LeavesHavePointers ==
  \A v \in Json \X Json : \A l, m \in Leaves[v] : Pointer(l.path) = Pointer(m.path) => l = m
<1> SUFFICES ASSUME NEW v \in Json \X Json, NEW l \in Leaves[v], NEW m \in Leaves[v],
                    Pointer(l.path) = Pointer(m.path)
             PROVE  l = m
  OBVIOUS
<1>1. Leaves[v] \in Comparison
  BY LeavesFacts DEF Found
<1>2. l.path \in Path /\ m.path \in Path
  BY <1>1 DEF Comparison, ALeaf
<1>3. l.path = m.path
  BY <1>2, PointerInjective
<1>4. QED
  BY <1>1, <1>3 DEF Comparison

\* The score that compare_json rounds is from zero to one, and zero of equal
\* values.
THEOREM ScoresWithinUnit ==
  \A p, a \in Json : Score[<<p, a>>] \in 0 .. Unit /\ (p = a => Score[<<p, a>>] = 0)
<1> SUFFICES ASSUME NEW p \in Json, NEW a \in Json
             PROVE  Score[<<p, a>>] \in 0 .. Unit /\ (p = a => Score[<<p, a>>] = 0)
  OBVIOUS
<1> DEFINE L == Leaves[<<p, a>>]
           n == Cardinality(L)
           sum == Total(L)
<1>1. L \in Comparison
  BY LeavesFacts DEF Found
<1>2. IsFiniteSet(L) /\ L # {} /\ L \subseteq ALeaf
  BY <1>1 DEF Comparison
<1> HIDE DEF L
<1>3. n \in Nat /\ 0 < n
  BY <1>2, FS_CardinalityType, FS_EmptySet
<1>4. SumOf(L, sum)
  BY <1>2, TotalFacts
<1> HIDE DEF sum, n
<1>5. /\ sum.num \in Nat /\ sum.den \in Nat /\ 0 < sum.den
      /\ sum.num <= n * sum.den
  BY <1>4 DEF SumOf, ASum, n
<1>6. n * sum.den = sum.den * n /\ sum.den * n \in Nat /\ 0 < sum.den * n
  BY <1>3, <1>5
<1>7. /\ HalfEven(sum.num, sum.den * n) \in 0 .. Unit
      /\ sum.num = 0 => HalfEven(sum.num, sum.den * n) = 0
  BY <1>5, <1>6, HalfEvenFacts
<1>8. Score[<<p, a>>] = HalfEven(sum.num, sum.den * n)
  BY DEF Score, sum, n, L
<1>9. p = a => sum.num = 0
  BY <1>4, EqualLeaves DEF SumOf, L
<1>10. QED
  BY <1>7, <1>8, <1>9
=============================================================================
