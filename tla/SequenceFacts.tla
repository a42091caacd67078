---------------------------- MODULE SequenceFacts ----------------------------
(***************************************************************************)
(* Facts that the proofs about more than one component need: induction     *)
(* over a set of numbers, functions that are defined by recursion, and     *)
(* sequences put together from sequences.                                  *)
(***************************************************************************)
EXTENDS Integers, Sequences, SequencesExt, TLAPS, NaturalsInduction, WellFoundedInduction

LEMMA Least ==
    ASSUME NEW T \in SUBSET Nat, T # {}
    PROVE  \E i \in T : \A k \in T : i <= k
<1>. DEFINE R == OpToRel(<, Nat)
<1>1. IsWellFoundedOn(R, Nat)
  BY NatLessThanWellFounded
<1>2. PICK i \in T : \A k \in T : <<k, i>> \notin R
  <2>. HIDE DEF R
  <2>. QED  BY <1>1, WFMin
<1>3. ASSUME NEW k \in T
      PROVE  i <= k
  <2>1. <<k, i>> \notin R
    BY <1>2
  <2>2. ~(k < i)
    BY <2>1 DEF OpToRel
  <2>. QED  BY <2>2
<1>. QED  BY <1>3

\* A set with its first number and with the successor of each of its numbers
\* up to the last has them all.
LEMMA UpTo ==
    ASSUME NEW a \in Nat, NEW n \in Nat, a <= n, NEW T,
           a \in T, \A k \in (a + 1)..n : k - 1 \in T => k \in T
    PROVE  \A k \in a..n : k \in T
<1>. DEFINE Missing == {k \in a..n : k \notin T}
<1>1. CASE Missing = {}
  BY <1>1
<1>2. CASE Missing # {}
  <2>1. PICK k \in Missing : \A l \in Missing : k <= l
    <3>1. Missing \in SUBSET Nat
      OBVIOUS
    <3>. HIDE DEF Missing
    <3>. QED  BY <1>2, <3>1, Least
  <2>2. k \in (a + 1)..n /\ k - 1 \in a..n /\ k - 1 \notin Missing
    BY <2>1
  <2>. QED  BY <2>1, <2>2
<1>. QED  BY <1>1, <1>2

\* A function that starts at first and makes each step.
IsRecursion(f, first, step, n) ==
    f[0] = first /\ \A k \in 1..n : f[k] = step[k][f[k - 1]]

LEMMA RecursionExists ==
    ASSUME NEW S, NEW n \in Nat, NEW first \in S, NEW step \in [1..n -> [S -> S]]
    PROVE  \E f \in [0..n -> S] : IsRecursion(f, first, step, n)
<1>. DEFINE Has(l) == \E f \in [0..l -> S] : IsRecursion(f, first, step, l)
            T == {l \in 0..n : Has(l)}
<1>1. Has(0)
  <2>. DEFINE f == [k \in 0..0 |-> first]
  <2>1. f \in [0..0 -> S] /\ f[0] = first /\ \A k \in 1..0 : f[k] = step[k][f[k - 1]]
    OBVIOUS
  <2>. QED  BY <2>1 DEF IsRecursion
<1>2. ASSUME NEW l \in 1..n, Has(l - 1)
      PROVE  Has(l)
  <2>1. PICK f \in [0..(l - 1) -> S] : IsRecursion(f, first, step, l - 1)
    BY <1>2
  <2>. DEFINE g == [k \in 0..l |-> IF k = l THEN step[l][f[l - 1]] ELSE f[k]]
  <2>2. g \in [0..l -> S]
    <3>1. f[l - 1] \in S
      BY <2>1
    <3>2. step[l][f[l - 1]] \in S
      BY <3>1
    <3>. QED  BY <3>2
  <2>3. g[l] = step[l][f[l - 1]] /\ \A k \in 0..(l - 1) : g[k] = f[k]
    OBVIOUS
  <2>. HIDE DEF g
  <2>4. g[0] = first
    BY <2>1, <2>3 DEF IsRecursion
  <2>5. ASSUME NEW k \in 1..l
        PROVE  g[k] = step[k][g[k - 1]]
    <3>1. CASE k = l
      BY <2>3, <3>1
    <3>2. CASE k # l
      <4>1. k \in 1..(l - 1) /\ k \in 0..(l - 1) /\ k - 1 \in 0..(l - 1)
        BY <3>2
      <4>. QED  BY <2>1, <2>3, <4>1 DEF IsRecursion
    <3>. QED  BY <3>1, <3>2
  <2>6. IsRecursion(g, first, step, l)
    BY <2>4, <2>5 DEF IsRecursion
  <2>. QED  BY <2>2, <2>6
<1>. HIDE DEF Has
<1>3. \A l \in 0..n : l \in T
  <2>1. 0 \in T /\ \A l \in 1..n : l - 1 \in T => l \in T
    BY <1>1, <1>2
  <2>2. 0 + 1 = 1 /\ 0 \in Nat /\ 0 <= n
    OBVIOUS
  <2>. HIDE DEF T
  <2>. QED  BY <2>1, <2>2, UpTo
<1>. QED  BY <1>3 DEF Has

-----------------------------------------------------------------------------
(* Sequences of sequences                                                  *)

\* The sequences of a sequence, put together one by one.
LEMMA FlattenSteps ==
    ASSUME NEW S, NEW seqs \in Seq(Seq(S))
    PROVE  \E f \in [0..Len(seqs) -> Seq(S)] :
               /\ f[0] = <<>> /\ \A k \in 1..Len(seqs) : f[k] = f[k - 1] \o seqs[k]
               /\ FlattenSeq(seqs) = f[Len(seqs)]
<1>. DEFINE n == Len(seqs)
            step == [k \in 1..n |-> [s \in Seq(S) |-> s \o seqs[k]]]
            flat(g) == [i \in 1..n |-> IF i = 1 THEN seqs[i] ELSE g[i - 1] \o seqs[i]]
            flatten == CHOOSE g : g = flat(g)
<1>1. n \in Nat /\ \A k \in 1..n : seqs[k] \in Seq(S)
  OBVIOUS
<1>2. step \in [1..n -> [Seq(S) -> Seq(S)]]
  <2>1. ASSUME NEW k \in 1..n, NEW s \in Seq(S)
        PROVE  s \o seqs[k] \in Seq(S)
    <3>1. seqs[k] \in Seq(S)
      BY <1>1
    <3>. QED  BY <3>1
  <2>. QED  BY <2>1
<1>3. <<>> \in Seq(S)
  OBVIOUS
<1>4. PICK f \in [0..n -> Seq(S)] : IsRecursion(f, <<>>, step, n)
  <2>. HIDE DEF n, step
  <2>. QED  BY <1>1, <1>2, <1>3, RecursionExists
<1>5. f[0] = <<>> /\ \A k \in 1..n : f[k] = f[k - 1] \o seqs[k]
  <2>2. ASSUME NEW k \in 1..n
        PROVE  step[k][f[k - 1]] = f[k - 1] \o seqs[k]
    <3>1. f[k - 1] \in Seq(S)
      <4>1. k - 1 \in 0..n
        BY <1>1
      <4>. HIDE DEF n
      <4>. QED  BY <4>1
    <3>. QED  BY <3>1
  <2>. HIDE DEF n, step
  <2>. QED  BY <1>4, <2>2 DEF IsRecursion
<1>6. CASE n = 0
  <2>1. FlattenSeq(seqs) = <<>>
    BY <1>6 DEF FlattenSeq
  <2>. QED  BY <1>4, <1>5, <1>6, <2>1
<1>7. CASE n # 0
  <2>1. f[1] = seqs[1]
    <3>1. 1 \in 1..n
      BY <1>1, <1>7
    <3>2. seqs[1] \in Seq(S)
      BY <1>1, <3>1
    <3>3. f[1] = f[1 - 1] \o seqs[1]
      <4>. HIDE DEF n
      <4>. QED  BY <1>5, <3>1
    <3>4. f[1] = f[0] \o seqs[1]
      BY <3>3
    <3>5. f[1] = <<>> \o seqs[1]
      <4>. HIDE DEF n
      <4>. QED  BY <1>5, <3>4
    <3>. QED  BY <3>2, <3>5
  <2>. DEFINE h == [k \in 1..n |-> f[k]]
  <2>2. h = flat(h)
    <3>1. ASSUME NEW k \in 1..n
          PROVE  f[k] = IF k = 1 THEN seqs[k] ELSE h[k - 1] \o seqs[k]
      <4>1. CASE k = 1
        BY <2>1, <4>1
      <4>2. CASE k # 1
        <5>1. k - 1 \in 1..n
          BY <1>1, <4>2
        <5>2. h[k - 1] = f[k - 1]
          BY <5>1
        <5>. HIDE DEF h
        <5>. QED  BY <1>5, <4>2, <5>2
      <4>. QED  BY <4>1, <4>2
    <3>. QED  BY <3>1
  <2>3. flatten = flat(flatten)
    <3>. HIDE DEF h
    <3>. QED  BY <2>2
  <2>. HIDE DEF flatten
  <2>4. flatten[1] = seqs[1] /\ \A k \in 2..n : flatten[k] = flatten[k - 1] \o seqs[k]
    <3>. DEFINE g == flat(flatten)
    <3>1. g[1] = seqs[1] /\ \A k \in 2..n : g[k] = flatten[k - 1] \o seqs[k]
      <4>1. n \in Nat /\ 1 \in 1..n /\ \A k \in 2..n : k \in 1..n /\ k # 1
        BY <1>1, <1>7
      <4>. HIDE DEF n
      <4>. QED  BY <4>1
    <3>2. flatten = g
      BY <2>3
    <3>. HIDE DEF g
    <3>. QED  BY <3>1, <3>2
  <2>5. \A k \in 1..n : flatten[k] = f[k]
    <3>. DEFINE T == {k \in 1..n : flatten[k] = f[k]}
    <3>1. 1 \in T
      BY <1>1, <1>7, <2>1, <2>4
    <3>2. \A k \in (1 + 1)..n : k - 1 \in T => k \in T
      <4>1. \A k \in (1 + 1)..n : k \in 2..n /\ k \in 1..n
        BY <1>1
      <4>. HIDE DEF n
      <4>. QED  BY <1>5, <2>4, <4>1
    <3>3. \A k \in 1..n : k \in T
      <4>1. 1 \in Nat /\ 1 <= n
        BY <1>1, <1>7
      <4>. HIDE DEF T
      <4>. QED  BY <1>1, <3>1, <3>2, <4>1, UpTo
    <3>. QED  BY <3>3
  <2>6. FlattenSeq(seqs) = flatten[n]
    BY <1>7 DEF FlattenSeq, flatten
  <2>7. FlattenSeq(seqs) = f[n]
    BY <1>1, <1>7, <2>5, <2>6
  <2>. HIDE DEF n
  <2>8. f[0] = <<>> /\ (\A k \in 1..n : f[k] = f[k - 1] \o seqs[k]) /\ FlattenSeq(seqs) = f[n]
    BY <1>5, <2>7
  <2>. QED  BY <1>4, <2>8 DEF n
<1>. QED  BY <1>6, <1>7

\* Where each sequence starts, and that it is there as it was.
LEMMA FlattenAt ==
    ASSUME NEW S, NEW seqs \in Seq(Seq(S))
    PROVE  /\ FlattenSeq(seqs) \in Seq(S)
           /\ \E start \in [1..(Len(seqs) + 1) -> Nat] :
                  /\ start[1] = 0
                  /\ \A k \in 1..Len(seqs) : start[k + 1] = start[k] + Len(seqs[k])
                  /\ Len(FlattenSeq(seqs)) = start[Len(seqs) + 1]
                  /\ \A k \in 1..Len(seqs) :
                        /\ start[k + 1] <= Len(FlattenSeq(seqs))
                        /\ \A b \in 1..Len(seqs[k]) :
                               FlattenSeq(seqs)[start[k] + b] = seqs[k][b]
<1>. DEFINE n == Len(seqs)
            all == FlattenSeq(seqs)
<1>1. n \in Nat /\ \A k \in 1..n : seqs[k] \in Seq(S)
  OBVIOUS
<1>2. PICK f \in [0..n -> Seq(S)] :
          /\ f[0] = <<>> /\ \A k \in 1..n : f[k] = f[k - 1] \o seqs[k]
          /\ all = f[n]
  BY FlattenSteps
<1>. HIDE DEF n, all
<1>. DEFINE start == [k \in 1..(n + 1) |-> Len(f[k - 1])]
<1>3. /\ start \in [1..(n + 1) -> Nat] /\ start[1] = 0
      /\ \A k \in 1..n : start[k + 1] = Len(f[k]) /\ start[k] = Len(f[k - 1])
      /\ Len(all) = start[n + 1]
  <2>1. \A k \in 1..(n + 1) : k - 1 \in 0..n /\ Len(f[k - 1]) \in Nat
    BY <1>1, <1>2
  <2>2. start[1] = Len(f[0]) /\ start[n + 1] = Len(f[n])
    BY <1>1
  <2>3. \A k \in 1..n : start[k + 1] = Len(f[k]) /\ start[k] = Len(f[k - 1])
    BY <1>1
  <2>. QED  BY <1>2, <2>1, <2>2, <2>3
<1>4. ASSUME NEW k \in 1..n
      PROVE  /\ Len(f[k]) = Len(f[k - 1]) + Len(seqs[k])
             /\ \A b \in 1..Len(f[k - 1]) : f[k][b] = f[k - 1][b]
             /\ \A b \in 1..Len(seqs[k]) : f[k][Len(f[k - 1]) + b] = seqs[k][b]
  <2>. DEFINE s1 == f[k - 1]
              t1 == seqs[k]
  <2>1. s1 \in Seq(S) /\ t1 \in Seq(S) /\ f[k] = s1 \o t1
    <3>1. k - 1 \in 0..n
      BY <1>1
    <3>. QED  BY <1>1, <1>2, <3>1
  <2>2. \A s, t \in Seq(S) :
            /\ Len(s \o t) = Len(s) + Len(t)
            /\ \A b \in 1..Len(s) : (s \o t)[b] = s[b]
            /\ \A b \in 1..Len(t) : (s \o t)[Len(s) + b] = t[b]
    OBVIOUS
  <2>. HIDE DEF s1, t1
  <2>3. /\ Len(f[k]) = Len(s1) + Len(t1)
        /\ \A b \in 1..Len(s1) : f[k][b] = s1[b]
        /\ \A b \in 1..Len(t1) : f[k][Len(s1) + b] = t1[b]
    BY <2>1, <2>2
  <2>. QED  BY <2>3 DEF s1, t1
<1>5. \A k \in 0..n : Len(f[k]) \in Nat
  BY <1>2
\* what is there stays there
<1>6. ASSUME NEW j \in 0..n
      PROVE  \A k \in j..n : Len(f[j]) <= Len(f[k]) /\ \A b \in 1..Len(f[j]) : f[k][b] = f[j][b]
  <2>. DEFINE T == {k \in j..n : /\ Len(f[j]) <= Len(f[k])
                                 /\ \A b \in 1..Len(f[j]) : f[k][b] = f[j][b]}
  <2>1. j \in T
    BY <1>1, <1>5
  <2>2. ASSUME NEW k \in (j + 1)..n, k - 1 \in T
        PROVE  k \in T
    <3>1. k \in 1..n /\ k - 1 \in 0..n /\ k \in 0..n
      BY <1>1
    <3>2. Len(f[j]) <= Len(f[k - 1]) /\ \A b \in 1..Len(f[j]) : f[k - 1][b] = f[j][b]
      BY <2>2
    <3>3. Len(f[k - 1]) <= Len(f[k])
      <4>1. Len(seqs[k]) \in Nat
        BY <1>1, <3>1
      <4>2. Len(f[k - 1]) \in Nat /\ Len(f[k]) = Len(f[k - 1]) + Len(seqs[k])
        BY <1>4, <1>5, <3>1
      <4>3. \A x, y \in Nat : x <= x + y
        OBVIOUS
      <4>. QED  BY <4>1, <4>2, <4>3
    <3>4. \A b \in 1..Len(f[j]) : b \in 1..Len(f[k - 1])
      BY <1>5, <3>1, <3>2
    <3>5. \A b \in 1..Len(f[j]) : f[k][b] = f[j][b]
      BY <1>4, <3>1, <3>2, <3>4
    <3>. QED  BY <1>1, <1>5, <3>1, <3>2, <3>3, <3>5
  <2>3. \A k \in j..n : k \in T
    <3>1. j \in Nat /\ j <= n
      BY <1>1
    <3>. HIDE DEF T
    <3>. QED  BY <1>1, <2>1, <2>2, <3>1, UpTo
  <2>. QED  BY <2>3
<1>7. ASSUME NEW k \in 1..n
      PROVE  /\ start[k + 1] <= Len(all)
             /\ \A b \in 1..Len(seqs[k]) : all[start[k] + b] = seqs[k][b]
  <2>1. k \in 0..n /\ n \in k..n /\ n \in 0..n
    BY <1>1
  <2>2. Len(f[k]) <= Len(f[n]) /\ \A b \in 1..Len(f[k]) : f[n][b] = f[k][b]
    BY <1>6, <2>1
  <2>3. \A b \in 1..Len(seqs[k]) : Len(f[k - 1]) + b \in 1..Len(f[k])
    <3>1. Len(f[k - 1]) \in Nat /\ Len(seqs[k]) \in Nat
      BY <1>1, <1>5
    <3>2. Len(f[k]) = Len(f[k - 1]) + Len(seqs[k])
      BY <1>4
    <3>3. \A x, y, z \in Nat : z = x + y => \A b \in 1..y : x + b \in 1..z
      OBVIOUS
    <3>4. Len(f[k]) \in Nat
      BY <1>5, <2>1
    <3>. QED  BY <3>1, <3>2, <3>3, <3>4
  <2>. HIDE DEF start
  <2>. QED  BY <1>2, <1>3, <1>4, <2>2, <2>3
<1>8. \A k \in 1..n : start[k + 1] = start[k] + Len(seqs[k])
  BY <1>3, <1>4
<1>9. all \in Seq(S)
  BY <1>1, <1>2
<1>. HIDE DEF start
<1>10. \E s \in [1..(n + 1) -> Nat] :
          /\ s[1] = 0
          /\ \A k \in 1..n : s[k + 1] = s[k] + Len(seqs[k])
          /\ Len(all) = s[n + 1]
          /\ \A k \in 1..n : /\ s[k + 1] <= Len(all)
                             /\ \A b \in 1..Len(seqs[k]) : all[s[k] + b] = seqs[k][b]
  BY <1>3, <1>7, <1>8
<1>. QED  BY <1>9, <1>10 DEF n, all
=============================================================================
