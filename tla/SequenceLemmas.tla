--------------------------- MODULE SequenceLemmas ---------------------------
(***************************************************************************)
(* Lemmas on natural numbers and on FlattenSeq, which the programs' models *)
(* use for what one recv makes of several packets.  Induction is over the  *)
(* numbers in a set rather than over a predicate.                          *)
(***************************************************************************)
EXTENDS Integers, SequencesExt, NaturalsInduction, WellFoundedInduction,
        SequenceTheorems, TLAPS

\* A set of natural numbers has a least element.
LEMMA LeastNatural ==
    ASSUME NEW T \in SUBSET Nat, T # {}
    PROVE  \E k \in T : \A j \in T : k <= j
<1> DEFINE R == OpToRel(<, Nat)
<1>1. IsWellFoundedOn(R, Nat)
  BY NatLessThanWellFounded
<1> HIDE DEF R
<1>2. PICK k \in T : \A j \in T : <<j, k>> \notin R
  BY <1>1, WFMin, Zenon
<1>3. \A j \in T : ~(j < k)
  BY <1>2 DEF R, OpToRel
<1> QED
  BY <1>3

\* A set with 0 and the successors of its numbers has them all.
LEMMA NaturalInduction ==
    ASSUME NEW S, 0 \in S, \A n \in Nat : n \in S => n + 1 \in S
    PROVE  Nat \subseteq S
<1> SUFFICES ASSUME Nat \ S # {} PROVE FALSE
  OBVIOUS
<1>1. PICK k \in Nat \ S : \A j \in Nat \ S : k <= j
  BY LeastNatural
<1>2. k - 1 \in Nat /\ k - 1 \in S
  BY <1>1
<1> QED
  BY <1>1, <1>2

\* The same from 1 to a bound.
LEMMA RangeInduction ==
    ASSUME NEW S, NEW N \in Nat \ {0}, 1 \in S, \A i \in 2..N : i - 1 \in S => i \in S
    PROVE  1..N \subseteq S
<1> DEFINE R == {n \in Nat : n + 1 \in 1..N => n + 1 \in S}
<1>1. 0 \in R
  OBVIOUS
<1>2. ASSUME NEW n \in Nat, n \in R PROVE n + 1 \in R
  <2> SUFFICES ASSUME (n + 1) + 1 \in 1..N PROVE (n + 1) + 1 \in S
    OBVIOUS
  <2>1. (n + 1) + 1 \in 2..N /\ ((n + 1) + 1) - 1 = n + 1 /\ n + 1 \in 1..N
    OBVIOUS
  <2> QED
    BY <1>2, <2>1
<1> HIDE DEF R
<1>3. Nat \subseteq R
  BY <1>1, <1>2, NaturalInduction
<1> SUFFICES ASSUME NEW i \in 1..N PROVE i \in S
  OBVIOUS
<1>4. i - 1 \in Nat /\ (i - 1) + 1 = i
  OBVIOUS
<1> QED
  BY <1>3, <1>4 DEF R

\* f has the values of a recursion over the natural numbers, up to n.
Recursion(f, X, base, step, n) ==
    /\ f \in [0..n -> X]
    /\ f[0] = base
    /\ \A i \in 0..(n - 1) : f[i + 1] = step[i][f[i]]

\* A recursion over the natural numbers has a solution up to any number.
LEMMA RecursionUpTo ==
    ASSUME NEW X, NEW base \in X, NEW step, NEW n \in Nat,
           \A i \in Nat : \A x \in X : step[i][x] \in X
    PROVE  \E f : Recursion(f, X, base, step, n)
<1> DEFINE Solves(f, m) == f[0] = base /\ \A i \in 0..(m - 1) : f[i + 1] = step[i][f[i]]
           S == {m \in Nat : \E f \in [0..m -> X] : Solves(f, m)}
<1>1. 0 \in S
  <2> DEFINE f == [i \in 0..0 |-> base]
  <2>1. f \in [0..0 -> X] /\ Solves(f, 0)
    OBVIOUS
  <2> QED
    BY <2>1
<1>2. ASSUME NEW m \in Nat, m \in S PROVE m + 1 \in S
  <2>1. PICK h \in [0..m -> X] : Solves(h, m)
    BY <1>2
  <2> DEFINE last == step[m][h[m]]
             f == [i \in 0..(m + 1) |-> IF i = m + 1 THEN last ELSE h[i]]
  <2>2. last \in X
    BY <2>1
  <2> HIDE DEF last
  <2>3. f \in [0..(m + 1) -> X]
    BY <2>1, <2>2
  <2>4. \A i \in 0..m : f[i + 1] = step[i][f[i]]
    <3> SUFFICES ASSUME NEW i \in 0..m PROVE f[i + 1] = step[i][f[i]]
      OBVIOUS
    <3>1. CASE i = m
      BY <3>1 DEF last
    <3>2. CASE i # m
      BY <2>1, <3>2
    <3> QED
      BY <3>1, <3>2
  <2>5. f[0] = base /\ (m + 1) - 1 = m
    BY <2>1
  <2>6. Solves(f, m + 1)
    BY <2>4, <2>5
  <2> HIDE DEF f, Solves
  <2> QED
    BY <2>3, <2>6
<1>3. n \in S
  <2> HIDE DEF S
  <2> QED
    BY <1>1, <1>2, NaturalInduction
<1> QED
  BY <1>3 DEF Recursion

\* ... and only one.
LEMMA RecursionUnique ==
    ASSUME NEW step, NEW n \in Nat, NEW f, NEW g,
           f[0] = g[0],
           \A i \in 0..(n - 1) : f[i + 1] = step[i][f[i]],
           \A i \in 0..(n - 1) : g[i + 1] = step[i][g[i]]
    PROVE  \A i \in 0..n : f[i] = g[i]
<1> DEFINE S == {m \in Nat : m <= n => f[m] = g[m]}
<1>1. 0 \in S
  OBVIOUS
<1>2. ASSUME NEW m \in Nat, m \in S PROVE m + 1 \in S
  <2> SUFFICES ASSUME m + 1 <= n PROVE f[m + 1] = g[m + 1]
    OBVIOUS
  <2>1. m \in 0..(n - 1) /\ f[m] = g[m]
    BY <1>2
  <2> QED
    BY <2>1
<1>3. Nat \subseteq S
  <2> HIDE DEF S
  <2> QED
    BY <1>1, <1>2, NaturalInduction
<1> QED
  BY <1>3

-----------------------------------------------------------------------------

\* The partial results of FlattenSeq, numbered from 1.
Flattens(f, seqs) ==
    f = [i \in 1..Len(seqs) |-> IF i = 1 THEN seqs[i] ELSE f[i - 1] \o seqs[i]]

FlattenSteps(f, T, seqs) ==
    /\ f \in [1..Len(seqs) -> Seq(T)]
    /\ f[1] = seqs[1]
    /\ \A i \in 2..Len(seqs) : f[i] = f[i - 1] \o seqs[i]
    /\ FlattenSeq(seqs) = f[Len(seqs)]

\* FlattenSeq takes the sequences one after the other.
LEMMA FlattenRecursion ==
    ASSUME NEW T, NEW seqs \in Seq(Seq(T)), seqs # <<>>
    PROVE  \E f : FlattenSteps(f, T, seqs)
<1> DEFINE N == Len(seqs)
           step == [i \in Nat |-> [x \in Seq(T) |->
                       IF i + 2 \in 1..N THEN x \o seqs[i + 2] ELSE x]]
<1>1. N \in Nat \ {0} /\ \A i \in 1..N : seqs[i] \in Seq(T)
  OBVIOUS
<1>2. \A i \in Nat : \A x \in Seq(T) : step[i][x] \in Seq(T)
  <2>1. ASSUME NEW i \in Nat, NEW x \in Seq(T), i + 2 \in 1..N PROVE x \o seqs[i + 2] \in Seq(T)
    BY <1>1, <2>1, ConcatProperties
  <2> QED
    BY <2>1
<1>3. \E h \in [0..(N - 1) -> Seq(T)] :
          h[0] = seqs[1] /\ \A i \in 0..(N - 2) : h[i + 1] = step[i][h[i]]
  <2> DEFINE m == N - 1
             X == Seq(T)
             base == seqs[1]
  <2>1. m \in Nat /\ base \in X /\ m - 1 = N - 2
    BY <1>1
  <2>2. \A i \in Nat : \A x \in X : step[i][x] \in X
    BY <1>2
  <2> HIDE DEF step, N, m, X, base
  <2>3. \E h : Recursion(h, X, base, step, m)
    BY <2>1, <2>2, RecursionUpTo, Zenon
  <2> QED
    BY <2>1, <2>3 DEF Recursion, m, X, base
<1>4. PICK h \in [0..(N - 1) -> Seq(T)] :
          h[0] = seqs[1] /\ \A i \in 0..(N - 2) : h[i + 1] = step[i][h[i]]
  BY <1>3
<1> HIDE DEF N
<1>5. ASSUME NEW i \in 2..N
      PROVE  h[i - 1] = h[i - 2] \o seqs[i]
  <2> DEFINE j == i - 2
  <2>1. j \in 0..(N - 2) /\ j \in 0..(N - 1) /\ j \in Nat /\ j + 1 = i - 1 /\ j + 2 = i
    BY <1>1
  <2> HIDE DEF j
  <2>2. h[j + 1] = step[j][h[j]] /\ h[j] \in Seq(T)
    BY <1>4, <2>1
  <2>3. i \in 1..N
    BY <1>1
  <2>4. step[j][h[j]] = h[j] \o seqs[j + 2]
    BY <2>1, <2>2, <2>3
  <2> QED
    BY <2>1, <2>2, <2>4 DEF j
<1> DEFINE g == [i \in 1..N |-> h[i - 1]]
<1>6. g \in [1..N -> Seq(T)]
  <2>1. \A i \in 1..N : i - 1 \in 0..(N - 1)
    BY <1>1
  <2> QED
    BY <1>4, <2>1
<1>7. g[1] = seqs[1]
  BY <1>1, <1>4
<1>8. ASSUME NEW i \in 2..N PROVE g[i] = g[i - 1] \o seqs[i]
  <2>1. i \in 1..N /\ i - 1 \in 1..N /\ (i - 1) - 1 = i - 2
    BY <1>1
  <2> QED
    BY <1>5, <2>1
<1> HIDE DEF g, step
<1>9. Flattens(g, seqs)
  <2>1. \A i \in 1..N : g[i] = IF i = 1 THEN seqs[i] ELSE g[i - 1] \o seqs[i]
    <3>1. \A i \in 1..N : i # 1 => i \in 2..N
      BY <1>1
    <3> QED
      BY <1>7, <1>8, <3>1
  <2> QED
    BY <1>6, <2>1 DEF Flattens, N
<1> DEFINE f == CHOOSE flatten : Flattens(flatten, seqs)
<1>10. Flattens(f, seqs)
  BY <1>9, Zenon
<1>11. FlattenSeq(seqs) = f[N]
  BY <1>1 DEF FlattenSeq, Flattens, N
<1> HIDE DEF f
<1>12. DOMAIN f = 1..N /\ \A i \in 1..N : f[i] = IF i = 1 THEN seqs[i] ELSE f[i - 1] \o seqs[i]
  BY <1>10 DEF Flattens, N
<1>13. f[1] = seqs[1] /\ \A i \in 2..N : f[i] = f[i - 1] \o seqs[i]
  <2>1. 1 \in 1..N /\ \A i \in 2..N : i \in 1..N /\ i # 1
    BY <1>1
  <2> QED
    BY <1>12, <2>1
<1>14. \A i \in 1..N : f[i] = g[i]
  <2> DEFINE S == {n \in Nat : n + 1 \in 1..N => f[n + 1] = g[n + 1]}
  <2>1. 0 \in S
    BY <1>7, <1>13
  <2>2. ASSUME NEW n \in Nat, n \in S PROVE n + 1 \in S
    <3> SUFFICES ASSUME (n + 1) + 1 \in 1..N PROVE f[(n + 1) + 1] = g[(n + 1) + 1]
      OBVIOUS
    <3> DEFINE k == (n + 1) + 1
    <3>1. k \in 2..N /\ n + 1 = k - 1 /\ n + 1 \in 1..N
      BY <1>1
    <3> HIDE DEF k
    <3>2. f[k - 1] = g[k - 1]
      BY <2>2, <3>1
    <3> QED
      BY <1>8, <1>13, <3>1, <3>2 DEF k
  <2> HIDE DEF S
  <2>3. Nat \subseteq S
    BY <2>1, <2>2, NaturalInduction
  <2> SUFFICES ASSUME NEW i \in 1..N PROVE f[i] = g[i]
    OBVIOUS
  <2>4. i - 1 \in Nat /\ (i - 1) + 1 = i
    BY <1>1
  <2> QED
    BY <2>3, <2>4 DEF S
<1>15. FlattenSeq(seqs) = g[N]
  BY <1>1, <1>11, <1>14
<1>16. FlattenSteps(g, T, seqs)
  BY <1>6, <1>7, <1>8, <1>15 DEF N, FlattenSteps
<1> QED
  BY <1>16

\* rest is what FlattenSeq puts behind the first sequence: elements of the others.
FlattenRest(rest, T, seqs) ==
    /\ rest \in Seq(T)
    /\ FlattenSeq(seqs) = seqs[1] \o rest
    /\ \A i \in DOMAIN rest :
          \E k \in 2..Len(seqs) : \E j \in DOMAIN seqs[k] : rest[i] = seqs[k][j]

\* FlattenSeq begins with the first sequence; the rest comes from the others.
LEMMA FlattenFirst ==
    ASSUME NEW T, NEW seqs \in Seq(Seq(T)), seqs # <<>>
    PROVE  \E rest : FlattenRest(rest, T, seqs)
<1> DEFINE N == Len(seqs)
           Later(e) == \E k \in 2..N : \E j \in DOMAIN seqs[k] : e = seqs[k][j]
<1>1. N \in Nat \ {0} /\ \A i \in 1..N : seqs[i] \in Seq(T)
  OBVIOUS
<1>2. PICK f : FlattenSteps(f, T, seqs)
  BY FlattenRecursion
<1> DEFINE Up(n, rest) == rest \in Seq(T) /\ f[n] = seqs[1] \o rest
                             /\ \A i \in DOMAIN rest : Later(rest[i])
           S == {n \in 1..N : \E rest : Up(n, rest)}
<1> HIDE DEF N, Later
<1>3. 1 \in S
  <2> DEFINE rest == <<>>
  <2>1. f[1] = seqs[1] \o rest /\ rest \in Seq(T)
    BY <1>1, <1>2 DEF FlattenSteps
  <2>2. \A i \in DOMAIN rest : Later(rest[i])
    OBVIOUS
  <2> HIDE DEF rest
  <2>3. 1 \in 1..N /\ Up(1, rest)
    BY <1>1, <2>1, <2>2
  <2> HIDE DEF Up
  <2> QED
    BY <2>3
<1>4. ASSUME NEW n \in 2..N, n - 1 \in S PROVE n \in S
  <2>1. PICK rest : Up(n - 1, rest)
    BY <1>4
  <2>2. f[n] = f[n - 1] \o seqs[n]
    BY <1>2 DEF FlattenSteps, N
  <2>3. seqs[n] \in Seq(T) /\ seqs[1] \in Seq(T) /\ n \in 1..N
    BY <1>1
  <2> DEFINE more == rest \o seqs[n]
  <2>4. more \in Seq(T)
    BY <2>1, <2>3
  <2>5. f[n] = seqs[1] \o more
    <3>1. f[n] = (seqs[1] \o rest) \o seqs[n]
      BY <2>1, <2>2
    <3>2. (seqs[1] \o rest) \o seqs[n] = seqs[1] \o (rest \o seqs[n])
      <4> DEFINE a == seqs[1]
                 c == seqs[n]
      <4>1. a \in Seq(T) /\ rest \in Seq(T) /\ c \in Seq(T)
        BY <2>1, <2>3
      <4> HIDE DEF a, c
      <4>2. (a \o rest) \o c = a \o (rest \o c)
        BY <4>1
      <4> QED
        BY <4>2 DEF a, c
    <3> QED
      BY <3>1, <3>2
  <2>6. \A i \in DOMAIN more : Later(more[i])
    <3> SUFFICES ASSUME NEW i \in DOMAIN more PROVE Later(more[i])
      OBVIOUS
    <3>1. CASE i \in DOMAIN rest
      BY <2>1, <2>3, <3>1
    <3>2. CASE i \notin DOMAIN rest
      <4>1. i - Len(rest) \in DOMAIN seqs[n] /\ more[i] = seqs[n][i - Len(rest)]
        BY <2>3, <3>2
      <4> QED
        BY <4>1 DEF Later
    <3> QED
      BY <3>1, <3>2
  <2> HIDE DEF more
  <2>7. Up(n, more)
    BY <2>4, <2>5, <2>6
  <2> HIDE DEF Up
  <2> QED
    BY <2>3, <2>7
<1>5. 1..N \subseteq S
  <2> HIDE DEF S
  <2> QED
    BY <1>1, <1>3, <1>4, RangeInduction
<1>6. FlattenSeq(seqs) = f[N]
  BY <1>2 DEF FlattenSteps, N
<1> HIDE DEF Up
<1>7. PICK rest : Up(N, rest)
  <2>1. N \in 1..N
    BY <1>1
  <2>2. N \in S
    BY <1>5, <2>1
  <2> QED
    BY <2>2
<1>8. FlattenRest(rest, T, seqs)
  BY <1>6, <1>7 DEF Up, Later, N, FlattenRest
<1> QED
  BY <1>8

\* Sequences of one element each add one to the length.
LEMMA FlattenLength ==
    ASSUME NEW T, NEW seqs \in Seq(Seq(T)), seqs # <<>>,
           \A k \in 2..Len(seqs) : Len(seqs[k]) = 1
    PROVE  Len(FlattenSeq(seqs)) = Len(seqs[1]) + Len(seqs) - 1
<1> DEFINE N == Len(seqs)
<1>1. N \in Nat \ {0} /\ \A i \in 1..N : seqs[i] \in Seq(T)
  OBVIOUS
<1>2. PICK f : FlattenSteps(f, T, seqs)
  BY FlattenRecursion
<1>0. \A k \in 2..N : Len(seqs[k]) = 1
  OBVIOUS
<1> DEFINE first == Len(seqs[1])
           length == [n \in 1..N |-> Len(f[n])]
<1> HIDE DEF N
<1>3. first \in Nat /\ length[1] = first
  BY <1>1, <1>2 DEF FlattenSteps
<1>4. ASSUME NEW n \in 2..N PROVE n - 1 \in 1..N /\ n \in 1..N /\ length[n] = length[n - 1] + 1
  <2> DEFINE before == f[n - 1]
             next == seqs[n]
  <2>1. n - 1 \in 1..N /\ n \in 1..N
    BY <1>1
  <2>2. f[n] = before \o next /\ before \in Seq(T) /\ next \in Seq(T)
    BY <1>1, <1>2, <2>1 DEF FlattenSteps, N
  <2>3. Len(next) = 1
    BY <1>0
  <2> HIDE DEF before, next
  <2>4. Len(before \o next) = Len(before) + Len(next)
    BY <2>2
  <2>5. Len(f[n]) = Len(before) + 1
    BY <2>2, <2>3, <2>4
  <2> QED
    BY <2>1, <2>5 DEF before
<1> DEFINE S == {n \in 1..N : length[n] = first + n - 1}
<1>8. Len(f[N]) = length[N]
  BY <1>1
<1> HIDE DEF first, length
<1>5. 1 \in S
  BY <1>1, <1>3
<1>6. ASSUME NEW n \in 2..N, n - 1 \in S PROVE n \in S
  BY <1>3, <1>4, <1>6
<1>7. N \in S
  <2> HIDE DEF S
  <2>1. 1..N \subseteq S
    BY <1>1, <1>5, <1>6, RangeInduction
  <2> QED
    BY <1>1, <2>1
<1>9. Len(f[N]) = first + N - 1
  BY <1>7, <1>8
<1> QED
  BY <1>2, <1>9 DEF FlattenSteps, N, first

\* The last sequence ends it.
LEMMA FlattenLast ==
    ASSUME NEW T, NEW seqs \in Seq(Seq(T)), seqs # <<>>
    PROVE  \E front \in Seq(T) : FlattenSeq(seqs) = front \o seqs[Len(seqs)]
<1> DEFINE N == Len(seqs)
<1>1. N \in Nat \ {0} /\ \A i \in 1..N : seqs[i] \in Seq(T)
  OBVIOUS
<1>2. PICK f : FlattenSteps(f, T, seqs)
  BY FlattenRecursion
<1>0. N \in Nat \ {0}
  BY <1>1
<1> HIDE DEF N
<1>3. CASE N = 1
  <2>1. FlattenSeq(seqs) = <<>> \o seqs[N] /\ <<>> \in Seq(T)
    BY <1>1, <1>2, <1>3 DEF FlattenSteps, N
  <2> QED
    BY <2>1 DEF N
<1>4. CASE N # 1
  <2>1. N \in 2..N /\ N - 1 \in 1..N
    BY <1>0, <1>4
  <2>2. FlattenSeq(seqs) = f[N - 1] \o seqs[N] /\ f[N - 1] \in Seq(T)
    BY <1>2, <2>1 DEF FlattenSteps, N
  <2> QED
    BY <2>2 DEF N
<1> QED
  BY <1>3, <1>4

\* FlattenSeq keeps the type.
LEMMA FlattenType ==
    ASSUME NEW T, NEW seqs \in Seq(Seq(T))
    PROVE  FlattenSeq(seqs) \in Seq(T)
<1>1. CASE seqs = <<>>
  <2>1. FlattenSeq(seqs) = <<>>
    BY <1>1 DEF FlattenSeq
  <2> QED
    BY <2>1
<1>2. CASE seqs # <<>>
  <2>1. PICK rest : FlattenRest(rest, T, seqs)
    BY <1>2, FlattenFirst
  <2>2. seqs[1] \in Seq(T)
    BY <1>2
  <2> QED
    BY <2>1, <2>2 DEF FlattenRest
<1> QED
  BY <1>1, <1>2

\* Every element of it comes from one of the sequences.
LEMMA FlattenElements ==
    ASSUME NEW T, NEW seqs \in Seq(Seq(T)), NEW i \in DOMAIN FlattenSeq(seqs)
    PROVE  \E k \in DOMAIN seqs : \E j \in DOMAIN seqs[k] : FlattenSeq(seqs)[i] = seqs[k][j]
<1>1. CASE seqs = <<>>
  <2>1. FlattenSeq(seqs) = <<>>
    BY <1>1 DEF FlattenSeq
  <2> QED
    BY <2>1
<1>2. CASE seqs # <<>>
  <2>0. PICK rest : FlattenRest(rest, T, seqs)
    BY <1>2, FlattenFirst
  <2>1. /\ rest \in Seq(T)
        /\ FlattenSeq(seqs) = seqs[1] \o rest
        /\ \A n \in DOMAIN rest :
              \E k \in 2..Len(seqs) : \E j \in DOMAIN seqs[k] : rest[n] = seqs[k][j]
    BY <2>0 DEF FlattenRest
  <2>2. seqs[1] \in Seq(T) /\ 1 \in DOMAIN seqs /\ 2..Len(seqs) \subseteq DOMAIN seqs
    BY <1>2
  <2>3. CASE i \in DOMAIN seqs[1]
    BY <2>1, <2>2, <2>3
  <2>4. CASE i \notin DOMAIN seqs[1]
    <3> DEFINE n == i - Len(seqs[1])
    <3>1. n \in DOMAIN rest /\ FlattenSeq(seqs)[i] = rest[n]
      BY <2>1, <2>2, <2>4
    <3> QED
      BY <2>1, <2>2, <3>1
  <2> QED
    BY <2>3, <2>4
<1> QED
  BY <1>1, <1>2

-----------------------------------------------------------------------------

\* A set with the empty sequence and, for each of its sequences, those that are
\* longer by one element, has them all.
LEMMA SequenceInduction ==
    ASSUME NEW T, NEW S, <<>> \in S,
           \A s \in Seq(T) : \A e \in T : s \in S => Append(s, e) \in S
    PROVE  Seq(T) \subseteq S
<1> DEFINE R == {n \in Nat : \A s \in Seq(T) : Len(s) = n => s \in S}
<1>1. 0 \in R
  <2>1. \A s \in Seq(T) : Len(s) = 0 => s = <<>>
    OBVIOUS
  <2> QED
    BY <2>1
<1>2. ASSUME NEW n \in Nat, n \in R PROVE n + 1 \in R
  <2> SUFFICES ASSUME NEW s \in Seq(T), Len(s) = n + 1 PROVE s \in S
    OBVIOUS
  <2> DEFINE front == SubSeq(s, 1, n)
  <2>1. front \in Seq(T) /\ Len(front) = n /\ s[n + 1] \in T
    OBVIOUS
  <2>2. s = Append(front, s[n + 1])
    OBVIOUS
  <2> HIDE DEF front
  <2> QED
    BY <1>2, <2>1, <2>2
<1> HIDE DEF R
<1>3. Nat \subseteq R
  BY <1>1, <1>2, NaturalInduction
<1> QED
  BY <1>3 DEF R

\* What ends a sequence is a suffix of it.
LEMMA SuffixOfConcat ==
    ASSUME NEW T, NEW front \in Seq(T), NEW s \in Seq(T)
    PROVE  IsSuffix(s, front \o s)
<1> DEFINE all == front \o s
           r == Reverse(s)
           ra == Reverse(all)
<1>1. all \in Seq(T) /\ Len(all) = Len(front) + Len(s)
  OBVIOUS
<1>2. r \in Seq(T) /\ Len(r) = Len(s) /\ \A i \in 1..Len(s) : r[i] = s[(Len(s) - i) + 1]
  BY DEF Reverse
<1>3. ra \in Seq(T) /\ Len(ra) = Len(all)
      /\ \A i \in 1..Len(all) : ra[i] = all[(Len(all) - i) + 1]
  BY <1>1 DEF Reverse
<1>4. \A i \in 1..Len(s) : r[i] = ra[i]
  <2> SUFFICES ASSUME NEW i \in 1..Len(s) PROVE r[i] = ra[i]
    OBVIOUS
  <2> DEFINE j == (Len(all) - i) + 1
             k == (Len(s) - i) + 1
  <2>1. j \in 1..Len(all) /\ j = Len(front) + k /\ k \in 1..Len(s) /\ i \in 1..Len(all)
    BY <1>1
  <2>2. all[j] = s[k]
    <3> HIDE DEF j, k
    <3> QED
      BY <2>1
  <2> QED
    BY <1>2, <1>3, <2>1, <2>2
<1>5. IsPrefix(r, ra)
  <2> HIDE DEF r, ra, all
  <2> QED
    BY <1>1, <1>2, <1>3, <1>4 DEF IsPrefix
<1> QED
  BY <1>5 DEF IsSuffix
=============================================================================
