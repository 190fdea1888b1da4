-------------------------- MODULE ShortPath_proofs --------------------------
(***************************************************************************)
(* Proofs about ShortPath, for any number of routers and any matrices:     *)
(* what shortpath returns, when it returns, is a shortest-path tree.       *)
(***************************************************************************)
EXTENDS ShortPath, SequenceLemmas, FiniteSetTheorems

\* Selected routers keep their distances, and no distance grows or falls
\* below that of the current router (routed_LS.c:82-92).
LEMMA RelaxedBounds ==
    ASSUME IInv
    PROVE  /\ Relaxed \in [Nodes -> 0..INFINITE]
           /\ \A s \in selected : Relaxed[s] = distance[s]
           /\ \A u \in Nodes : Relaxed[u] <= distance[u]
           /\ \A u \in Nodes \ selected :
                  /\ distance[current] <= Relaxed[u]
                  /\ Relaxed[u] <= distance[current] + cost[current][u]
  <1> USE DEF IInv, TypeOK, Matrices, Relaxed, Shorter
  <1>1. current \in Nodes /\ \A u \in Nodes : cost[current][u] \in Nat
    OBVIOUS
  <1>2. ASSUME NEW u \in Nodes, Shorter(u)
        PROVE  /\ Relaxed[u] = distance[current] + cost[current][u]
               /\ Relaxed[u] \in 0..INFINITE
    BY <1>1, <1>2, MaxAssumption
  <1>3. ASSUME NEW u \in Nodes, ~Shorter(u)
        PROVE  Relaxed[u] = distance[u]
    BY <1>3
  <1>4. Relaxed \in [Nodes -> 0..INFINITE]
    BY <1>1, MaxAssumption
  <1>5. \A s \in selected : Relaxed[s] = distance[s]
    BY <1>3
  <1>6. \A u \in Nodes : Relaxed[u] <= distance[u]
    BY <1>1, <1>2, <1>3, MaxAssumption
  <1>7. \A u \in Nodes \ selected :
            /\ distance[current] <= Relaxed[u]
            /\ Relaxed[u] <= distance[current] + cost[current][u]
    BY <1>1, <1>2, <1>3, MaxAssumption
  <1> QED BY <1>4, <1>5, <1>6, <1>7

\* Before the loop, the invariant holds (routed_LS.c:57-77).
LEMMA InitIInv == Init => IInv
  BY CostsAssumption, MaxAssumption DEF Init, IInv, TypeOK, Nodes, Matrices

\* One pass, by whichever router it selects, keeps the invariant
\* (routed_LS.c:79-102).
LEMMA PassIInv ==
    ASSUME IInv, Pass
    PROVE  IInv'
  <1>1. /\ distance' = Relaxed
        /\ preced' = [i \in Nodes |-> IF Shorter(i) THEN current ELSE preced[i]]
        /\ cost' = cost /\ pc = "running" /\ selected # Nodes
    BY DEF Pass, Relax
  <1>2. /\ cost \in Matrices /\ selected \subseteq Nodes
        /\ distance \in [Nodes -> 0..INFINITE] /\ preced \in [Nodes -> Nodes]
        /\ current \in selected /\ 0 \in selected /\ 0 \in Nodes /\ INFINITE \in Nat
        /\ distance[0] = 0
    <2>1. 0 \in Nodes /\ INFINITE \in Nat
      BY MaxAssumption DEF Nodes
    <2> QED BY <2>1 DEF IInv, TypeOK
  <1>3. \A i, j \in Nodes : cost[i][j] \in Nat /\ distance[i] \in Nat /\ distance'[i] \in Nat
    BY <1>1, <1>2, RelaxedBounds DEF Matrices
  <1>4. distance' \in [Nodes -> 0..INFINITE]
    BY <1>1, RelaxedBounds
  <1>5. \A s \in selected : distance'[s] = distance[s]
    BY <1>1, RelaxedBounds
  <1>6. \A u \in Nodes : distance'[u] <= distance[u]
    BY <1>1, RelaxedBounds
  <1>7. \A u \in Nodes \ selected :
            distance[current] <= distance'[u]
            /\ distance'[u] <= distance[current] + cost[current][u]
    BY <1>1, RelaxedBounds
  <1>8. \A s \in selected, u \in Nodes : distance'[u] <= distance'[s] + cost[s][u]
    <2> SUFFICES ASSUME NEW s \in selected, NEW u \in Nodes
                 PROVE  distance'[u] <= distance[s] + cost[s][u]
      BY <1>5
    <2>1. CASE s = current /\ u \in selected
      <3>1. distance[u] <= distance[current]
        BY <2>1 DEF IInv
      <3> QED BY <3>1, <2>1, <1>2, <1>3, <1>6
    <2>2. CASE s = current /\ u \notin selected
      BY <2>2, <1>7
    <2>3. CASE s # current
      <3>1. distance[u] <= distance[s] + cost[s][u]
        BY <2>3 DEF IInv
      <3> QED BY <3>1, <1>2, <1>3, <1>6
    <2> QED BY <2>1, <2>2, <2>3
  <1>9. \A i \in Nodes \ {0} : distance'[i] < INFINITE =>
            /\ preced'[i] \in selected \ {i}
            /\ distance'[i] = distance'[preced'[i]] + cost[preced'[i]][i]
    <2> SUFFICES ASSUME NEW i \in Nodes \ {0}, distance'[i] < INFINITE
                 PROVE  /\ preced'[i] \in selected \ {i}
                        /\ distance'[i] = distance'[preced'[i]] + cost[preced'[i]][i]
      OBVIOUS
    <2>1. CASE Shorter(i)
      BY <2>1, <1>1, <1>2, <1>5 DEF Relaxed, Shorter
    <2>2. CASE ~Shorter(i)
      <3>1. distance'[i] = distance[i] /\ preced'[i] = preced[i]
        BY <2>2, <1>1 DEF Relaxed
      <3> QED BY <3>1, <1>5 DEF IInv
    <2> QED BY <2>1, <2>2
  <1>10. preced' \in [Nodes -> Nodes]
    BY <1>1, <1>2
  <1>11. ASSUME NEW i \in Nodes, Nearest(i), Select(i)
         PROVE  IInv'
    <2>1. /\ selected' = selected \cup {i} /\ current' = i /\ k' = i /\ pc' = pc
          /\ i \notin selected /\ distance'[i] < INFINITE
          /\ \A u \in Nodes \ selected : distance'[i] <= distance'[u]
      <3>1. \A u \in Nodes \ selected : Relaxed[i] <= Relaxed[u]
        <4>1. \A u \in Nodes : Relaxed[u] \in Int
          BY RelaxedBounds
        <4> QED BY <1>11, <4>1 DEF Nearest
      <3> QED BY <1>11, <1>1, <3>1 DEF Nearest, Select
    <2>2. TypeOK'
      BY <2>1, <1>1, <1>2, <1>4, <1>10 DEF TypeOK, IInv
    <2>3. \A s \in selected' : distance'[s] <= distance'[current']
      <3>1. \A s \in selected : distance[s] <= distance[current]
        BY DEF IInv
      <3>2. distance[current] <= distance'[i]
        BY <2>1, <1>7
      <3> QED BY <2>1, <1>2, <1>3, <1>5, <3>1, <3>2
    <2>4. \A u \in Nodes \ selected' : distance'[current'] <= distance'[u]
      BY <2>1
    <2>5. \A s \in selected' \ {current'}, u \in Nodes :
              distance'[u] <= distance'[s] + cost'[s][u]
      BY <2>1, <1>1, <1>8
    <2>6. \A j \in Nodes \ {0} : distance'[j] < INFINITE =>
              /\ preced'[j] \in selected' \ {j}
              /\ distance'[j] = distance'[preced'[j]] + cost'[preced'[j]][j]
      BY <2>1, <1>1, <1>9
    <2>7. \A s \in selected' : distance'[s] < INFINITE
      BY <2>1, <1>5 DEF IInv
    <2>8. /\ 0 \in selected' /\ current' \in selected' /\ distance'[0] = 0
          /\ (k' # MAX => k' = current') /\ (k' = MAX => selected' = {0})
          /\ (pc' = "returned" => selected' = Nodes)
      <3>1. i # MAX
        BY MaxAssumption DEF Nodes
      <3> QED BY <3>1, <2>1, <1>1, <1>2, <1>5
    <2> QED BY <2>2, <2>3, <2>4, <2>5, <2>6, <2>7, <2>8 DEF IInv
  <1>12. ASSUME SelectNone
         PROVE  IInv'
    <2>1. /\ selected' = selected /\ current' = current /\ k' = k
          /\ pc' \in {"running", "overrun"}
      BY <1>12, <1>1 DEF SelectNone, IInv
    <2>2. TypeOK'
      BY <2>1, <1>1, <1>2, <1>4, <1>10 DEF TypeOK, IInv
    <2>3. \A s \in selected' : distance'[s] <= distance'[current'] /\ distance'[s] < INFINITE
      BY <2>1, <1>2, <1>5 DEF IInv
    <2>4. \A u \in Nodes \ selected' : distance'[current'] <= distance'[u]
      BY <2>1, <1>2, <1>5, <1>7
    <2>5. \A s \in selected' \ {current'}, u \in Nodes :
              distance'[u] <= distance'[s] + cost'[s][u]
      BY <2>1, <1>1, <1>8
    <2>6. \A j \in Nodes \ {0} : distance'[j] < INFINITE =>
              /\ preced'[j] \in selected' \ {j}
              /\ distance'[j] = distance'[preced'[j]] + cost'[preced'[j]][j]
      BY <2>1, <1>1, <1>9
    <2>7. /\ 0 \in selected' /\ current' \in selected' /\ distance'[0] = 0
          /\ (k' # MAX => k' = current') /\ (k' = MAX => selected' = {0})
          /\ (pc' = "returned" => selected' = Nodes)
      BY <2>1, <1>2, <1>5 DEF IInv
    <2> QED BY <2>2, <2>3, <2>4, <2>5, <2>6, <2>7 DEF IInv
  <1> QED BY <1>11, <1>12 DEF Pass

\* The invariant holds in every state (routed_LS.c:57-103).
THEOREM Invariance == Spec => []IInv
  <1>1. Init => IInv
    BY InitIInv
  <1>2. IInv /\ [Next]_vars => IInv'
    <2> SUFFICES ASSUME IInv, [Next]_vars
                 PROVE  IInv'
      OBVIOUS
    <2>1. CASE Pass
      BY <2>1, PassIInv
    <2>2. CASE Return
      BY <2>2 DEF Return, IInv, TypeOK
    <2>3. CASE UNCHANGED vars
      BY <2>3 DEF vars, IInv, TypeOK
    <2> QED BY <2>1, <2>2, <2>3 DEF Next
  <1> QED BY <1>1, <1>2, PTL DEF Spec

\* What shortpath returns is a shortest-path tree rooted at router 0: the
\* distances satisfy every link and are attained through preced.
THEOREM CertifiedHolds == Spec => []Certified
  <1>1. IInv => Certified
    <2> SUFFICES ASSUME IInv, pc = "returned"
                 PROVE  Certified
      BY DEF Certified
    <2>1. /\ selected = Nodes /\ current \in Nodes /\ distance[0] = 0
          /\ \A i \in Nodes : distance[i] < INFINITE
      BY DEF IInv
    <2>2. \A i, j \in Nodes : distance[i] \in Nat /\ cost[i][j] \in Nat
      BY DEF IInv, TypeOK, Matrices
    <2>3. \A i, j \in Nodes : distance[j] <= distance[i] + cost[i][j]
      <3> SUFFICES ASSUME NEW i \in Nodes, NEW j \in Nodes
                   PROVE  distance[j] <= distance[i] + cost[i][j]
        OBVIOUS
      <3>1. CASE i = current
        <4>1. distance[j] <= distance[current]
          BY <2>1 DEF IInv
        <4> QED BY <4>1, <3>1, <2>1, <2>2
      <3>2. CASE i # current
        BY <3>2, <2>1 DEF IInv
      <3> QED BY <3>1, <3>2
    <2> QED BY <2>1, <2>3 DEF Certified, IInv
  <1> QED BY <1>1, Invariance, PTL

-----------------------------------------------------------------------------
(* The reference definition *)

\* One more link: the way known before, or one over a router j and its link.
Longer(c, before) ==
    [i \in Nodes |-> Least({before[i]} \cup {before[j] + c[j][i] : j \in Nodes})]

\* The distances by at most n links, as TrueDistance computes them.
Within(w, c) ==
    /\ w \in [Nodes -> [Nodes -> Nat]]
    /\ w[0] = [i \in Nodes |-> IF i = 0 THEN 0 ELSE INFINITE]
    /\ \A n \in Nodes \ {0} : w[n] = Longer(c, w[n - 1])
    /\ TrueDistance(c) = w[MAX - 1]

\* What Least is for.
LEMMA LeastFacts ==
    ASSUME NEW S \in SUBSET Nat, S # {}
    PROVE  Least(S) \in S /\ \A y \in S : Least(S) <= y
<1>1. \E x \in S : \A y \in S : x <= y
  BY LeastNatural
<1> QED
  BY <1>1 DEF Least

\* A way with one more link is no longer than those it is taken from, and is
\* one of them.
LEMMA LongerFacts ==
    ASSUME NEW c \in Matrices, NEW before \in [Nodes -> Nat]
    PROVE  /\ Longer(c, before) \in [Nodes -> Nat]
           /\ \A i \in Nodes : Longer(c, before)[i] <= before[i]
           /\ \A i, j \in Nodes : Longer(c, before)[i] <= before[j] + c[j][i]
           /\ \A i \in Nodes : \/ Longer(c, before)[i] = before[i]
                               \/ \E j \in Nodes : Longer(c, before)[i] = before[j] + c[j][i]
<1>1. ASSUME NEW i \in Nodes
      PROVE  /\ Longer(c, before)[i] \in Nat
             /\ Longer(c, before)[i] <= before[i]
             /\ \A j \in Nodes : Longer(c, before)[i] <= before[j] + c[j][i]
             /\ \/ Longer(c, before)[i] = before[i]
                \/ \E j \in Nodes : Longer(c, before)[i] = before[j] + c[j][i]
  <2> DEFINE S == {before[i]} \cup {before[j] + c[j][i] : j \in Nodes}
  <2>1. \A j \in Nodes : before[j] + c[j][i] \in Nat
    BY DEF Matrices
  <2>2. S \in SUBSET Nat /\ S # {}
    BY <2>1
  <2>3. Longer(c, before)[i] = Least(S)
    BY DEF Longer
  <2>4. before[i] \in S /\ \A j \in Nodes : before[j] + c[j][i] \in S
    OBVIOUS
  <2>5. \A x \in S : x = before[i] \/ \E j \in Nodes : x = before[j] + c[j][i]
    OBVIOUS
  <2> HIDE DEF S
  <2>6. Least(S) \in S /\ \A y \in S : Least(S) <= y
    BY <2>2, LeastFacts
  <2> QED
    BY <2>2, <2>3, <2>4, <2>5, <2>6
<1>2. Longer(c, before) = [i \in Nodes |-> Longer(c, before)[i]]
  BY DEF Longer
<1>3. Longer(c, before) \in [Nodes -> Nat]
  BY <1>1, <1>2
<1> QED
  BY <1>1, <1>3

\* TrueDistance is what its definition says.
LEMMA WithinExists ==
    ASSUME NEW c \in Matrices
    PROVE  \E w : Within(w, c)
<1> DEFINE X == [Nodes -> Nat]
           base == [i \in Nodes |-> IF i = 0 THEN 0 ELSE INFINITE]
           step == [n \in Nat |-> [x \in X |-> Longer(c, x)]]
           Table(w) == w = [n \in Nodes |-> IF n = 0 THEN base ELSE Longer(c, w[n - 1])]
<1>0. MAX \in Nat \ {0} /\ MAX - 1 \in Nat /\ INFINITE \in Nat /\ Nodes = 0..(MAX - 1)
  BY MaxAssumption DEF Nodes
<1>1. base \in X
  BY <1>0
<1>2. \A n \in Nat : \A x \in X : step[n][x] \in X
  BY LongerFacts
<1>3. PICK h : Recursion(h, X, base, step, MAX - 1)
  <2> HIDE DEF X, base, step
  <2> QED
    BY <1>0, <1>1, <1>2, RecursionUpTo, Zenon
<1>4. h \in [Nodes -> X] /\ h[0] = base
  BY <1>0, <1>3 DEF Recursion
<1>5. ASSUME NEW n \in Nodes \ {0} PROVE h[n] = Longer(c, h[n - 1])
  <2> DEFINE m == n - 1
  <2>1. m \in 0..((MAX - 1) - 1) /\ m \in Nat /\ m \in Nodes /\ m + 1 = n
    BY <1>0
  <2> HIDE DEF m, X, base
  <2>2. h[m + 1] = step[m][h[m]] /\ h[m] \in X
    BY <1>3, <1>4, <2>1 DEF Recursion
  <2>3. h[n] = Longer(c, h[m])
    BY <2>1, <2>2
  <2> QED
    BY <2>3 DEF m
<1>6. Table(h)
  <2>1. \A n \in Nodes : h[n] = IF n = 0 THEN base ELSE Longer(c, h[n - 1])
    <3> HIDE DEF base
    <3> QED
      BY <1>4, <1>5
  <2> HIDE DEF base
  <2> QED
    BY <1>4, <2>1
<1> DEFINE w == CHOOSE table : Table(table)
<1>7. Table(w)
  <2> HIDE DEF Table
  <2> QED
    BY <1>6, Zenon
<1>8. TrueDistance(c) = w[MAX - 1]
  BY DEF TrueDistance, Longer
<1> HIDE DEF w
<1>9. 0 \in Nodes /\ DOMAIN w = Nodes /\ w[0] = base
  <2> HIDE DEF base
  <2>1. 0 \in Nodes
    BY <1>0
  <2> QED
    BY <1>7, <2>1
<1>10. \A n \in Nodes \ {0} : w[n] = Longer(c, w[n - 1])
  <2> HIDE DEF base
  <2> QED
    BY <1>7
<1>11. w = h
  <2>1. \A i \in 0..((MAX - 1) - 1) : i + 1 \in Nodes \ {0} /\ (i + 1) - 1 = i
                                     /\ i \in Nat /\ i \in Nodes
    BY <1>0
  <2> DEFINE S == {n \in Nat : n <= MAX - 1 => w[n] = h[n]}
  <2>2. 0 \in S
    BY <1>4, <1>9
  <2>3. ASSUME NEW n \in Nat, n \in S PROVE n + 1 \in S
    <3> SUFFICES ASSUME n + 1 <= MAX - 1 PROVE w[n + 1] = h[n + 1]
      OBVIOUS
    <3>1. n + 1 \in Nodes \ {0} /\ (n + 1) - 1 = n /\ w[n] = h[n]
      BY <1>0, <2>3
    <3> QED
      BY <1>5, <1>10, <3>1
  <2>4. \A n \in Nodes : w[n] = h[n]
    <3> HIDE DEF S
    <3>1. Nat \subseteq S
      BY <2>2, <2>3, NaturalInduction
    <3> QED
      BY <1>0, <3>1 DEF S
  <2>5. w = [n \in Nodes |-> w[n]]
    <3> HIDE DEF base
    <3> QED
      BY <1>7
  <2> QED
    BY <1>4, <2>4, <2>5
<1>12. Within(w, c)
  BY <1>4, <1>8, <1>9, <1>10, <1>11 DEF Within
<1> QED
  BY <1>12

\* A distance that no link makes shorter is no greater than the reference.
LEMMA NoShorterIsLeast ==
    ASSUME NEW c \in Matrices, NEW d \in [Nodes -> 0..INFINITE], d[0] = 0,
           \A i, j \in Nodes : d[j] <= d[i] + c[i][j]
    PROVE  \A i \in Nodes : d[i] <= TrueDistance(c)[i]
<1>1. PICK w : Within(w, c)
  BY WithinExists
<1>0. MAX \in Nat \ {0} /\ MAX - 1 \in Nat /\ INFINITE \in Nat /\ Nodes = 0..(MAX - 1)
  BY MaxAssumption DEF Nodes
<1> DEFINE S == {n \in Nat : n <= MAX - 1 => \A i \in Nodes : d[i] <= w[n][i]}
<1>2. 0 \in S
  BY <1>0, <1>1 DEF Within
<1>3. ASSUME NEW n \in Nat, n \in S PROVE n + 1 \in S
  <2> SUFFICES ASSUME n + 1 <= MAX - 1, NEW i \in Nodes PROVE d[i] <= w[n + 1][i]
    OBVIOUS
  <2>1. n + 1 \in Nodes \ {0} /\ (n + 1) - 1 = n /\ n \in Nodes
    BY <1>0
  <2>2. \A j \in Nodes : d[j] <= w[n][j] /\ w[n][j] \in Nat /\ c[j][i] \in Nat /\ d[j] \in Nat
    <3>1. \A j \in Nodes : d[j] <= w[n][j]
      BY <1>3, <1>0, <2>1
    <3>2. w[n] \in [Nodes -> Nat]
      BY <1>1, <2>1 DEF Within
    <3>3. \A j \in Nodes : c[j][i] \in Nat
      BY DEF Matrices
    <3>4. \A j \in Nodes : d[j] \in Nat
      BY <1>0
    <3> QED
      BY <3>1, <3>2, <3>3, <3>4
  <2>3. w[n + 1] = Longer(c, w[n]) /\ w[n] \in [Nodes -> Nat]
    BY <1>1, <2>1 DEF Within
  <2>4. CASE w[n + 1][i] = w[n][i]
    BY <2>2, <2>4
  <2>5. CASE \E j \in Nodes : w[n + 1][i] = w[n][j] + c[j][i]
    <3>1. PICK j \in Nodes : w[n + 1][i] = w[n][j] + c[j][i]
      BY <2>5
    <3>2. d[i] <= d[j] + c[j][i]
      OBVIOUS
    <3> QED
      BY <2>2, <3>1, <3>2
  <2> QED
    BY <2>3, <2>4, <2>5, LongerFacts
<1>4. MAX - 1 \in S
  <2> HIDE DEF S
  <2> QED
    BY <1>0, <1>2, <1>3, NaturalInduction
<1> QED
  BY <1>1, <1>4 DEF Within

-----------------------------------------------------------------------------
(* What is returned, and what the computation comes to *)

\* A table of the reference distances (Within has only one).
Walks(c) == CHOOSE w : Within(w, c)

\* A distance is no smaller than that of the ways with fewer links than
\* there are selected routers.
NotTooNear ==
    \A i \in Nodes : Walks(cost)[Cardinality(selected) - 1][i] <= distance[i]

\* The arrays are overrun only when router 0 has no link.
NoLink ==
    pc = "overrun" =>
        /\ selected = {0} /\ selected # Nodes
        /\ \A i \in Nodes \ {0} : INFINITE <= cost[0][i]

OutcomeInv == IInv /\ NotTooNear /\ NoLink

LEMMA WalksWithin ==
    ASSUME NEW c \in Matrices
    PROVE  Within(Walks(c), c)
BY WithinExists, Zenon DEF Walks

\* The numbers of the selected routers.
LEMMA SelectedNumber ==
    ASSUME NEW S \in SUBSET Nodes, 0 \in S
    PROVE  /\ IsFiniteSet(S) /\ Cardinality(S) - 1 \in Nodes
           /\ S # Nodes => Cardinality(S) \in Nodes \ {0}
           /\ S = Nodes => Cardinality(S) = MAX
<1>1. MAX \in Nat \ {0} /\ Nodes = 0..(MAX - 1)
  BY MaxAssumption DEF Nodes
<1>2. IsFiniteSet(Nodes) /\ Cardinality(Nodes) = MAX
  <2>1. 0 \in Int /\ MAX - 1 \in Int
    BY <1>1
  <2>2. IsFiniteSet(0..(MAX - 1))
        /\ Cardinality(0..(MAX - 1)) = IF 0 > MAX - 1 THEN 0 ELSE (MAX - 1) - 0 + 1
    BY <2>1, FS_Interval
  <2> QED
    BY <1>1, <2>2
<1>3. IsFiniteSet(S) /\ Cardinality(S) <= MAX /\ (Cardinality(S) = MAX => S = Nodes)
  BY <1>2, FS_Subset
<1>4. Cardinality(S) \in Nat /\ Cardinality(S) # 0
  BY <1>3, FS_CardinalityType, FS_EmptySet
<1> QED
  BY <1>1, <1>2, <1>3, <1>4

\* When a router that is not selected is near enough, there is a nearest one.
LEMMA NearestExists ==
    ASSUME IInv, NEW u \in Nodes \ selected, Relaxed[u] < INFINITE
    PROVE  \E i \in Nodes : Nearest(i)
<1>0. Relaxed \in [Nodes -> 0..INFINITE] /\ Nodes \subseteq Nat /\ INFINITE \in Nat
  BY RelaxedBounds, MaxAssumption DEF Nodes
<1> DEFINE T == {n \in Nat : \E j \in Nodes \ selected : Relaxed[j] = n}
<1>1. Relaxed[u] \in T
  BY <1>0
<1>2. PICK m \in T : \A n \in T : m <= n
  <2> HIDE DEF T
  <2>1. T \in SUBSET Nat
    BY DEF T
  <2> QED
    BY <1>1, <2>1, LeastNatural
<1> DEFINE First == {j \in Nodes \ selected : Relaxed[j] = m}
<1>3. PICK i \in First : \A j \in First : i <= j
  <2>1. First \in SUBSET Nat /\ First # {}
    BY <1>0, <1>2
  <2> HIDE DEF First
  <2> QED
    BY <2>1, LeastNatural
<1>4. \A j \in Nodes \ selected : Relaxed[j] \in T /\ Relaxed[j] \in Nat
  BY <1>0
<1>5. i \in Nodes \ selected /\ Relaxed[i] = m /\ m <= Relaxed[u]
  BY <1>1, <1>2, <1>3
<1>6. Nearest(i)
  <2>1. Relaxed[i] < INFINITE
    BY <1>0, <1>5
  <2>2. ASSUME NEW j \in Nodes \ selected
        PROVE  Relaxed[i] < Relaxed[j] \/ (Relaxed[i] = Relaxed[j] /\ i <= j)
    BY <1>0, <1>2, <1>3, <1>4, <1>5
  <2> QED
    BY <1>5, <2>1, <2>2 DEF Nearest
<1> QED
  BY <1>5, <1>6

\* A pass extends the ways by at most one link.
LEMMA PassOutcome ==
    ASSUME OutcomeInv, Pass
    PROVE  NotTooNear' /\ NoLink'
<1> DEFINE w == Walks(cost)
           n == Cardinality(selected)
<1>0. /\ cost' = cost /\ distance' = Relaxed /\ pc = "running" /\ selected # Nodes
      /\ cost \in Matrices /\ selected \in SUBSET Nodes /\ 0 \in selected /\ current \in Nodes
      /\ INFINITE \in Nat
  BY MaxAssumption DEF Pass, Relax, OutcomeInv, IInv, TypeOK
<1>1. Within(w, cost)
  BY <1>0, WalksWithin
<1>2. IsFiniteSet(selected) /\ n \in Nodes \ {0} /\ n - 1 \in Nodes
  BY <1>0, SelectedNumber
<1>3. w[n] = Longer(cost, w[n - 1]) /\ w[n - 1] \in [Nodes -> Nat] /\ w[n] \in [Nodes -> Nat]
  BY <1>1, <1>2 DEF Within
<1> HIDE DEF w, n
<1>4. ASSUME NEW i \in Nodes
      PROVE  /\ w[n][i] <= w[n - 1][i] /\ w[n][i] <= w[n - 1][current] + cost[current][i]
             /\ w[n - 1][i] <= distance[i] /\ w[n - 1][current] <= distance[current]
  BY <1>0, <1>3, LongerFacts DEF OutcomeInv, NotTooNear, w, n
<1>5. ASSUME NEW i \in Nodes PROVE w[n][i] <= Relaxed[i]
  <2>1. /\ distance[i] \in Nat /\ distance[current] \in Nat /\ cost[current][i] \in Nat
        /\ w[n][i] \in Nat /\ w[n - 1][i] \in Nat /\ w[n - 1][current] \in Nat
    BY <1>0, <1>3 DEF OutcomeInv, IInv, TypeOK, Matrices
  <2>2. Relaxed[i] = distance[i] \/ Relaxed[i] = distance[current] + cost[current][i]
    BY DEF Relaxed
  <2> QED
    BY <1>4, <2>1, <2>2
<1>6. CASE \E i \in Nodes : Nearest(i) /\ Select(i)
  <2>1. PICK i \in Nodes : Nearest(i) /\ Select(i)
    BY <1>6
  <2>2. selected' = selected \cup {i} /\ i \notin selected /\ pc' = pc
    BY <2>1 DEF Nearest, Select
  <2>3. Cardinality(selected') = n + 1
    BY <1>2, <2>2, FS_AddElement DEF n
  <2>4. Cardinality(selected') - 1 = n
    BY <1>2, <2>3 DEF Nodes
  <2> QED
    BY <1>0, <1>5, <2>2, <2>4 DEF NotTooNear, NoLink, w
<1>7. CASE (\A i \in Nodes : ~Nearest(i)) /\ SelectNone
  <2>1. ASSUME NEW u \in Nodes \ selected PROVE INFINITE <= Relaxed[u]
    <3>1. ~(Relaxed[u] < INFINITE)
      BY <1>7, NearestExists DEF OutcomeInv
    <3>2. Relaxed[u] \in 0..INFINITE
      BY RelaxedBounds DEF OutcomeInv
    <3> QED
      BY <1>0, <3>1, <3>2
  <2>2. \A u \in Nodes : Relaxed[u] = distance[u]
    <3>1. ASSUME NEW u \in Nodes \ selected PROVE ~Shorter(u)
      <4>1. Relaxed[u] <= distance[u] /\ distance[u] \in 0..INFINITE
        BY RelaxedBounds DEF OutcomeInv, IInv, TypeOK
      <4>2. Shorter(u) => Relaxed[u] < distance[u]
        BY DEF Relaxed, Shorter
      <4>3. Relaxed[u] \in 0..INFINITE
        BY RelaxedBounds DEF OutcomeInv
      <4> QED
        BY <1>0, <2>1, <4>1, <4>2, <4>3
    <3> QED
      BY <3>1 DEF Relaxed, Shorter
  <2>3. selected' = selected /\ (pc' = "overrun" => k = MAX)
    BY <1>0, <1>7 DEF SelectNone
  <2>4. NotTooNear'
    BY <1>0, <2>2, <2>3 DEF OutcomeInv, NotTooNear
  <2>5. NoLink'
    <3> SUFFICES ASSUME pc' = "overrun"
                 PROVE  /\ selected = {0} /\ selected # Nodes
                        /\ \A i \in Nodes \ {0} : INFINITE <= cost[0][i]
      BY <1>0, <2>3 DEF NoLink
    <3>1. selected = {0} /\ current = 0 /\ distance[0] = 0
      BY <2>3 DEF OutcomeInv, IInv
    <3>2. ASSUME NEW i \in Nodes \ {0} PROVE INFINITE <= cost[0][i]
      <4>1. INFINITE <= Relaxed[i] /\ Relaxed[i] <= distance[current] + cost[current][i]
        BY <2>1, <3>1, RelaxedBounds DEF OutcomeInv
      <4>2. cost[0][i] \in Nat /\ Relaxed[i] \in 0..INFINITE
        BY <1>0, <3>1, RelaxedBounds DEF Matrices, OutcomeInv
      <4> QED
        BY <1>0, <3>1, <4>1, <4>2
    <3> QED
      BY <1>0, <3>1, <3>2
  <2> QED
    BY <2>4, <2>5
<1> QED
  BY <1>6, <1>7 DEF Pass

LEMMA InitOutcome == Init => OutcomeInv
<1> SUFFICES ASSUME Init PROVE OutcomeInv
  OBVIOUS
<1>1. IInv /\ cost \in Matrices /\ selected = {0} /\ pc = "running"
  BY InitIInv DEF IInv, TypeOK, Init
<1>2. Cardinality(selected) - 1 = 0
  <2>1. Cardinality({0}) = 1
    BY FS_Singleton, Zenon
  <2> QED
    BY <1>1, <2>1
<1>3. Walks(cost)[0] = distance
  BY <1>1, WalksWithin DEF Within, Init
<1>4. NotTooNear
  BY <1>1, <1>2, <1>3, MaxAssumption DEF NotTooNear, IInv, TypeOK
<1> QED
  BY <1>1, <1>4 DEF OutcomeInv, NoLink

LEMMA OutcomeInvariance == Spec => []OutcomeInv
<1>1. OutcomeInv /\ IInv' /\ [Next]_vars => OutcomeInv'
  <2> SUFFICES ASSUME OutcomeInv, IInv', [Next]_vars PROVE NotTooNear' /\ NoLink'
    BY DEF OutcomeInv
  <2>1. CASE Pass
    BY <2>1, PassOutcome
  <2>2. CASE Return \/ UNCHANGED vars
    BY <2>2 DEF Return, vars, OutcomeInv, NotTooNear, NoLink
  <2> QED
    BY <2>1, <2>2 DEF Next
<1> QED
  BY <1>1, InitOutcome, Invariance, PTL DEF Spec

\* What shortpath returns are the reference distances.
LEMMA ReturnedDistance ==
    ASSUME OutcomeInv, Certified, pc = "returned"
    PROVE  distance = TrueDistance(cost) /\ \A i \in Nodes : distance[i] < INFINITE
<1>0. /\ cost \in Matrices /\ selected = Nodes /\ distance \in [Nodes -> 0..INFINITE]
      /\ INFINITE \in Nat /\ 0 \in Nodes /\ MAX - 1 \in Nodes
  <2>1. INFINITE \in Nat /\ 0 \in Nodes /\ MAX - 1 \in Nodes
    BY MaxAssumption DEF Nodes
  <2> QED
    BY <2>1 DEF OutcomeInv, IInv, TypeOK
<1>1. \A i \in Nodes : distance[i] <= TrueDistance(cost)[i]
  BY <1>0, NoShorterIsLeast DEF Certified
<1>2. Within(Walks(cost), cost)
  BY <1>0, WalksWithin
<1>3. Cardinality(selected) - 1 = MAX - 1
  BY <1>0, SelectedNumber
<1>4. TrueDistance(cost) = Walks(cost)[MAX - 1] /\ TrueDistance(cost) \in [Nodes -> Nat]
  BY <1>0, <1>2 DEF Within
<1>5. \A i \in Nodes : TrueDistance(cost)[i] <= distance[i]
  BY <1>3, <1>4 DEF OutcomeInv, NotTooNear
<1>6. \A i \in Nodes : TrueDistance(cost)[i] = distance[i]
  BY <1>0, <1>1, <1>4, <1>5
<1>7. \A i \in Nodes : distance[i] < INFINITE
  BY <1>0 DEF OutcomeInv, IInv
<1> QED
  BY <1>0, <1>4, <1>6, <1>7

\* shortpath returns the distances of the reference definition, for any number
\* of routers and any table (routed_LS.c:79-102).
THEOREM ReturnedIsShortestHolds == Spec => []ReturnedIsShortest
<1>1. OutcomeInv /\ Certified => ReturnedIsShortest
  BY ReturnedDistance DEF ReturnedIsShortest
<1> QED
  BY <1>1, OutcomeInvariance, CertifiedHolds, PTL

\* It returns only when every router can be reached, and it indexes past its
\* arrays only when router 0 has no link (routed_LS.c:93-101).
THEOREM OutcomeSoundHolds == Spec => []OutcomeSound
<1>1. OutcomeInv /\ Certified => OutcomeSound
  <2> SUFFICES ASSUME OutcomeInv, Certified, pc # "running" PROVE pc = Outcome(cost)
    BY DEF OutcomeSound
  <2>1. CASE pc = "returned"
    <3>1. distance = TrueDistance(cost) /\ \A i \in Nodes : distance[i] < INFINITE
      BY <2>1, ReturnedDistance
    <3> QED
      BY <2>1, <3>1 DEF Outcome
  <2>2. CASE pc = "overrun"
    <3>0. cost \in Matrices /\ INFINITE \in Nat \ {0} /\ 0 \in Nodes
      BY MaxAssumption DEF OutcomeInv, IInv, TypeOK, Nodes
    <3>1. /\ \E i \in Nodes : i # 0
          /\ \A i \in Nodes \ {0} : INFINITE <= cost[0][i]
      BY <2>2, <3>0 DEF OutcomeInv, NoLink
    <3> DEFINE far == [i \in Nodes |-> IF i = 0 THEN 0 ELSE INFINITE]
    <3>2. far \in [Nodes -> 0..INFINITE] /\ far[0] = 0 /\ \A i \in Nodes \ {0} : far[i] = INFINITE
      BY <3>0
    <3>3. \A i, j \in Nodes : far[j] <= far[i] + cost[i][j]
      <4> SUFFICES ASSUME NEW i \in Nodes, NEW j \in Nodes PROVE far[j] <= far[i] + cost[i][j]
        OBVIOUS
      <4> HIDE DEF far
      <4>1. cost[i][j] \in Nat
        BY <3>0 DEF Matrices
      <4> QED
        BY <3>0, <3>1, <3>2, <4>1
    <3> HIDE DEF far
    <3>4. \A i \in Nodes : far[i] <= TrueDistance(cost)[i]
      BY <3>0, <3>2, <3>3, NoShorterIsLeast
    <3>5. PICK i \in Nodes : i # 0
      BY <3>1
    <3>6. TrueDistance(cost)[i] \in Nat
      <4>1. MAX - 1 \in Nodes
        BY MaxAssumption DEF Nodes
      <4>2. Within(Walks(cost), cost)
        BY <3>0, WalksWithin
      <4> QED
        BY <4>1, <4>2 DEF Within
    <3>7. ~(TrueDistance(cost)[i] < INFINITE)
      BY <3>0, <3>2, <3>4, <3>5, <3>6
    <3>8. ~\E j \in Nodes \ {0} : cost[0][j] < INFINITE
      <4>1. \A j \in Nodes : cost[0][j] \in Nat
        BY <3>0 DEF Matrices
      <4> QED
        BY <3>0, <3>1, <4>1
    <3> QED
      BY <2>2, <3>7, <3>8 DEF Outcome
  <2> QED
    BY <2>1, <2>2 DEF OutcomeInv, IInv, TypeOK
<1> QED
  BY <1>1, OutcomeInvariance, CertifiedHolds, PTL
=============================================================================
