-------------------------- MODULE PeerFiles_proofs --------------------------
(***************************************************************************)
(* What holds of the peer file system of netSys/pa4 whatever clients there *)
(* are, whatever they share, and whatever is read as one.                  *)
(***************************************************************************)
EXTENDS PeerFiles, SequenceLemmas, FiniteSetTheorems

-----------------------------------------------------------------------------
(* Only *)

\* The steps of the loop that fills temp.
OnlySteps(f, rows, set) ==
    /\ f[0] = <<>>
    /\ \A i \in 1..Len(rows) :
           f[i] = IF rows[i] \in set THEN Append(f[i - 1], rows[i]) ELSE f[i - 1]
    /\ Only(rows, set) = f[Len(rows)]

\* The loop keeps a row or passes over it.
LEMMA OnlyRecursion ==
    ASSUME NEW T, NEW rows \in Seq(T), NEW set
    PROVE  \E f : OnlySteps(f, rows, set)
<1> DEFINE N == Len(rows)
           X == Seq(T)
           base == <<>>
           step == [i \in Nat |-> [x \in X |->
                       IF i + 1 \in 1..N /\ rows[i + 1] \in set THEN Append(x, rows[i + 1]) ELSE x]]
           Temp(f) == f = [i \in 0..N |->
                         IF i = 0 THEN <<>>
                         ELSE IF rows[i] \in set THEN Append(f[i - 1], rows[i]) ELSE f[i - 1]]
<1>1. N \in Nat /\ base \in X /\ \A i \in 1..N : rows[i] \in T
  OBVIOUS
<1>2. \A i \in Nat : \A x \in X : step[i][x] \in X
  <2> SUFFICES ASSUME NEW i \in Nat, NEW x \in X PROVE step[i][x] \in X
    OBVIOUS
  <2>1. CASE i + 1 \in 1..N
    BY <1>1, <2>1
  <2>2. CASE i + 1 \notin 1..N
    BY <2>2
  <2> QED
    BY <2>1, <2>2
<1> HIDE DEF N, X, base, step
<1>3. PICK h : Recursion(h, X, base, step, N)
  BY <1>1, <1>2, RecursionUpTo, Zenon
<1>4. h \in [0..N -> X] /\ h[0] = <<>>
  BY <1>3 DEF Recursion, base
<1>5. ASSUME NEW i \in 1..N
      PROVE  h[i] = IF rows[i] \in set THEN Append(h[i - 1], rows[i]) ELSE h[i - 1]
  <2> DEFINE j == i - 1
  <2>1. j \in 0..(N - 1) /\ j \in Nat /\ j \in 0..N /\ j + 1 = i
    BY <1>1
  <2> HIDE DEF j
  <2>2. h[j + 1] = step[j][h[j]] /\ h[j] \in X
    BY <1>3, <1>4, <2>1 DEF Recursion
  <2>3. h[i] = IF rows[i] \in set THEN Append(h[j], rows[i]) ELSE h[j]
    BY <2>1, <2>2 DEF step
  <2> QED
    BY <2>3 DEF j
<1>6. Temp(h)
  <2>1. \A i \in 0..N : h[i] = IF i = 0 THEN <<>>
                         ELSE IF rows[i] \in set THEN Append(h[i - 1], rows[i]) ELSE h[i - 1]
    <3> SUFFICES ASSUME NEW i \in 0..N, i # 0
                 PROVE  h[i] = IF rows[i] \in set THEN Append(h[i - 1], rows[i]) ELSE h[i - 1]
      BY <1>4
    <3>1. i \in 1..N
      BY <1>1
    <3> QED
      BY <1>5, <3>1
  <2> QED
    BY <1>4, <2>1
<1> DEFINE f == CHOOSE temp : Temp(temp)
<1>7. Temp(f)
  <2> HIDE DEF Temp
  <2> QED
    BY <1>6, Zenon
<1>8. Only(rows, set) = f[N]
  BY DEF Only, N
<1> HIDE DEF f
<1>9. f[0] = <<>>
  BY <1>1, <1>7
<1>10. \A i \in 1..N : f[i] = IF rows[i] \in set THEN Append(f[i - 1], rows[i]) ELSE f[i - 1]
  <2>1. \A i \in 1..N : i \in 0..N /\ i # 0
    BY <1>1
  <2> QED
    BY <1>7, <2>1
<1>11. OnlySteps(f, rows, set)
  BY <1>8, <1>9, <1>10 DEF OnlySteps, N
<1> QED
  BY <1>11

\* Nothing of no rows is kept.
LEMMA OnlyEmpty ==
    ASSUME NEW set
    PROVE  Only(<<>>, set) = <<>>
<1>1. PICK f : OnlySteps(f, <<>>, set)
  <2>1. <<>> \in Seq({})
    OBVIOUS
  <2> QED
    BY <2>1, OnlyRecursion
<1> QED
  BY <1>1 DEF OnlySteps

\* The last row is kept behind what is kept of the others.
LEMMA OnlyAppend ==
    ASSUME NEW T, NEW rows \in Seq(T), NEW e \in T, NEW set
    PROVE  Only(Append(rows, e), set) =
               IF e \in set THEN Append(Only(rows, set), e) ELSE Only(rows, set)
<1> DEFINE more == Append(rows, e)
           N == Len(rows)
<1>1. /\ more \in Seq(T) /\ Len(more) = N + 1 /\ N \in Nat /\ more[N + 1] = e
      /\ \A i \in 1..N : more[i] = rows[i]
  OBVIOUS
<1> HIDE DEF more
<1>2. PICK f : OnlySteps(f, rows, set)
  BY OnlyRecursion
<1>3. PICK g : OnlySteps(g, more, set)
  BY <1>1, OnlyRecursion
<1> DEFINE S == {n \in Nat : n <= N => f[n] = g[n]}
<1> HIDE DEF N
<1>4. 0 \in S
  BY <1>2, <1>3 DEF OnlySteps
<1>5. ASSUME NEW n \in Nat, n \in S PROVE n + 1 \in S
  <2> SUFFICES ASSUME n + 1 <= N PROVE f[n + 1] = g[n + 1]
    OBVIOUS
  <2> DEFINE k == n + 1
  <2>1. k \in 1..N /\ k \in 1..Len(more) /\ k - 1 = n /\ n <= N
    BY <1>1
  <2> HIDE DEF k
  <2>2. f[k] = IF rows[k] \in set THEN Append(f[n], rows[k]) ELSE f[n]
    BY <1>2, <2>1 DEF OnlySteps, N
  <2>3. g[k] = IF more[k] \in set THEN Append(g[n], more[k]) ELSE g[n]
    BY <1>3, <2>1 DEF OnlySteps
  <2>4. f[n] = g[n] /\ more[k] = rows[k]
    BY <1>1, <1>5, <2>1
  <2> QED
    BY <2>2, <2>3, <2>4 DEF k
<1>6. f[N] = g[N]
  <2>1. Nat \subseteq S
    <3> HIDE DEF S
    <3> QED
      BY <1>4, <1>5, NaturalInduction
  <2> QED
    BY <1>1, <2>1
<1>7. g[N + 1] = IF more[N + 1] \in set THEN Append(g[N], more[N + 1]) ELSE g[N]
  <2>1. N + 1 \in 1..Len(more) /\ (N + 1) - 1 = N
    BY <1>1
  <2> QED
    BY <1>3, <2>1 DEF OnlySteps
<1>8. Only(rows, set) = f[N] /\ Only(more, set) = g[N + 1]
  BY <1>1, <1>2, <1>3 DEF OnlySteps, N
<1>9. Only(more, set) = IF e \in set THEN Append(Only(rows, set), e) ELSE Only(rows, set)
  BY <1>1, <1>6, <1>7, <1>8
<1> QED
  BY <1>9 DEF more

\* What is kept has the type of the rows.
LEMMA OnlyType ==
    ASSUME NEW T, NEW rows \in Seq(T), NEW set
    PROVE  Only(rows, set) \in Seq(T)
<1> DEFINE S == {s \in Seq(T) : Only(s, set) \in Seq(T)}
<1>1. <<>> \in S
  <2>1. Only(<<>>, set) = <<>> /\ <<>> \in Seq(T)
    BY OnlyEmpty
  <2>2. Only(<<>>, set) \in Seq(T)
    BY <2>1, Zenon
  <2> QED
    BY <2>1, <2>2, Zenon
<1>2. ASSUME NEW s \in Seq(T), NEW e \in T, s \in S PROVE Append(s, e) \in S
  <2>1. Only(Append(s, e), set) = IF e \in set THEN Append(Only(s, set), e) ELSE Only(s, set)
    BY OnlyAppend
  <2> QED
    BY <1>2, <2>1
<1>3. Seq(T) \subseteq S
  <2> HIDE DEF S
  <2> QED
    BY <1>1, <1>2, SequenceInduction, Zenon
<1> QED
  BY <1>3

\* What is kept of two lists is what is kept of each.
LEMMA OnlyConcat ==
    ASSUME NEW T, NEW rows \in Seq(T), NEW more \in Seq(T), NEW set
    PROVE  Only(rows \o more, set) = Only(rows, set) \o Only(more, set)
<1> DEFINE Both(s) == Only(rows \o s, set) = Only(rows, set) \o Only(s, set)
           S == {s \in Seq(T) : Both(s)}
<1>0. Only(rows, set) \in Seq(T)
  BY OnlyType
<1>1. <<>> \in S
  <2>1. rows \o <<>> = rows /\ Only(rows, set) \o <<>> = Only(rows, set)
    BY <1>0
  <2>2. Both(<<>>)
    BY <2>1, OnlyEmpty
  <2> QED
    BY <2>2
<1>2. ASSUME NEW s \in Seq(T), NEW e \in T, s \in S PROVE Append(s, e) \in S
  <2>1. rows \o Append(s, e) = Append(rows \o s, e) /\ rows \o s \in Seq(T)
    OBVIOUS
  <2>2. Only(s, set) \in Seq(T)
    BY OnlyType
  <2>3. Only(rows, set) \o Append(Only(s, set), e) = Append(Only(rows, set) \o Only(s, set), e)
    BY <1>0, <2>2
  <2>4. Only(Append(rows \o s, e), set) =
            IF e \in set THEN Append(Only(rows \o s, set), e) ELSE Only(rows \o s, set)
    BY <2>1, OnlyAppend
  <2>5. Only(Append(s, e), set) = IF e \in set THEN Append(Only(s, set), e) ELSE Only(s, set)
    BY OnlyAppend
  <2>6. Only(rows \o s, set) = Only(rows, set) \o Only(s, set)
    BY <1>2
  <2>7. Both(Append(s, e))
    BY <2>1, <2>3, <2>4, <2>5, <2>6
  <2> QED
    BY <2>7
<1>3. Seq(T) \subseteq S
  <2> HIDE DEF S
  <2> QED
    BY <1>1, <1>2, SequenceInduction, Zenon
<1> QED
  BY <1>3

\* What counts of the set is which rows are in it.
LEMMA OnlySame ==
    ASSUME NEW T, NEW rows \in Seq(T), NEW set, NEW same,
           \A i \in DOMAIN rows : rows[i] \in set <=> rows[i] \in same
    PROVE  Only(rows, set) = Only(rows, same)
<1> DEFINE Agree(s) == (\A i \in DOMAIN s : s[i] \in set <=> s[i] \in same) =>
                           Only(s, set) = Only(s, same)
           S == {s \in Seq(T) : Agree(s)}
<1>1. <<>> \in S
  BY OnlyEmpty
<1>2. ASSUME NEW s \in Seq(T), NEW e \in T, s \in S PROVE Append(s, e) \in S
  <2> DEFINE more == Append(s, e)
  <2>1. more \in Seq(T) /\ \A i \in DOMAIN s : i \in DOMAIN more /\ more[i] = s[i]
    OBVIOUS
  <2>2. Len(more) \in DOMAIN more /\ more[Len(more)] = e
    OBVIOUS
  <2>3. Only(more, set) = IF e \in set THEN Append(Only(s, set), e) ELSE Only(s, set)
    BY OnlyAppend
  <2>4. Only(more, same) = IF e \in same THEN Append(Only(s, same), e) ELSE Only(s, same)
    BY OnlyAppend
  <2> HIDE DEF more
  <2>5. Agree(more)
    <3> SUFFICES ASSUME \A i \in DOMAIN more : more[i] \in set <=> more[i] \in same
                 PROVE  Only(more, set) = Only(more, same)
      OBVIOUS
    <3>1. e \in set <=> e \in same
      BY <2>2
    <3>2. Only(s, set) = Only(s, same)
      BY <1>2, <2>1
    <3> QED
      BY <2>3, <2>4, <3>1, <3>2
  <2> QED
    BY <2>1, <2>5 DEF more
<1>3. Seq(T) \subseteq S
  <2> HIDE DEF S
  <2> QED
    BY <1>1, <1>2, SequenceInduction, Zenon
<1> QED
  BY <1>3

\* All rows are kept, or none.
LEMMA OnlyAll ==
    ASSUME NEW T, NEW rows \in Seq(T), NEW set, \A i \in DOMAIN rows : rows[i] \in set
    PROVE  Only(rows, set) = rows
<1> DEFINE S == {s \in Seq(T) : Only(s, T) = s}
<1>1. <<>> \in S
  BY OnlyEmpty
<1>2. \A s \in Seq(T) : \A e \in T : s \in S => Append(s, e) \in S
  BY OnlyAppend
<1>3. Seq(T) \subseteq S
  <2> HIDE DEF S
  <2> QED
    BY <1>1, <1>2, SequenceInduction, Zenon
<1>4. Only(rows, set) = Only(rows, T)
  BY OnlySame
<1> QED
  BY <1>3, <1>4

LEMMA OnlyNone ==
    ASSUME NEW T, NEW rows \in Seq(T), NEW set, \A i \in DOMAIN rows : rows[i] \notin set
    PROVE  Only(rows, set) = <<>>
<1> DEFINE S == {s \in Seq(T) : Only(s, {}) = <<>>}
<1>1. <<>> \in S
  BY OnlyEmpty
<1>2. \A s \in Seq(T) : \A e \in T : s \in S => Append(s, e) \in S
  BY OnlyAppend
<1>3. Seq(T) \subseteq S
  <2> HIDE DEF S
  <2> QED
    BY <1>1, <1>2, SequenceInduction, Zenon
<1>4. Only(rows, set) = Only(rows, {})
  BY OnlySame
<1> QED
  BY <1>3, <1>4

\* The rows of set that are kept by one selection are kept by the next.
LEMMA OnlyTwice ==
    ASSUME NEW T, NEW rows \in Seq(T), NEW first, NEW second
    PROVE  Only(Only(rows, first), second) = Only(rows, first \cap second)
<1> DEFINE Both(s) == Only(Only(s, first), second) = Only(s, first \cap second)
           S == {s \in Seq(T) : Both(s)}
<1>1. <<>> \in S
  BY OnlyEmpty
<1>2. ASSUME NEW s \in Seq(T), NEW e \in T, s \in S PROVE Append(s, e) \in S
  <2>1. Only(s, first) \in Seq(T)
    BY OnlyType
  <2>2. Only(Append(s, e), first) = IF e \in first THEN Append(Only(s, first), e) ELSE Only(s, first)
    BY OnlyAppend
  <2>3. Only(Append(s, e), first \cap second) =
            IF e \in first \cap second THEN Append(Only(s, first \cap second), e)
            ELSE Only(s, first \cap second)
    BY OnlyAppend
  <2>4. Only(Append(Only(s, first), e), second) =
            IF e \in second THEN Append(Only(Only(s, first), second), e)
            ELSE Only(Only(s, first), second)
    BY <2>1, OnlyAppend
  <2>5. Only(Only(s, first), second) = Only(s, first \cap second)
    BY <1>2
  <2>6. Both(Append(s, e))
    <3>1. CASE e \in first
      <4>1. e \in first \cap second <=> e \in second
        BY <3>1
      <4> HIDE DEF Both
      <4>2. CASE e \in second
        BY <2>2, <2>3, <2>4, <2>5, <3>1, <4>1, <4>2 DEF Both
      <4>3. CASE e \notin second
        BY <2>2, <2>3, <2>4, <2>5, <3>1, <4>1, <4>3 DEF Both
      <4> QED
        BY <4>2, <4>3
    <3>2. CASE e \notin first
      BY <2>2, <2>3, <2>5, <3>2, Zenon
    <3> QED
      BY <3>1, <3>2
  <2> QED
    BY <2>6
<1>3. Seq(T) \subseteq S
  <2> HIDE DEF S
  <2> QED
    BY <1>1, <1>2, SequenceInduction, Zenon
<1> QED
  BY <1>3

\* What is kept are the rows that are in the set.
LEMMA OnlyElements ==
    ASSUME NEW T, NEW rows \in Seq(T), NEW set
    PROVE  /\ \A i \in DOMAIN Only(rows, set) :
                 \E j \in DOMAIN rows : Only(rows, set)[i] = rows[j] /\ rows[j] \in set
           /\ \A j \in DOMAIN rows :
                 rows[j] \in set => \E i \in DOMAIN Only(rows, set) : Only(rows, set)[i] = rows[j]
<1> DEFINE Kept(s, k) ==
               /\ \A i \in DOMAIN k : \E j \in DOMAIN s : k[i] = s[j] /\ s[j] \in set
               /\ \A j \in DOMAIN s : s[j] \in set => \E i \in DOMAIN k : k[i] = s[j]
           S == {s \in Seq(T) : Kept(s, Only(s, set))}
<1>1. <<>> \in S
  BY OnlyEmpty
<1>2. ASSUME NEW s \in Seq(T), NEW e \in T, s \in S PROVE Append(s, e) \in S
  <2> DEFINE more == Append(s, e)
             k == Only(s, set)
  <2>1. /\ more \in Seq(T) /\ Len(more) \in DOMAIN more /\ more[Len(more)] = e
        /\ \A i \in DOMAIN s : i \in DOMAIN more /\ more[i] = s[i]
        /\ \A i \in DOMAIN more : i = Len(more) \/ i \in DOMAIN s
    OBVIOUS
  <2>2. Only(more, set) = IF e \in set THEN Append(k, e) ELSE k
    BY OnlyAppend
  <2>3. k \in Seq(T) /\ Kept(s, k)
    BY <1>2, OnlyType
  <2> HIDE DEF more, k
  <2>4. Kept(more, Only(more, set))
    <3>1. CASE e \notin set
      BY <2>1, <2>2, <2>3, <3>1
    <3>2. CASE e \in set
      <4> DEFINE l == Append(k, e)
      <4>1. /\ Len(l) \in DOMAIN l /\ l[Len(l)] = e
            /\ \A i \in DOMAIN k : i \in DOMAIN l /\ l[i] = k[i]
            /\ \A i \in DOMAIN l : i = Len(l) \/ i \in DOMAIN k
        BY <2>3
      <4> HIDE DEF l
      <4>2. \A i \in DOMAIN l : \E j \in DOMAIN more : l[i] = more[j] /\ more[j] \in set
        BY <2>1, <2>3, <3>2, <4>1
      <4>3. \A j \in DOMAIN more : more[j] \in set => \E i \in DOMAIN l : l[i] = more[j]
        BY <2>1, <2>3, <3>2, <4>1
      <4>4. Only(more, set) = l
        BY <2>2, <3>2 DEF l
      <4> QED
        BY <4>2, <4>3, <4>4
    <3> QED
      BY <3>1, <3>2
  <2> QED
    BY <2>1, <2>4 DEF more
<1>3. Seq(T) \subseteq S
  <2> HIDE DEF S
  <2> QED
    BY <1>1, <1>2, SequenceInduction, Zenon
<1> QED
  BY <1>3

-----------------------------------------------------------------------------
(* The invariant *)

\* The row may come from q: q was started with the name, has or had the port,
\* and shares the file.
Source(row, q) ==
    /\ Name[q] = row.owner
    /\ port[q] = row.port
    /\ row.file \in Files => row.file \in ToSet(Shared[q])

\* A row that is not junk comes from a process.
Sourced(rows) ==
    \A i \in DOMAIN rows : rows[i].port # Junk => \E q \in Procs : Source(rows[i], q)

\* ... one, if it is on the list, whose exit the server has not read.
ListSourced ==
    \A i \in DOMAIN list :
        list[i].port # Junk => \E q \in Procs : Source(list[i], q) /\ conn[q] # "byExit"

ClientsSourced ==
    \A p \in Procs :
        /\ view[p] # Unset => Sourced(view[p])
        /\ \A i \in DOMAIN toClient[p] : toClient[p][i] # Rejection => Sourced(toClient[p][i])

\* What p has sent: 'a' comes first and is all of p's files, the other packets
\* have one row without a port, that of 'c' with p's name.
Packets ==
    \A p \in Procs : \A i \in DOMAIN toServer[p] :
        \/ toServer[p][i].command = "a" /\ i = 1 /\ toServer[p][i].rows \in FillList(p, port[p])
        \/ toServer[p][i].command = "b" /\ toServer[p][i].rows = <<Entry(Junk, Junk, Junk)>>
        \/ toServer[p][i].command = "c" /\ toServer[p][i].rows = <<Entry(Junk, Name[p], Junk)>>

\* Nobody is accepted before the 'a' is there.
BacklogHasA ==
    \A p \in Procs :
        conn[p] = "backlog" => toServer[p] # <<>> /\ toServer[p][1].command = "a"

\* What has not been started has no port and has sent and got nothing.
NothingBeforeStart ==
    \A p \in Procs :
        /\ pc[p] = "off" <=> port[p] = NoPort
        /\ pc[p] = "off" => conn[p] = "none" /\ toServer[p] = <<>> /\ toClient[p] = <<>>

\* A port is one that the system has given out, and at most one living process
\* has it.
PortsGiven ==
    /\ \A p, q \in Procs : port[p] = Port[q] => pc[q] # "off"
    /\ \A p, q \in Procs : Alive(p) /\ Alive(q) /\ port[p] = port[q] => p = q

\* A get, and a request, goes to a port that a process with that file had.
AskedForShared ==
    \A p \in Procs :
        /\ getting[p] # NoGet =>
               \E q \in Procs : port[q] = getting[p].port /\ getting[p].file \in ToSet(Shared[q])
        /\ getQ[p] # <<>> => Alive(p)
        /\ \A i \in DOMAIN getQ[p] :
               \E q \in Procs : port[q] = port[p] /\ getQ[p][i].file \in ToSet(Shared[q])

\* A file of one's own stays, whatever is written over it.
OwnFilesStay == \A p \in Procs : \A f \in ToSet(Shared[p]) : dir[p][f] # "none"

\* A rejection is sent on a connection that is closed then.
RejectionsClose ==
    \A p \in Procs : \A i \in DOMAIN toClient[p] :
        toClient[p][i] = Rejection => conn[p] \in {"byReject", "none"}

IInv ==
    /\ TypeOK
    /\ ListSourced
    /\ ClientsSourced
    /\ Packets
    /\ BacklogHasA
    /\ NothingBeforeStart
    /\ PortsGiven
    /\ AskedForShared
    /\ OwnFilesStay
    /\ RejectionsClose
    /\ ListedWhileJoined
    /\ ListArrives

-----------------------------------------------------------------------------
(* What the operators return *)

\* The least of two numbers.
LEMMA MinOfTwo ==
    ASSUME NEW a \in Nat, NEW b \in Nat, NEW n \in 1..Min({a, b})
    PROVE  n \in 1..a /\ n \in 1..b
<1> DEFINE least(x) == x \in {a, b} /\ \A y \in {a, b} : x <= y
<1>1. \E x : least(x)
  <2>1. least(a) \/ least(b)
    OBVIOUS
  <2> QED
    BY <2>1
<1>2. Min({a, b}) = CHOOSE x \in {a, b} : \A y \in {a, b} : x <= y
  BY DEF Min
<1>3. least(Min({a, b}))
  BY <1>1, <1>2
<1> QED
  BY <1>3

\* The rows of a connect packet are p's: its files, if it has any.
LEMMA FillListRows ==
    ASSUME NEW p \in Procs, NEW n \in Ports, NEW rows \in FillList(p, n)
    PROVE  /\ rows \in Seq(Row) /\ rows # <<>> /\ 1 \in DOMAIN rows
           /\ \A i \in DOMAIN rows :
                 /\ rows[i].owner = Name[p] /\ rows[i].port = n
                 /\ rows[i].file \in Files => rows[i].file \in ToSet(Shared[p])
           /\ \A f \in ToSet(Shared[p]) : \E i \in DOMAIN rows : rows[i] = Entry(f, Name[p], n)
           /\ \A f \in ToSet(Shared[p]) : rows[1].file # NoFile
<1>1. Shared[p] \in Seq(Files) /\ NoFile \notin Files /\ Junk \notin Files
  BY ValuesAssumption
<1>2. CASE Shared[p] # <<>>
  <2>1. rows = [i \in DOMAIN Shared[p] |-> Entry(Shared[p][i], Name[p], n)]
    BY <1>2 DEF FillList
  <2>2. DOMAIN Shared[p] = 1..Len(Shared[p]) /\ Len(Shared[p]) \in Nat \ {0}
        /\ \A i \in DOMAIN Shared[p] : Shared[p][i] \in Files
    BY <1>1, <1>2
  <2>3. \A i \in DOMAIN Shared[p] : rows[i] \in Row /\ rows[i] = Entry(Shared[p][i], Name[p], n)
    BY <2>1, <2>2 DEF Entry, Row
  <2>4. rows \in Seq(Row) /\ rows # <<>> /\ DOMAIN rows = DOMAIN Shared[p] /\ 1 \in DOMAIN rows
    <3>1. rows \in [1..Len(Shared[p]) -> Row]
      BY <2>1, <2>2, <2>3
    <3> QED
      BY <2>2, <3>1
  <2>5. \A f \in ToSet(Shared[p]) : \E i \in DOMAIN rows : rows[i] = Entry(f, Name[p], n)
    BY <2>3, <2>4 DEF ToSet
  <2>6. \A i \in DOMAIN rows : /\ rows[i].owner = Name[p] /\ rows[i].port = n
                               /\ rows[i].file = Shared[p][i]
    <3> SUFFICES ASSUME NEW i \in DOMAIN rows
                 PROVE  /\ rows[i].owner = Name[p] /\ rows[i].port = n
                        /\ rows[i].file = Shared[p][i]
      OBVIOUS
    <3>1. rows[i] = Entry(Shared[p][i], Name[p], n)
      BY <2>3, <2>4
    <3> QED
      BY <3>1 DEF Entry
  <2>8. \A i \in DOMAIN rows : Shared[p][i] \in ToSet(Shared[p])
    BY <2>4 DEF ToSet
  <2>7. rows[1].file # NoFile
    BY <1>1, <2>2, <2>4, <2>6
  <2> QED
    BY <2>4, <2>5, <2>6, <2>7, <2>8
<1>3. CASE Shared[p] = <<>>
  <2>1. PICK f \in {NoFile, Junk} : rows = <<Entry(f, Name[p], n)>>
    BY <1>3 DEF FillList
  <2>2. Entry(f, Name[p], n) \in Row
    BY DEF Entry, Row
  <2>3. rows \in Seq(Row) /\ rows # <<>> /\ DOMAIN rows = {1} /\ rows[1] = Entry(f, Name[p], n)
    BY <2>1, <2>2
  <2>4. ToSet(Shared[p]) = {}
    BY <1>3 DEF ToSet
  <2> QED
    BY <1>1, <2>3, <2>4 DEF Entry
<1> QED
  BY <1>2, <1>3

\* What the server reads at once: the first packet's rows, and for each other
\* packet a row without a port.
LEMMA ReadTogether ==
    ASSUME TypeOK, Packets, NEW p \in Procs, NEW n \in 1..Len(toServer[p])
    PROVE  \E rest \in Seq(Row) :
               /\ FlattenSeq([i \in 1..n |-> toServer[p][i].rows]) = toServer[p][1].rows \o rest
               /\ \A i \in DOMAIN rest : rest[i].port = Junk
               /\ Len(rest) = n - 1
<1> DEFINE seqs == [i \in 1..n |-> toServer[p][i].rows]
<1>1. toServer[p] \in Seq(Packet)
  BY DEF TypeOK
<1>2. \A i \in 1..n : i \in DOMAIN toServer[p] /\ toServer[p][i].rows \in Seq(Row)
  <2> SUFFICES ASSUME NEW i \in 1..n
               PROVE  i \in DOMAIN toServer[p] /\ toServer[p][i].rows \in Seq(Row)
    OBVIOUS
  <2>1. i \in DOMAIN toServer[p]
    BY <1>1
  <2>2. toServer[p][i] \in Packet
    BY <1>1, <2>1
  <2> QED
    BY <2>1, <2>2 DEF Packet
<1>3. seqs \in Seq(Seq(Row)) /\ seqs # <<>> /\ Len(seqs) = n
  <2>1. seqs \in [1..n -> Seq(Row)]
    BY <1>2
  <2> QED
    BY <2>1
<1>4. \A k \in 2..n : Len(seqs[k]) = 1 /\ \A j \in DOMAIN seqs[k] : seqs[k][j].port = Junk
  <2> SUFFICES ASSUME NEW k \in 2..n
               PROVE  /\ Len(toServer[p][k].rows) = 1
                      /\ \A j \in DOMAIN toServer[p][k].rows : toServer[p][k].rows[j].port = Junk
    OBVIOUS
  <2>1. k \in DOMAIN toServer[p] /\ k # 1
    BY <1>2
  <2>2. \/ toServer[p][k].rows = <<Entry(Junk, Junk, Junk)>>
        \/ toServer[p][k].rows = <<Entry(Junk, Name[p], Junk)>>
    BY <2>1 DEF Packets
  <2>3. PICK e : toServer[p][k].rows = <<e>> /\ e.port = Junk
    BY <2>2 DEF Entry
  <2>4. Len(<<e>>) = 1 /\ DOMAIN <<e>> = {1} /\ <<e>>[1] = e
    OBVIOUS
  <2> QED
    BY <2>3, <2>4
<1>5. seqs[1] = toServer[p][1].rows
  OBVIOUS
<1> HIDE DEF seqs
<1>6. PICK rest : FlattenRest(rest, Row, seqs)
  BY <1>3, FlattenFirst
<1>7. rest \in Seq(Row) /\ FlattenSeq(seqs) = seqs[1] \o rest
      /\ \A i \in DOMAIN rest : rest[i].port = Junk
  BY <1>3, <1>4, <1>6 DEF FlattenRest
<1>8. Len(rest) = n - 1
  <2>1. Len(FlattenSeq(seqs)) = Len(seqs[1]) + n - 1
    BY <1>3, <1>4, FlattenLength
  <2>2. seqs[1] \in Seq(Row)
    BY <1>3
  <2>3. Len(FlattenSeq(seqs)) = Len(seqs[1]) + Len(rest)
    BY <1>7, <2>2
  <2> QED
    BY <1>7, <2>1, <2>2, <2>3
<1> QED
  BY <1>5, <1>7, <1>8 DEF seqs

\* SendList appends what is sent to streams of living clients in to; all of
\* them get it, and nothing but a reset happens to the connections, unless the
\* server is killed.
Told(to, sent, at) ==
    /\ server' \in {"up", "killed"}
    /\ conn' = [q \in Procs |-> conn'[q]]
    /\ toClient' = [q \in Procs |-> toClient'[q]]
    /\ \A q \in Procs :
          \/ toClient'[q] = toClient[q]
          \/ Alive(q) /\ sent # <<>> /\ toClient'[q] = Append(toClient[q], sent)
    /\ server' = "up" => \A q \in Procs :
          /\ q \in to /\ Alive(q) /\ sent # <<>> => toClient'[q] = Append(toClient[q], sent)
          /\ conn'[q] = at[q] \/ (q \in to /\ conn'[q] = "reset")
    /\ server' = "killed" => \A q \in Procs : conn'[q] = "none"

LEMMA SendListTells ==
    ASSUME NEW to, NEW sent, NEW at, SendList(to, sent, at)
    PROVE  Told(to, sent, at)
<1>1. CASE server' = "up"
  BY <1>1 DEF SendList, Told
<1>2. CASE server' = "killed"
  BY <1>2 DEF SendList, Told
<1> QED
  BY <1>1, <1>2 DEF SendList

-----------------------------------------------------------------------------
(* The steps, seen from the list *)

Connected(at) == {q \in Procs : at[q] \in {"open", "reset"}}

\* The server takes p's files, and rows without a port behind them.
Joins(p) ==
    /\ ~IsClient(Name[p])
    /\ \E first \in FillList(p, port[p]), rest \in Seq(Row) :
        /\ \A i \in DOMAIN rest : rest[i].port = Junk
        /\ \/ first[1].file = NoFile /\ list' = list
           \/ first[1].file # NoFile /\ list' = list \o (first \o rest)
    /\ Told(Connected(conn), list', conn)

Replies(p) == list' = list /\ Told({p}, list, conn)

Removes(p) ==
    /\ list' = RemoveFiles(Name[p])
    /\ Told(Connected([conn EXCEPT ![p] = "byExit"]), list', [conn EXCEPT ![p] = "byExit"])

\* Some packets of p's stream are read, at least one.
Reads(p) ==
    /\ \A q \in Procs \ {p} : toServer'[q] = toServer[q]
    /\ DOMAIN toServer' = DOMAIN toServer
    /\ toServer'[p] \in Seq(Packet)
    /\ \A i \in DOMAIN toServer'[p] : \E j \in 2..Len(toServer[p]) : toServer'[p][i] = toServer[p][j]

\* Serve(p), as the first packet asks.
LEMMA ServeCases ==
    ASSUME TypeOK, Packets, NothingBeforeStart, NEW p \in Procs, Serve(p)
    PROVE  /\ server = "up" /\ conn[p] \in {"open", "reset"} /\ pc' = pc
           /\ port[p] \in Ports
           /\ Reads(p)
           /\ \/ toServer[p][1].command = "a" /\ (Reject(p) \/ Joins(p))
              \/ toServer[p][1].command = "b" /\ Replies(p)
              \/ toServer[p][1].command = "c" /\ Removes(p)
<1>1. server = "up" /\ conn[p] \in {"open", "reset"} /\ pc' = pc
  BY DEF Serve
<1>2. port[p] \in Ports
  BY <1>1 DEF TypeOK, NothingBeforeStart
<1> DEFINE rows(n) == FlattenSeq([i \in 1..n |-> toServer[p][i].rows])
           command == toServer[p][1].command
<1>3. PICK n \in 1..Min({MaxCoalesce, Len(toServer[p])}) :
          /\ \/ command = "a" /\ Join(p, rows(n))
             \/ command = "b" /\ Reply(p)
             \/ command = "c" /\ Disconnect(p, rows(n)[1].owner)
          /\ toServer' = [toServer EXCEPT ![p] =
                 IF conn'[p] \in {"open", "reset"} THEN SubSeq(@, n + 1, Len(@)) ELSE <<>>]
  BY DEF Serve
<1>4. toServer[p] \in Seq(Packet) /\ DOMAIN toServer = Procs
  BY DEF TypeOK
<1>5. n \in 1..Len(toServer[p])
  <2>1. MaxCoalesce \in Nat /\ Len(toServer[p]) \in Nat
    BY <1>4, FileServerAssumption
  <2> QED
    BY <2>1, MinOfTwo
<1>6. Reads(p)
  <2>1. \A q \in Procs \ {p} : toServer'[q] = toServer[q]
    BY <1>3, <1>4
  <2>2. DOMAIN toServer' = DOMAIN toServer
    BY <1>3
  <2>3. toServer'[p] = <<>> \/ toServer'[p] = SubSeq(toServer[p], n + 1, Len(toServer[p]))
    BY <1>3, <1>4
  <2>4. SubSeq(toServer[p], n + 1, Len(toServer[p])) \in Seq(Packet)
    BY <1>4, <1>5
  <2>5. \A i \in DOMAIN SubSeq(toServer[p], n + 1, Len(toServer[p])) :
            /\ i + n \in 2..Len(toServer[p])
            /\ SubSeq(toServer[p], n + 1, Len(toServer[p]))[i] = toServer[p][i + n]
    BY <1>4, <1>5
  <2> DEFINE tail == SubSeq(toServer[p], n + 1, Len(toServer[p]))
  <2>6. \A i \in DOMAIN tail : \E j \in 2..Len(toServer[p]) : tail[i] = toServer[p][j]
    BY <2>5
  <2> HIDE DEF tail
  <2>7. toServer'[p] \in Seq(Packet)
        /\ \A i \in DOMAIN toServer'[p] :
              \E j \in 2..Len(toServer[p]) : toServer'[p][i] = toServer[p][j]
    <3>1. CASE toServer'[p] = <<>>
      BY <3>1
    <3>2. CASE toServer'[p] = tail
      BY <2>4, <2>6, <3>2 DEF tail
    <3> QED
      BY <2>3, <3>1, <3>2 DEF tail
  <2> QED
    BY <2>1, <2>2, <2>7 DEF Reads
<1>7. PICK rest \in Seq(Row) : /\ rows(n) = toServer[p][1].rows \o rest
                               /\ \A i \in DOMAIN rest : rest[i].port = Junk
  BY <1>5, ReadTogether
<1>8. 1 \in DOMAIN toServer[p]
  BY <1>4, <1>5
<1> DEFINE first == toServer[p][1].rows
<1>9. first \in Seq(Row) /\ first # <<>> /\ first \o rest \in Seq(Row)
      /\ (first \o rest)[1] = first[1]
  <2>1. toServer[p][1] \in Packet
    BY <1>4, <1>8
  <2>2. first \in Seq(Row)
    BY <2>1 DEF Packet
  <2>3. first # <<>>
    <3>1. \/ first \in FillList(p, port[p])
          \/ first = <<Entry(Junk, Junk, Junk)>>
          \/ first = <<Entry(Junk, Name[p], Junk)>>
      BY <1>8 DEF Packets
    <3>2. first \in FillList(p, port[p]) => first # <<>>
      BY <1>2, FillListRows
    <3>3. \A e : <<e>> # <<>>
      OBVIOUS
    <3> HIDE DEF first
    <3> QED
      BY <3>1, <3>2, <3>3, Zenon
  <2> QED
    BY <2>2, <2>3
<1> HIDE DEF rows, first, command
<1>10. CASE command = "a" /\ Join(p, rows(n))
  <2>1. first \in FillList(p, port[p])
    BY <1>8, <1>10 DEF Packets, command, first
  <2>2. 1 \in DOMAIN first /\ first[1].owner = Name[p]
    BY <1>2, <2>1, FillListRows
  <2>3. rows(n) = first \o rest /\ rows(n)[1] = first[1]
    BY <1>7, <1>9 DEF first
  <2>4. CASE IsClient(Name[p])
    BY <1>1, <1>2, <1>6, <1>10, <2>2, <2>3, <2>4 DEF Join, command
  <2>5. CASE ~IsClient(Name[p])
    <3>1. /\ list' = IF first[1].file = NoFile THEN list ELSE list \o (first \o rest)
          /\ Broadcast(list', conn, p)
      BY <1>10, <2>2, <2>3, <2>5 DEF Join
    <3>2. Told(Connected(conn), list', conn)
      BY <3>1, SendListTells DEF Broadcast, Connected
    <3>3. Joins(p)
      BY <1>7, <2>1, <2>5, <3>1, <3>2 DEF Joins
    <3> QED
      BY <1>1, <1>2, <1>6, <1>10, <3>3 DEF command
  <2> QED
    BY <2>4, <2>5
<1>11. CASE command = "b" /\ Reply(p)
  <2>1. Replies(p)
    BY <1>11, SendListTells DEF Reply, Replies
  <2> QED
    BY <1>1, <1>2, <1>6, <1>11, <2>1 DEF command
<1>12. CASE command = "c" /\ Disconnect(p, rows(n)[1].owner)
  <2>1. first = <<Entry(Junk, Name[p], Junk)>>
    BY <1>8, <1>12 DEF Packets, command, first
  <2>2. rows(n)[1].owner = Name[p]
    BY <1>7, <1>9, <2>1 DEF first, Entry
  <2>3. list' = RemoveFiles(Name[p]) /\ Broadcast(list', [conn EXCEPT ![p] = "byExit"], p)
    BY <1>12, <2>2 DEF Disconnect
  <2>4. Removes(p)
    BY <2>3, SendListTells DEF Broadcast, Connected, Removes
  <2> QED
    BY <1>1, <1>2, <1>6, <1>12, <2>4 DEF command
<1> QED
  BY <1>3, <1>10, <1>11, <1>12 DEF command

-----------------------------------------------------------------------------
(* Types *)

Conns == {"none", "backlog", "open", "reset", "byReject", "byExit", "byEof"}
Message == Seq(Row) \cup {Rejection}

\* What is sent arrives as a message, and the connections have their states.
LEMMA ToldType ==
    ASSUME TypeOK, NEW to, NEW sent \in Seq(Row), NEW at \in [Procs -> Conns],
           Told(to, sent, at)
    PROVE  conn' \in [Procs -> Conns] /\ toClient' \in [Procs -> Seq(Message)]
           /\ server' \in {"up", "killed"}
<1>1. \A q \in Procs : toClient[q] \in Seq(Message)
  BY DEF TypeOK, Message
<1>2. ASSUME NEW q \in Procs PROVE toClient'[q] \in Seq(Message)
  <2>1. sent \in Message
    BY DEF Message
  <2>2. Append(toClient[q], sent) \in Seq(Message)
    BY <1>1, <2>1
  <2> QED
    BY <1>1, <2>2 DEF Told
<1>3. ASSUME NEW q \in Procs PROVE conn'[q] \in Conns
  BY DEF Told, Conns
<1>4. toClient' \in [Procs -> Seq(Message)]
  <2>1. toClient' = [q \in Procs |-> toClient'[q]]
    BY DEF Told
  <2> QED
    BY <1>2, <2>1
<1>5. conn' \in [Procs -> Conns]
  <2>1. conn' = [q \in Procs |-> conn'[q]]
    BY DEF Told
  <2> QED
    BY <1>3, <2>1
<1> QED
  BY <1>4, <1>5 DEF Told

\* The server's steps keep the types.
LEMMA TypeServer ==
    ASSUME TypeOK, Packets, NothingBeforeStart, NEW p \in Procs,
           Accept(p) \/ Serve(p) \/ Hangup(p), UNCHANGED clientVars
    PROVE  TypeOK'
<1>1. CASE Accept(p) \/ Hangup(p)
  BY <1>1 DEF TypeOK, Accept, Hangup, clientVars
<1>2. CASE Serve(p)
  <2>1. pc' = pc /\ Reads(p) /\ port[p] \in Ports
    BY <1>2, ServeCases
  <2>2. toServer' \in [Procs -> Seq(Packet)]
    <3>1. toServer' = [q \in Procs |-> toServer'[q]]
      <4>1. DOMAIN toServer = Procs
        BY DEF TypeOK
      <4>2. toServer' = [q \in DOMAIN toServer |-> toServer'[q]]
        BY <1>2 DEF Serve
      <4> QED
        BY <4>1, <4>2
    <3>2. \A q \in Procs : toServer'[q] \in Seq(Packet)
      BY <2>1 DEF Reads, TypeOK
    <3> QED
      BY <3>1, <3>2
  <2>3. /\ list' \in Seq(Row) /\ server' \in {"up", "killed"}
        /\ conn' \in [Procs -> Conns] /\ toClient' \in [Procs -> Seq(Message)]
    <3>1. CASE Reject(p)
      <4>1. toClient[p] \in Seq(Message) /\ Rejection \in Message
        BY DEF TypeOK, Message
      <4>2. Append(toClient[p], Rejection) \in Seq(Message)
        BY <4>1
      <4>3. toClient \in [Procs -> Seq(Message)]
        BY DEF TypeOK, Message
      <4>4. toClient' \in [Procs -> Seq(Message)]
        BY <3>1, <4>2, <4>3 DEF Reject
      <4> QED
        BY <3>1, <4>4 DEF Reject, TypeOK, Conns
    <3>2. CASE Joins(p)
      <4>1. list' \in Seq(Row)
        <5>1. PICK first \in FillList(p, port[p]), rest \in Seq(Row) :
                  list' = list \/ list' = list \o (first \o rest)
          BY <3>2 DEF Joins
        <5>2. first \in Seq(Row)
          BY <2>1, FillListRows
        <5>3. list \in Seq(Row)
          BY DEF TypeOK
        <5>4. first \o rest \in Seq(Row)
          BY <5>2
        <5>5. list \o (first \o rest) \in Seq(Row)
          BY <5>3, <5>4
        <5> QED
          BY <5>1, <5>3, <5>5
      <4>2. conn \in [Procs -> Conns] /\ Told(Connected(conn), list', conn)
        BY <3>2 DEF TypeOK, Conns, Joins
      <4> QED
        BY <4>1, <4>2, ToldType
    <3>3. CASE Replies(p)
      <4>1. list \in Seq(Row) /\ conn \in [Procs -> Conns] /\ Told({p}, list, conn) /\ list' = list
        BY <3>3 DEF TypeOK, Conns, Replies
      <4> QED
        BY <4>1, ToldType
    <3>4. CASE Removes(p)
      <4> DEFINE at == [conn EXCEPT ![p] = "byExit"]
      <4>1. list' \in Seq(Row)
        BY <3>4, OnlyType DEF Removes, RemoveFiles, TypeOK
      <4>2. at \in [Procs -> Conns] /\ Told(Connected(at), list', at)
        BY <3>4 DEF TypeOK, Conns, Removes
      <4> QED
        BY <4>1, <4>2, ToldType
    <3> QED
      BY <1>2, <3>1, <3>2, <3>3, <3>4, ServeCases
  <2> QED
    BY <2>1, <2>2, <2>3 DEF TypeOK, clientVars, Conns, Message
<1> QED
  BY <1>1, <1>2

\* A start gives a port.
LEMMA TypeStart ==
    ASSUME TypeOK, NEW p \in Procs, Start(p)
    PROVE  TypeOK' /\ \E n \in FreePorts(p) :
               /\ n \in Ports /\ port' = [port EXCEPT ![p] = n]
               /\ \E rows \in FillList(p, n) :
                      toServer' = [toServer EXCEPT ![p] = <<[command |-> "a", rows |-> rows]>>]
<1>1. PICK n \in FreePorts(p) :
          /\ port' = [port EXCEPT ![p] = n]
          /\ \E rows \in FillList(p, n) :
                 toServer' = [toServer EXCEPT ![p] = <<[command |-> "a", rows |-> rows]>>]
  BY DEF Start
<1>2. n \in Ports
  <2>1. n = Port[p] \/ (n # NoPort /\ \E q \in Procs : n = port[q])
    BY DEF FreePorts
  <2>2. Port[p] \in Ports
    BY DEF Ports
  <2>3. \A q \in Procs : port[q] \in Ports \cup {NoPort}
    BY DEF TypeOK
  <2> QED
    BY <2>1, <2>2, <2>3
<1>3. PICK rows \in FillList(p, n) :
          toServer' = [toServer EXCEPT ![p] = <<[command |-> "a", rows |-> rows]>>]
  BY <1>1
<1>4. rows \in Seq(Row)
  BY <1>2, FillListRows
<1>5. <<[command |-> "a", rows |-> rows]>> \in Seq(Packet)
  BY <1>4 DEF Packet
<1>6. toServer' \in [Procs -> Seq(Packet)]
  BY <1>3, <1>5 DEF TypeOK
<1>7. port' \in [Procs -> Ports \cup {NoPort}]
  BY <1>1, <1>2 DEF TypeOK
<1>8. pc[p] = "off" /\ pc' = [pc EXCEPT ![p] = "idle"] /\ conn' = [conn EXCEPT ![p] = "backlog"]
      /\ UNCHANGED <<list, server, toClient, view, getQ, getting, reply, dir>>
  BY DEF Start
<1>9. pc' \in [Procs -> Ended \cup {"off", "idle", "serving", "asking", "naming", "getting"}]
      /\ conn' \in [Procs -> {"none", "backlog", "open", "reset", "byReject", "byExit", "byEof"}]
      /\ \A q \in Procs : pc'[q] \in {"asking", "naming", "getting"} <=> pc[q] \in {"asking", "naming", "getting"}
  BY <1>8 DEF TypeOK, Ended
<1> QED
  BY <1>1, <1>2, <1>6, <1>7, <1>8, <1>9 DEF TypeOK

\* What is left of a client that ends has its types.
ClientTypes ==
    /\ toClient \in [Procs -> Seq(Message)]
    /\ view \in [Procs -> Seq(Row) \cup {Unset}]
    /\ getting \in [Procs -> [port : Ports, file : Files] \cup {NoGet}]
    /\ \A p \in Procs : pc[p] \in {"asking", "naming", "getting"} <=> getting[p] # NoGet
    /\ pc \in [Procs -> Ended \cup {"off", "idle", "serving", "asking", "naming", "getting"}]
    /\ getQ \in [Procs -> Seq(Connection)]
    /\ reply \in [Procs -> {"none", "whole", "part", "garbage", "empty", "reset"}]

ServerTypes ==
    /\ list \in Seq(Row)
    /\ server \in {"up", "killed"}
    /\ conn \in [Procs -> Conns]
    /\ port \in [Procs -> Ports \cup {NoPort}]

DirType == dir \in [Procs -> [Files -> {"none", "whole", "part", "garbage", "empty"}]]

LEMMA TypeParts ==
    TypeOK <=> ServerTypes /\ ClientTypes /\ DirType /\ toServer \in [Procs -> Seq(Packet)]
BY DEF TypeOK, ServerTypes, ClientTypes, DirType, Conns, Message

LEMMA EndTypes ==
    ASSUME ClientTypes, NEW p \in Procs, NEW how \in Ended, NEW closed, EndIn(p, how, closed)
    PROVE  ClientTypes'
<1>1. toClient' \in [Procs -> Seq(Message)] /\ view' \in [Procs -> Seq(Row) \cup {Unset}]
  BY DEF EndIn, ClientTypes
<1>2. getting' \in [Procs -> [port : Ports, file : Files] \cup {NoGet}]
  BY DEF EndIn, ClientTypes
<1>3. pc' \in [Procs -> Ended \cup {"off", "idle", "serving", "asking", "naming", "getting"}]
  BY DEF EndIn, ClientTypes
<1>4. \A q \in Procs : pc'[q] \in {"asking", "naming", "getting"} <=> getting'[q] # NoGet
  BY DEF EndIn, ClientTypes, Ended
<1>5. getQ' \in [Procs -> Seq(Connection)]
  BY DEF EndIn, ClientTypes
<1>6. reply' \in [Procs -> {"none", "whole", "part", "garbage", "empty", "reset"}]
  <2>1. reply' = [q \in Procs |->
           CASE q = p -> "none"
             [] q # p /\ Reaches(q, p) -> IF q \in closed THEN "empty" ELSE "reset"
             [] OTHER -> reply[q]]
    BY DEF EndIn
  <2>2. \A q \in Procs : reply'[q] \in {"none", "empty", "reset"} \/ reply'[q] = reply[q]
    BY <2>1
  <2> QED
    BY <2>1, <2>2 DEF ClientTypes
<1> QED
  BY <1>1, <1>2, <1>3, <1>4, <1>5, <1>6 DEF ClientTypes

\* A name that arrives changes nothing else of the connections.
LEMMA NamedType ==
    ASSUME getQ \in [Procs -> Seq(Connection)], NEW p
    PROVE  /\ Named(p) \in [Procs -> Seq(Connection)]
           /\ \A q \in Procs : \A i \in DOMAIN Named(p)[q] :
                  i \in DOMAIN getQ[q] /\ Named(p)[q][i].file = getQ[q][i].file
<1> DEFINE new(q, i) == [getQ[q][i] EXCEPT !.named = @ \/ getQ[q][i].from = p]
           seq(q) == [i \in DOMAIN getQ[q] |-> new(q, i)]
<1>1. ASSUME NEW q \in Procs, NEW i \in DOMAIN getQ[q]
      PROVE  new(q, i) \in Connection /\ new(q, i).file = getQ[q][i].file
  <2>1. getQ[q][i] \in Connection
    OBVIOUS
  <2>2. /\ new(q, i) = [getQ[q][i] EXCEPT !.named = new(q, i).named]
        /\ new(q, i).named \in BOOLEAN
    BY <2>1 DEF Connection
  <2> QED
    BY <2>1, <2>2 DEF Connection
<1> HIDE DEF new
<1>2. ASSUME NEW q \in Procs PROVE seq(q) \in Seq(Connection) /\ DOMAIN seq(q) = DOMAIN getQ[q]
  <2>1. DOMAIN getQ[q] = 1..Len(getQ[q]) /\ Len(getQ[q]) \in Nat
    OBVIOUS
  <2>2. seq(q) \in [1..Len(getQ[q]) -> Connection]
    BY <1>1, <2>1
  <2> QED
    BY <2>1, <2>2
<1>3. Named(p) = [q \in Procs |-> seq(q)]
  BY DEF Named, new
<1> QED
  BY <1>1, <1>2, <1>3

\* What a client writes to its directory.
LEMMA WriteType ==
    ASSUME DirType, ClientTypes, NEW p \in Procs, pc[p] = "getting",
           NEW content \in {"whole", "part", "garbage", "empty"}, Write(p, content)
    PROVE  DirType'
<1>1. getting[p].file \in Files
  BY DEF ClientTypes
<1> QED
  BY <1>1 DEF DirType, Write

\* What a recv may return of an answer that is not a reset.
LEMMA ReceivedType ==
    ASSUME ClientTypes, NEW p \in Procs, reply[p] \notin {"none", "reset"},
           NEW content \in Received(getting[p].file, reply[p])
    PROVE  content \in {"whole", "part", "garbage", "empty"}
BY DEF ClientTypes, Received

\* What a client does.
ClientSteps(p) == Reacts(p) \/ Ls(p) \/ Exit(p) \/ Kill(p) \/ \E f \in Files : Get(p, f)

\* The clients' steps keep the types.
LEMMA TypeClient ==
    ASSUME TypeOK, NEW p \in Procs, ClientSteps(p)
    PROVE  TypeOK'
<1> USE DEF Reacts
<1>0. ServerTypes /\ ClientTypes /\ DirType /\ toServer \in [Procs -> Seq(Packet)]
  BY TypeParts
<1>1. ServerTypes'
  BY <1>0 DEF ClientSteps, ServerTypes, Hear, LoseServer, AcceptGet, ServeGet, Ask, SendName,
         TakeReply, Ls, Exit, Kill, Get, Command, serverVars
<1>2. toServer' \in [Procs -> Seq(Packet)]
  <2>1. ASSUME NEW command \in {"b", "c"}, NEW rows \in Seq(Row), Send(p, command, rows)
        PROVE  toServer' \in [Procs -> Seq(Packet)]
    <3> DEFINE m == [command |-> command, rows |-> rows]
    <3>1. m \in Packet
      BY <2>1 DEF Packet
    <3>2. toServer[p] \in Seq(Packet)
      BY <1>0
    <3> HIDE DEF m
    <3>3. Append(toServer[p], m) \in Seq(Packet)
      BY <3>1, <3>2
    <3>4. toServer' = toServer \/ toServer' = [toServer EXCEPT ![p] = Append(@, m)]
      BY <1>0, <2>1 DEF Send, m
    <3> QED
      BY <1>0, <3>3, <3>4
  <2>2. Entry(Junk, Junk, Junk) \in Row /\ Entry(Junk, Name[p], Junk) \in Row
    BY DEF Entry, Row
  <2>3. <<Entry(Junk, Junk, Junk)>> \in Seq(Row) /\ <<Entry(Junk, Name[p], Junk)>> \in Seq(Row)
    BY <2>2
  <2>4. CASE Ls(p)
    BY <2>1, <2>3, <2>4 DEF Ls
  <2>5. CASE Exit(p)
    BY <2>1, <2>3, <2>5 DEF Exit
  <2>6. CASE ~Ls(p) /\ ~Exit(p)
    BY <1>0, <2>6 DEF ClientSteps, Hear, LoseServer, AcceptGet, ServeGet, Ask, SendName,
           TakeReply, Kill, Get, serverVars
  <2> QED
    BY <2>4, <2>5, <2>6
<1>3. ClientTypes' /\ DirType'
  <2>1. CASE Hear(p)
    <3>1. DirType'
      BY <1>0, <2>1 DEF DirType, Hear
    <3>2. PICK n \in 1..Min({MaxCoalesce, Len(toClient[p])}) :
            \/ EndAs(p, "rejected")
            \/ /\ view' = [view EXCEPT ![p] = FlattenSeq([i \in 1..n |-> Rows(toClient[p][i])])]
               /\ toClient' = [toClient EXCEPT ![p] = SubSeq(@, n + 1, Len(@))]
               /\ UNCHANGED <<pc, getQ, getting, reply>>
      BY <2>1 DEF Hear
    <3>3. CASE EndAs(p, "rejected")
      BY <1>0, <3>1, <3>3, EndTypes DEF EndAs, Ended
    <3>4. CASE ~EndAs(p, "rejected")
      <4>1. toClient[p] \in Seq(Message)
        BY <1>0 DEF ClientTypes
      <4>2. n \in 1..Len(toClient[p])
        <5>1. MaxCoalesce \in Nat /\ Len(toClient[p]) \in Nat
          BY <4>1, FileServerAssumption
        <5> QED
          BY <5>1, MinOfTwo
      <4>3. \A i \in 1..n : Rows(toClient[p][i]) \in Seq(Row)
        <5>1. \A i \in 1..n : toClient[p][i] \in Message
          BY <4>1, <4>2
        <5> QED
          BY <5>1 DEF Rows, Message
      <4> DEFINE seqs == [i \in 1..n |-> Rows(toClient[p][i])]
      <4>4. seqs \in Seq(Seq(Row))
        <5>1. n \in Nat /\ seqs \in [1..n -> Seq(Row)]
          BY <4>2, <4>3
        <5> QED
          BY <5>1
      <4> HIDE DEF seqs
      <4>5. FlattenSeq(seqs) \in Seq(Row)
        BY <4>4, FlattenType
      <4>6. SubSeq(toClient[p], n + 1, Len(toClient[p])) \in Seq(Message)
        BY <4>1, <4>2
      <4>7. view' = [view EXCEPT ![p] = FlattenSeq(seqs)]
        BY <3>2, <3>4 DEF seqs
      <4>8. view' \in [Procs -> Seq(Row) \cup {Unset}]
        BY <1>0, <4>5, <4>7 DEF ClientTypes
      <4>9. toClient' \in [Procs -> Seq(Message)]
        BY <1>0, <3>2, <3>4, <4>6 DEF ClientTypes
      <4> QED
        BY <1>0, <3>1, <3>2, <3>4, <4>8, <4>9 DEF ClientTypes
    <3> QED
      BY <3>3, <3>4
  <2>2. CASE LoseServer(p)
    BY <1>0, <2>2, EndTypes DEF LoseServer, EndAs, Ended, DirType
  <2>3. CASE ServeGet(p)
    <3>1. DirType' /\ getQ[p] # <<>> /\ pc[p] = "serving"
      BY <1>0, <2>3 DEF DirType, ServeGet
    <3> DEFINE r == Head(getQ[p])
    <3>2. getQ \in [Procs -> Seq(Connection)]
      BY <1>0 DEF ClientTypes
    <3>3. r \in Connection /\ Tail(getQ[p]) \in Seq(Connection)
      BY <3>1, <3>2
    <3>4. r.file \in Files /\ Opened(p, r) \subseteq Files \cup {NoFile}
      BY <3>3 DEF Connection, Opened
    <3>5. PICK f \in Opened(p, r) :
            \/ /\ Has(p, f)
               /\ getQ' = [getQ EXCEPT ![p] = Tail(@)]
               /\ reply' = IF pc[r.from] = "getting"
                           THEN [reply EXCEPT ![r.from] = dir[p][f]] ELSE reply
               /\ pc' = [pc EXCEPT ![p] = "idle"]
               /\ UNCHANGED <<toClient, view, getting>>
            \/ EndIn(p, "crashed", {r.from})
      BY <2>3 DEF ServeGet
    <3>6. CASE EndIn(p, "crashed", {r.from})
      BY <1>0, <3>1, <3>6, EndTypes DEF Ended
    <3>7. CASE ~EndIn(p, "crashed", {r.from})
      <4>1. getQ' \in [Procs -> Seq(Connection)]
        <5> HIDE DEF r
        <5> QED
          BY <3>2, <3>3, <3>5, <3>7
      <4>2. dir[p][f] \in {"whole", "part", "garbage", "empty"}
        BY <1>0, <3>4, <3>5, <3>7 DEF DirType, Has
      <4>3. reply' \in [Procs -> {"none", "whole", "part", "garbage", "empty", "reset"}]
        <5> HIDE DEF r
        <5> QED
          BY <1>0, <3>5, <3>7, <4>2 DEF ClientTypes
      <4> QED
        BY <1>0, <3>1, <3>5, <3>7, <4>1, <4>3 DEF ClientTypes
    <3> QED
      BY <3>6, <3>7
  <2>4. CASE Ask(p)
    <3>1. DirType' /\ toClient' = toClient /\ view' = view /\ reply' = reply /\ pc[p] = "asking"
      BY <1>0, <2>4 DEF DirType, Ask
    <3>2. CASE \E q \in Procs : Request(p, q) /\ pc' = [pc EXCEPT ![p] = "naming"] /\ getting' = getting
      <4>1. PICK q \in Procs : Request(p, q) /\ pc' = [pc EXCEPT ![p] = "naming"] /\ getting' = getting
        BY <3>2
      <4> DEFINE r == [from |-> p, file |-> getting[p].file, named |-> FALSE]
      <4>2. r \in Connection /\ getQ \in [Procs -> Seq(Connection)]
        BY <1>0, <3>1 DEF ClientTypes, Connection
      <4>3. getQ' = [getQ EXCEPT ![q] = Append(@, r)]
        BY <4>1 DEF Request
      <4> HIDE DEF r
      <4>4. Append(getQ[q], r) \in Seq(Connection)
        BY <4>2
      <4>5. getQ' \in [Procs -> Seq(Connection)]
        BY <4>2, <4>3, <4>4
      <4> QED
        BY <1>0, <3>1, <4>1, <4>5 DEF ClientTypes
    <3>3. CASE pc' = [pc EXCEPT ![p] = "idle"] /\ getting' = [getting EXCEPT ![p] = NoGet] /\ getQ' = getQ
      BY <1>0, <3>1, <3>3 DEF ClientTypes
    <3> QED
      BY <2>4, <3>2, <3>3 DEF Ask, NoConnection
  <2>5. CASE TakeReply(p)
    <3>1. pc[p] = "getting" /\ reply[p] # "none"
      BY <2>5 DEF TakeReply
    <3>2. GetDone(p) => ClientTypes'
      BY <1>0 DEF ClientTypes, GetDone
    <3>3. EndAs(p, "crashed") => ClientTypes'
      BY <1>0, EndTypes DEF EndAs, Ended
    <3>4. \E content \in {"whole", "part", "garbage", "empty"} : Write(p, content)
      BY <1>0, <2>5, ReceivedType DEF TakeReply
    <3>5. DirType'
      BY <1>0, <3>1, <3>4, WriteType
    <3>6. GetDone(p) \/ EndAs(p, "crashed")
      BY <2>5 DEF TakeReply
    <3> QED
      BY <3>2, <3>3, <3>5, <3>6
  <2>6. CASE Ls(p)
    BY <1>0, <2>6 DEF Ls, ClientTypes, DirType
  <2>7. CASE Exit(p) \/ Kill(p)
    <3>1. EndIn(p, "exited", Unnamed(p)) \/ EndIn(p, "killed", Unnamed(p))
      BY <2>7 DEF Exit, Kill, EndAs
    <3>2. "exited" \in Ended /\ "killed" \in Ended
      BY DEF Ended
    <3>3. DirType'
      BY <1>0, <2>7 DEF Exit, Kill, DirType
    <3> QED
      BY <1>0, <3>1, <3>2, <3>3, EndTypes
  <2>8. CASE \E f \in Files : Get(p, f)
    <3>1. PICK f \in Files : Get(p, f)
      BY <2>8
    <3>2. PICK i \in DOMAIN view[p] : /\ view[p][i].port # Junk
            /\ getting' = [getting EXCEPT ![p] = [port |-> view[p][i].port, file |-> f]]
      BY <3>1 DEF Get
    <3>3. view[p] \in Seq(Row)
      BY <1>0, <3>1 DEF ClientTypes, Get
    <3>4. view[p][i] \in Row
      BY <3>2, <3>3
    <3>5. view[p][i].port \in Ports
      BY <3>2, <3>4 DEF Row
    <3> DEFINE g == [port |-> view[p][i].port, file |-> f]
    <3>6. g \in [port : Ports, file : Files] /\ g # NoGet
      BY <3>1, <3>5, ValuesAssumption DEF NoGet, NoPort
    <3>7. getting' = [getting EXCEPT ![p] = g]
      BY <3>2
    <3> HIDE DEF g
    <3>8. pc' = [pc EXCEPT ![p] = "asking"] /\ UNCHANGED <<toClient, view, getQ, reply, dir>>
      BY <3>1 DEF Get
    <3> QED
      BY <1>0, <3>6, <3>7, <3>8 DEF ClientTypes, DirType
  <2>9. CASE AcceptGet(p)
    BY <1>0, <2>9 DEF AcceptGet, ServerQuiet, ClientTypes, DirType
  <2>10. CASE SendName(p)
    <3>1. DirType' /\ toClient' = toClient /\ view' = view /\ pc[p] = "naming"
      BY <1>0, <2>10 DEF DirType, SendName
    <3>2. CASE getQ' = Named(p) /\ pc' = [pc EXCEPT ![p] = "getting"] /\ UNCHANGED <<getting, reply>>
      <4>1. getQ' \in [Procs -> Seq(Connection)]
        BY <1>0, <3>2, NamedType DEF ClientTypes
      <4> QED
        BY <1>0, <3>1, <3>2, <4>1 DEF ClientTypes
    <3>3. CASE /\ pc' = [pc EXCEPT ![p] = "idle"] /\ getting' = [getting EXCEPT ![p] = NoGet]
               /\ reply' = [reply EXCEPT ![p] = "none"] /\ UNCHANGED getQ
      BY <1>0, <3>1, <3>3 DEF ClientTypes
    <3> QED
      BY <2>10, <3>2, <3>3 DEF SendName
  <2> QED
    BY <2>1, <2>2, <2>3, <2>4, <2>5, <2>6, <2>7, <2>8, <2>9, <2>10 DEF ClientSteps
<1>4. TypeOK'
  BY <1>1, <1>2, <1>3 DEF TypeOK, ServerTypes, ClientTypes, DirType, Conns, Message
<1> QED
  BY <1>4

-----------------------------------------------------------------------------
(* Where rows come from *)

\* Several messages are read, and taken for one list.
Hears(p) ==
    \E seqs \in Seq(Seq(Row)) :
        /\ seqs # <<>> /\ Len(seqs) <= Len(toClient[p])
        /\ \A i \in 1..Len(seqs) : seqs[i] = Rows(toClient[p][i])
        /\ view'[p] = FlattenSeq(seqs)
        /\ toClient'[p] = SubSeq(toClient[p], Len(seqs) + 1, Len(toClient[p]))

\* What a step of a client does to what the server has to do with.
Moves(p) ==
    /\ UNCHANGED <<list, server, conn, port>>
    /\ Alive(p) /\ pc'[p] # "off"
    /\ \A q \in Procs \ {p} :
          /\ toServer'[q] = toServer[q] /\ toClient'[q] = toClient[q]
          /\ view'[q] = view[q] /\ pc'[q] = pc[q]
    /\ \/ toServer'[p] = toServer[p]
       \/ \E m \in {[command |-> "b", rows |-> <<Entry(Junk, Junk, Junk)>>],
                    [command |-> "c", rows |-> <<Entry(Junk, Name[p], Junk)>>]} :
              toServer'[p] = Append(toServer[p], m)
    /\ \/ toClient'[p] = toClient[p] /\ view'[p] = view[p]
       \/ toClient'[p] = <<>> /\ view'[p] = Unset /\ pc'[p] \in Ended
       \/ Hears(p)

LEMMA HearHears ==
    ASSUME TypeOK, NEW p \in Procs, Hear(p), ~EndAs(p, "rejected")
    PROVE  Hears(p)
<1>1. PICK n \in 1..Min({MaxCoalesce, Len(toClient[p])}) :
          /\ view' = [view EXCEPT ![p] = FlattenSeq([i \in 1..n |-> Rows(toClient[p][i])])]
          /\ toClient' = [toClient EXCEPT ![p] = SubSeq(@, n + 1, Len(@))]
  BY DEF Hear
<1>2. toClient[p] \in Seq(Message) /\ DOMAIN view = Procs /\ DOMAIN toClient = Procs
  BY DEF TypeOK, Message
<1>3. n \in 1..Len(toClient[p])
  <2>1. MaxCoalesce \in Nat /\ Len(toClient[p]) \in Nat
    BY <1>2, FileServerAssumption
  <2> QED
    BY <2>1, MinOfTwo
<1>4. \A i \in 1..n : Rows(toClient[p][i]) \in Seq(Row)
  <2>1. \A i \in 1..n : toClient[p][i] \in Message
    BY <1>2, <1>3
  <2> QED
    BY <2>1 DEF Rows, Message
<1> DEFINE seqs == [i \in 1..n |-> Rows(toClient[p][i])]
<1>5. seqs \in Seq(Seq(Row)) /\ seqs # <<>> /\ Len(seqs) = n
  <2>1. n \in Nat /\ n > 0 /\ seqs \in [1..n -> Seq(Row)]
    BY <1>3, <1>4
  <2> HIDE DEF seqs
  <2>2. seqs \in Seq(Seq(Row)) /\ Len(seqs) = n
    BY <2>1
  <2> QED
    BY <2>1, <2>2
<1>6. \A i \in 1..Len(seqs) : seqs[i] = Rows(toClient[p][i])
  BY <1>5
<1>7. view'[p] = FlattenSeq(seqs)
  BY <1>1, <1>2
<1>8. toClient'[p] = SubSeq(toClient[p], n + 1, Len(toClient[p]))
  BY <1>1, <1>2
<1> HIDE DEF seqs
<1>9. Len(seqs) <= Len(toClient[p])
      /\ toClient'[p] = SubSeq(toClient[p], Len(seqs) + 1, Len(toClient[p]))
  BY <1>3, <1>5, <1>8
<1> QED
  BY <1>5, <1>6, <1>7, <1>9 DEF Hears

LEMMA ClientMoves ==
    ASSUME TypeOK, NEW p \in Procs, ClientSteps(p)
    PROVE  Moves(p)
<1> USE DEF Reacts
<1>0. /\ p \in DOMAIN pc /\ p \in DOMAIN toServer /\ p \in DOMAIN toClient /\ p \in DOMAIN view
      /\ p \in DOMAIN getQ /\ pc[p] \in Ended \cup {"off", "idle", "serving", "asking", "naming", "getting"}
  BY DEF TypeOK
<1>10. DOMAIN pc = Procs /\ DOMAIN toServer = Procs /\ DOMAIN toClient = Procs /\ DOMAIN view = Procs
  BY DEF TypeOK
<1>1. UNCHANGED <<list, server, conn, port>>
  BY DEF ClientSteps, Hear, LoseServer, AcceptGet, ServeGet, Ask, SendName, TakeReply, Ls,
         Exit, Kill, Get, Command, serverVars
<1>2. Alive(p)
  BY DEF ClientSteps, Hear, LoseServer, AcceptGet, ServeGet, Ask, SendName, TakeReply, Ls,
         Exit, Kill, Get, Command, Typed, ServerQuiet, Alive, Ended
<1>3. \A q \in Procs \ {p} : pc'[q] = pc[q] /\ view'[q] = view[q]
  BY <1>10 DEF ClientSteps, Hear, LoseServer, AcceptGet, ServeGet, Ask, SendName, TakeReply,
         Ls, Exit, Kill, Get, EndAs, EndIn, GetDone
<1>4. \A q \in Procs \ {p} : toClient'[q] = toClient[q]
  BY <1>10 DEF ClientSteps, Hear, LoseServer, AcceptGet, ServeGet, Ask, SendName, TakeReply,
         Ls, Exit, Kill, Get, EndAs, EndIn, GetDone
<1>5. pc'[p] # "off"
  BY <1>0, <1>2 DEF ClientSteps, Hear, LoseServer, AcceptGet, ServeGet, Ask, SendName,
         TakeReply, Ls, Exit, Kill, Get, EndAs, EndIn, GetDone, Alive
<1>6. \A q \in Procs \ {p} : toServer'[q] = toServer[q]
  BY <1>10 DEF ClientSteps, Hear, LoseServer, AcceptGet, ServeGet, Ask, SendName, TakeReply,
         Ls, Exit, Kill, Get, Send
<1>7. \/ toServer'[p] = toServer[p]
      \/ toServer'[p] = Append(toServer[p], [command |-> "b", rows |-> <<Entry(Junk, Junk, Junk)>>])
      \/ toServer'[p] = Append(toServer[p], [command |-> "c", rows |-> <<Entry(Junk, Name[p], Junk)>>])
  BY <1>0 DEF ClientSteps, Hear, LoseServer, AcceptGet, ServeGet, Ask, SendName, TakeReply,
         Ls, Exit, Kill, Get, Send
<1>8. ASSUME NEW how \in Ended, NEW closed, EndIn(p, how, closed)
      PROVE  toClient'[p] = <<>> /\ view'[p] = Unset /\ pc'[p] \in Ended
  BY <1>0, <1>8 DEF EndIn
<1>9. \/ toClient'[p] = toClient[p] /\ view'[p] = view[p]
      \/ toClient'[p] = <<>> /\ view'[p] = Unset /\ pc'[p] \in Ended
      \/ Hears(p)
  <2>0. {"rejected", "lost", "exited", "killed", "crashed"} \subseteq Ended
    BY DEF Ended
  <2>1. CASE Hear(p) /\ EndAs(p, "rejected")
    BY <1>8, <2>0, <2>1 DEF EndAs
  <2>2. CASE Hear(p) /\ ~EndAs(p, "rejected")
    BY <2>2, HearHears
  <2>3. CASE LoseServer(p) \/ Exit(p) \/ Kill(p)
    BY <1>8, <2>0, <2>3 DEF LoseServer, Exit, Kill, EndAs
  <2>4. CASE ServeGet(p)
    BY <1>8, <2>0, <2>4 DEF ServeGet
  <2>5. CASE TakeReply(p)
    BY <1>8, <2>0, <2>5 DEF TakeReply, EndAs, GetDone
  <2>6. CASE AcceptGet(p) \/ Ask(p) \/ SendName(p) \/ Ls(p) \/ \E f \in Files : Get(p, f)
    BY <2>6 DEF AcceptGet, Ask, SendName, Ls, Get
  <2> QED
    BY <2>1, <2>2, <2>3, <2>4, <2>5, <2>6 DEF ClientSteps
<1> QED
  BY <1>1, <1>2, <1>3, <1>4, <1>5, <1>6, <1>7, <1>9 DEF Moves

\* A server step, a start, and a client step, as the lemmas below take them.
ServerSteps(p) == (Accept(p) \/ Serve(p) \/ Hangup(p)) /\ UNCHANGED clientVars

\* Ports stay: what came from a process before comes from it after.
LEMMA SourceStays ==
    ASSUME UNCHANGED port
    PROVE  /\ \A row, q : Source(row, q) <=> Source(row, q)'
           /\ \A rows : Sourced(rows) <=> Sourced(rows)'
BY DEF Source, Sourced

\* A start changes no port that a row has.
LEMMA SourceAfterStart ==
    ASSUME TypeOK, NothingBeforeStart, NEW p \in Procs, Start(p)
    PROVE  /\ \A row \in Row, q \in Procs :
                  row.port # Junk /\ Source(row, q) => Source(row, q)' /\ q # p
           /\ \A rows \in Seq(Row) : Sourced(rows) => Sourced(rows)'
<1>1. port[p] = NoPort /\ \A q \in Procs \ {p} : port'[q] = port[q]
  <2>1. pc[p] = "off" /\ \E n \in FreePorts(p) : port' = [port EXCEPT ![p] = n]
    BY DEF Start
  <2> QED
    BY <2>1 DEF NothingBeforeStart, TypeOK
<1>2. ASSUME NEW row \in Row, NEW q \in Procs, row.port # Junk, Source(row, q)
      PROVE  Source(row, q)' /\ q # p
  <2>1. row.port \in Ports
    BY <1>2 DEF Row
  <2>2. q # p
    BY <1>1, <1>2, <2>1, ValuesAssumption DEF Source, NoPort
  <2> QED
    BY <1>1, <1>2, <2>2 DEF Source
<1>3. ASSUME NEW rows \in Seq(Row), Sourced(rows) PROVE Sourced(rows)'
  <2> SUFFICES ASSUME NEW i \in DOMAIN rows, rows[i].port # Junk
               PROVE  \E q \in Procs : Source(rows[i], q)'
    BY DEF Sourced
  <2>1. rows[i] \in Row
    OBVIOUS
  <2>2. PICK q \in Procs : Source(rows[i], q)
    BY <1>3 DEF Sourced
  <2> QED
    BY <1>2, <2>1, <2>2
<1> QED
  BY <1>2, <1>3

LEMMA ListSourcedServe ==
    ASSUME TypeOK, Packets, NothingBeforeStart, ListSourced,
           NEW p \in Procs, Serve(p), UNCHANGED clientVars
    PROVE  ListSourced'
<1>1. UNCHANGED port
  BY DEF clientVars
<1>2. port[p] \in Ports /\ conn[p] # "byExit" /\ (Reject(p) \/ Joins(p) \/ Replies(p) \/ Removes(p))
  BY ServeCases
<1>3. ASSUME NEW at, NEW to, NEW sent, Told(to, sent, at), NEW q \in Procs, at[q] # "byExit"
      PROVE  conn'[q] # "byExit"
  BY <1>3 DEF Told
<1> SUFFICES ASSUME NEW i \in DOMAIN list', list'[i].port # Junk
             PROVE  \E q \in Procs : Source(list'[i], q) /\ conn'[q] # "byExit"
  BY <1>1, SourceStays DEF ListSourced
<1>4. ASSUME i \in DOMAIN list, list'[i] = list[i], \A q \in Procs : conn[q] # "byExit" => conn'[q] # "byExit"
      PROVE  \E q \in Procs : Source(list'[i], q) /\ conn'[q] # "byExit"
  BY <1>4 DEF ListSourced
<1>5. CASE Reject(p)
  BY <1>4, <1>5 DEF Reject, TypeOK
<1>6. CASE Joins(p)
  <2>1. PICK first \in FillList(p, port[p]), rest \in Seq(Row) :
            /\ \A j \in DOMAIN rest : rest[j].port = Junk
            /\ list' = list \/ list' = list \o (first \o rest)
    BY <1>6 DEF Joins
  <2>2. \A q \in Procs : conn[q] # "byExit" => conn'[q] # "byExit"
    BY <1>3, <1>6 DEF Joins
  <2>3. /\ first \in Seq(Row)
        /\ \A j \in DOMAIN first : Source(first[j], p)
    BY <1>2, FillListRows DEF Source
  <2>4. list \in Seq(Row)
    BY DEF TypeOK
  <2>5. CASE i \in DOMAIN list
    BY <1>4, <2>1, <2>2, <2>3, <2>4, <2>5
  <2>6. CASE i \notin DOMAIN list
    <3> DEFINE more == first \o rest
    <3>1. more \in Seq(Row) /\ list' = list \o more
      BY <2>1, <2>3, <2>6
    <3>2. i - Len(list) \in DOMAIN more /\ list'[i] = more[i - Len(list)]
      <4> HIDE DEF more
      <4> QED
        BY <2>4, <2>6, <3>1
    <3>3. \A j \in DOMAIN more : (\E k \in DOMAIN first : more[j] = first[k]) \/ more[j].port = Junk
      <4> SUFFICES ASSUME NEW j \in DOMAIN more, j \notin DOMAIN first PROVE more[j].port = Junk
        BY <2>3
      <4>1. j - Len(first) \in DOMAIN rest /\ more[j] = rest[j - Len(first)]
        BY <2>3
      <4> QED
        BY <2>1, <4>1
    <3> QED
      BY <1>2, <2>2, <2>3, <3>2, <3>3
  <2> QED
    BY <2>5, <2>6
<1>7. CASE Replies(p)
  BY <1>3, <1>4, <1>7 DEF Replies
<1>8. CASE Removes(p)
  <2> DEFINE kept == {e \in ToSet(list) : e.owner # Name[p]}
  <2>1. list' = Only(list, kept) /\ list \in Seq(Row)
    BY <1>8 DEF Removes, RemoveFiles, TypeOK
  <2>2. PICK j \in DOMAIN list : list'[i] = list[j] /\ list[j].owner # Name[p]
    <3> HIDE DEF kept
    <3>1. \E j \in DOMAIN list : list'[i] = list[j] /\ list[j] \in kept
      BY <2>1, OnlyElements
    <3> QED
      BY <3>1 DEF kept
  <2>3. PICK q \in Procs : Source(list[j], q) /\ conn[q] # "byExit"
    BY <2>2 DEF ListSourced
  <2>4. q # p
    BY <2>2, <2>3 DEF Source
  <2>5. [conn EXCEPT ![p] = "byExit"][q] # "byExit"
    BY <2>3, <2>4 DEF TypeOK
  <2>6. conn'[q] # "byExit"
    BY <1>3, <1>8, <2>5 DEF Removes
  <2> QED
    BY <2>2, <2>3, <2>6
<1> QED
  BY <1>2, <1>5, <1>6, <1>7, <1>8

\* The rows on the list come from processes the server has not seen leave.
LEMMA ListSourcedStep ==
    ASSUME TypeOK, Packets, NothingBeforeStart, ListSourced, NEW p \in Procs,
           ServerSteps(p) \/ Start(p) \/ ClientSteps(p)
    PROVE  ListSourced'
<1>1. CASE ServerSteps(p)
  <2>1. CASE Serve(p)
    BY <1>1, <2>1, ListSourcedServe DEF ServerSteps
  <2>2. CASE Accept(p) \/ Hangup(p)
    <3>1. UNCHANGED <<port, list>> /\ \A q \in Procs : conn[q] # "byExit" => conn'[q] # "byExit"
      BY <1>1, <2>2 DEF ServerSteps, Accept, Hangup, clientVars, TypeOK
    <3> QED
      BY <3>1, SourceStays DEF ListSourced
  <2> QED
    BY <1>1, <2>1, <2>2 DEF ServerSteps
<1>2. CASE Start(p)
  <2>1. list' = list /\ list \in Seq(Row) /\ conn' = [conn EXCEPT ![p] = "backlog"]
    BY <1>2 DEF Start, TypeOK
  <2> SUFFICES ASSUME NEW i \in DOMAIN list, list[i].port # Junk
               PROVE  \E q \in Procs : Source(list[i], q)' /\ conn'[q] # "byExit"
    BY <2>1 DEF ListSourced
  <2>2. PICK q \in Procs : Source(list[i], q) /\ conn[q] # "byExit"
    BY DEF ListSourced
  <2>3. PICK row \in Row : row = list[i]
    BY <2>1
  <2>4. Source(row, q)' /\ q # p
    BY <1>2, <2>2, <2>3, SourceAfterStart
  <2>5. conn'[q] # "byExit"
    BY <2>1, <2>2, <2>4 DEF TypeOK
  <2> QED
    BY <2>1, <2>3, <2>4, <2>5
<1>3. CASE ClientSteps(p)
  <2>1. UNCHANGED <<list, conn, port>>
    BY <1>3, ClientMoves DEF Moves
  <2> QED
    BY <2>1, SourceStays DEF ListSourced
<1> QED
  BY <1>1, <1>2, <1>3

\* What a served packet sends: the list, or a rejection that closes.
LEMMA ServeSends ==
    ASSUME TypeOK, Packets, NothingBeforeStart, NEW p \in Procs, Serve(p), NEW q \in Procs
    PROVE  \/ toClient'[q] = toClient[q]
           \/ Alive(q) /\ toClient'[q] = Append(toClient[q], list')
           \/ Alive(q) /\ q = p /\ conn'[p] = "byReject" /\ toClient'[q] = Append(toClient[q], Rejection)
<1>1. CASE Reject(p)
  BY <1>1 DEF Reject, TypeOK
<1>2. CASE Joins(p) \/ Removes(p)
  BY <1>2 DEF Joins, Removes, Told
<1>3. CASE Replies(p)
  BY <1>3 DEF Replies, Told
<1> QED
  BY <1>1, <1>2, <1>3, ServeCases

\* A message more at the end.
LEMMA AppendedMessage ==
    ASSUME NEW T, NEW s \in Seq(T), NEW m, NEW i \in DOMAIN Append(s, m)
    PROVE  (i \in DOMAIN s /\ Append(s, m)[i] = s[i]) \/ Append(s, m)[i] = m
OBVIOUS

\* The rows that the clients have and will get come from processes.
LEMMA ClientsSourcedStep ==
    ASSUME TypeOK, TypeOK', Packets, NothingBeforeStart, ListSourced', ClientsSourced,
           NEW p \in Procs, ServerSteps(p) \/ Start(p) \/ ClientSteps(p)
    PROVE  ClientsSourced'
<1>1. \A q \in Procs : toClient[q] \in Seq(Message)
  BY DEF TypeOK, Message
<1>2. CASE ServerSteps(p)
  <2>1. UNCHANGED <<port, view>>
    BY <1>2 DEF ServerSteps, clientVars
  <2>2. \A rows : Sourced(rows) <=> Sourced(rows)'
    BY <2>1, SourceStays
  <2>3. CASE Serve(p)
    <3>1. \A i \in DOMAIN list' : list'[i].port # Junk => \E q \in Procs : Source(list'[i], q)
      BY <2>1 DEF ListSourced, Source
    <3>2. Sourced(list')
      BY <3>1 DEF Sourced
    <3> SUFFICES ASSUME NEW q \in Procs, NEW i \in DOMAIN toClient'[q], toClient'[q][i] # Rejection
                 PROVE  Sourced(toClient'[q][i])
      <4>1. \A q \in Procs : view'[q] # Unset => Sourced(view'[q])
        BY <2>1 DEF ClientsSourced
      <4>2. (\A q \in Procs : \A i \in DOMAIN toClient'[q] :
                 toClient'[q][i] # Rejection => Sourced(toClient'[q][i])) => ClientsSourced'
        BY <2>2, <4>1 DEF ClientsSourced
      <4> QED
        BY <4>2
    <3>3. (i \in DOMAIN toClient[q] /\ toClient'[q][i] = toClient[q][i])
          \/ toClient'[q][i] = list' \/ toClient'[q][i] = Rejection
      BY <1>1, <2>3, ServeSends, AppendedMessage
    <3>4. CASE i \in DOMAIN toClient[q] /\ toClient'[q][i] = toClient[q][i]
      BY <3>4 DEF ClientsSourced
    <3> QED
      BY <3>2, <3>3, <3>4
  <2>4. CASE Accept(p) \/ Hangup(p)
    <3>1. UNCHANGED toClient
      BY <2>4 DEF Accept, Hangup
    <3> QED
      BY <2>1, <2>2, <3>1 DEF ClientsSourced
  <2> QED
    BY <1>2, <2>3, <2>4 DEF ServerSteps
<1>3. CASE Start(p)
  <2>1. UNCHANGED <<toClient, view>>
    BY <1>3 DEF Start
  <2>2. \A rows \in Seq(Row) : Sourced(rows) => Sourced(rows)'
    BY <1>3, SourceAfterStart
  <2>3. ASSUME NEW q \in Procs, view[q] # Unset PROVE Sourced(view[q])'
    <3>1. view[q] \in Seq(Row)
      BY <2>3 DEF TypeOK
    <3>2. PICK rows \in Seq(Row) : rows = view[q]
      BY <3>1
    <3>3. Sourced(rows)'
      BY <2>2, <2>3, <3>2 DEF ClientsSourced
    <3> QED
      BY <2>1, <3>2, <3>3
  <2>4. ASSUME NEW q \in Procs, NEW i \in DOMAIN toClient[q], toClient[q][i] # Rejection
        PROVE  Sourced(toClient[q][i])'
    <3>1. toClient[q][i] \in Message
      BY <1>1
    <3>2. PICK rows \in Seq(Row) : rows = toClient[q][i]
      BY <2>4, <3>1 DEF Message
    <3>3. Sourced(rows)'
      BY <2>2, <2>4, <3>2 DEF ClientsSourced
    <3> QED
      BY <2>1, <3>2, <3>3
  <2> QED
    BY <2>1, <2>3, <2>4 DEF ClientsSourced
<1>4. CASE ClientSteps(p)
  <2>1. Moves(p)
    BY <1>4, ClientMoves
  <2>2. \A rows : Sourced(rows) <=> Sourced(rows)'
    BY <2>1, SourceStays DEF Moves
  <2>3. \A q \in Procs \ {p} : view'[q] = view[q] /\ toClient'[q] = toClient[q]
    BY <2>1 DEF Moves
  <2>4. /\ view'[p] # Unset => Sourced(view'[p])
        /\ \A i \in DOMAIN toClient'[p] : toClient'[p][i] # Rejection => Sourced(toClient'[p][i])
    <3>1. CASE toClient'[p] = toClient[p] /\ view'[p] = view[p]
      BY <3>1 DEF ClientsSourced
    <3>2. CASE toClient'[p] = <<>> /\ view'[p] = Unset
      BY <3>2
    <3>3. CASE Hears(p)
      <4>1. PICK seqs \in Seq(Seq(Row)) :
                /\ seqs # <<>> /\ Len(seqs) <= Len(toClient[p])
                /\ \A i \in 1..Len(seqs) : seqs[i] = Rows(toClient[p][i])
                /\ view'[p] = FlattenSeq(seqs)
                /\ toClient'[p] = SubSeq(toClient[p], Len(seqs) + 1, Len(toClient[p]))
        BY <3>3 DEF Hears
      <4>2. \A i \in DOMAIN toClient'[p] : /\ i + Len(seqs) \in DOMAIN toClient[p]
                                           /\ toClient'[p][i] = toClient[p][i + Len(seqs)]
        BY <1>1, <4>1
      <4>3. \A i \in DOMAIN toClient'[p] : toClient'[p][i] # Rejection => Sourced(toClient'[p][i])
        BY <4>2 DEF ClientsSourced
      <4>4. \A i \in DOMAIN seqs : Sourced(seqs[i])
        <5> SUFFICES ASSUME NEW i \in DOMAIN seqs PROVE Sourced(seqs[i])
          OBVIOUS
        <5>1. i \in 1..Len(seqs) /\ i \in DOMAIN toClient[p]
          BY <1>1, <4>1
        <5>2. seqs[i] = Rows(toClient[p][i])
          BY <4>1, <5>1
        <5>3. CASE toClient[p][i] = Rejection
          BY <5>2, <5>3 DEF Rows, Sourced
        <5>4. CASE toClient[p][i] # Rejection
          BY <5>1, <5>2, <5>4 DEF Rows, ClientsSourced
        <5> QED
          BY <5>3, <5>4
      <4>5. Sourced(FlattenSeq(seqs))
        <5> SUFFICES ASSUME NEW i \in DOMAIN FlattenSeq(seqs), FlattenSeq(seqs)[i].port # Junk
                     PROVE  \E q \in Procs : Source(FlattenSeq(seqs)[i], q)
          BY DEF Sourced
        <5>1. PICK k \in DOMAIN seqs : \E j \in DOMAIN seqs[k] : FlattenSeq(seqs)[i] = seqs[k][j]
          BY FlattenElements
        <5> QED
          BY <4>4, <5>1 DEF Sourced
      <4> QED
        BY <4>1, <4>3, <4>5
    <3> QED
      BY <2>1, <3>1, <3>2, <3>3 DEF Moves
  <2>5. \A q \in Procs :
          /\ view'[q] # Unset => Sourced(view'[q])
          /\ \A i \in DOMAIN toClient'[q] : toClient'[q][i] # Rejection => Sourced(toClient'[q][i])
    BY <2>3, <2>4 DEF ClientsSourced
  <2> QED
    BY <2>2, <2>5 DEF ClientsSourced
<1> QED
  BY <1>2, <1>3, <1>4

-----------------------------------------------------------------------------
(* Packets, connections and ports *)

\* No step of the server opens a connection again or puts one back in the
\* backlog, and a connection that is closed stays closed.
LEMMA ServeConns ==
    ASSUME TypeOK, Packets, NothingBeforeStart, NEW p \in Procs, Serve(p), NEW q \in Procs
    PROVE  \/ conn'[q] = conn[q]
           \/ conn'[q] = "reset" /\ conn[q] \in {"open", "reset"}
           \/ conn'[q] = "none" /\ server' = "killed"
           \/ q = p /\ conn'[q] \in {"byReject", "byExit"}
<1>1. server = "up" /\ conn[p] \in {"open", "reset"} /\ DOMAIN conn = Procs
  BY ServeCases DEF TypeOK
<1>2. CASE Reject(p)
  BY <1>1, <1>2 DEF Reject
<1>3. CASE Joins(p)
  BY <1>3 DEF Joins, Told, Connected
<1>4. CASE Replies(p)
  BY <1>1, <1>4 DEF Replies, Told
<1>5. CASE Removes(p)
  <2> DEFINE at == [conn EXCEPT ![p] = "byExit"]
  <2>1. Told(Connected(at), list', at)
    BY <1>5 DEF Removes
  <2>2. at[q] = IF q = p THEN "byExit" ELSE conn[q]
    BY <1>1
  <2> HIDE DEF at
  <2>3. \/ conn'[q] = at[q]
        \/ at[q] \in {"open", "reset"} /\ conn'[q] = "reset"
        \/ server' = "killed" /\ conn'[q] = "none"
    BY <2>1 DEF Told, Connected
  <2> QED
    BY <2>2, <2>3
<1> QED
  BY <1>2, <1>3, <1>4, <1>5, ServeCases

\* The packets on their way keep their form.
LEMMA PacketsStep ==
    ASSUME TypeOK, Packets, NothingBeforeStart, NEW p \in Procs,
           ServerSteps(p) \/ Start(p) \/ ClientSteps(p)
    PROVE  Packets'
<1>0. \A q \in Procs : toServer[q] \in Seq(Packet)
  BY DEF TypeOK
<1>1. CASE ServerSteps(p)
  <2>1. UNCHANGED port
    BY <1>1 DEF ServerSteps, clientVars
  <2>2. CASE Serve(p)
    <3>1. Reads(p)
      BY <2>2, ServeCases
    <3>2. ASSUME NEW i \in DOMAIN toServer'[p]
          PROVE  \/ toServer'[p][i].command = "b"
                    /\ toServer'[p][i].rows = <<Entry(Junk, Junk, Junk)>>
                 \/ toServer'[p][i].command = "c"
                    /\ toServer'[p][i].rows = <<Entry(Junk, Name[p], Junk)>>
      <4>1. PICK j \in 2..Len(toServer[p]) : toServer'[p][i] = toServer[p][j]
        BY <3>1 DEF Reads
      <4>2. j \in DOMAIN toServer[p] /\ j # 1
        BY <1>0, <4>1
      <4> QED
        BY <4>1, <4>2 DEF Packets
    <3> QED
      BY <2>1, <3>1, <3>2 DEF Packets, Reads
  <2>3. CASE Accept(p) \/ Hangup(p)
    BY <2>1, <2>3 DEF Accept, Hangup, Packets
  <2> QED
    BY <1>1, <2>2, <2>3 DEF ServerSteps
<1>2. CASE Start(p)
  <2>1. PICK n \in Ports : /\ port' = [port EXCEPT ![p] = n]
               /\ \E rows \in FillList(p, n) :
                      toServer' = [toServer EXCEPT ![p] = <<[command |-> "a", rows |-> rows]>>]
    BY <1>2, TypeStart
  <2>2. PICK rows \in FillList(p, n) :
            toServer' = [toServer EXCEPT ![p] = <<[command |-> "a", rows |-> rows]>>]
    BY <2>1
  <2> DEFINE m == [command |-> "a", rows |-> rows]
  <2>3. toServer'[p] = <<m>> /\ port'[p] = n /\ m.command = "a" /\ m.rows = rows
    BY <2>1, <2>2 DEF TypeOK
  <2>4. \A q \in Procs \ {p} : toServer'[q] = toServer[q] /\ port'[q] = port[q]
    BY <2>1, <2>2 DEF TypeOK
  <2> HIDE DEF m
  <2>5. DOMAIN toServer'[p] = {1} /\ toServer'[p][1] = m
    BY <2>3
  <2> QED
    BY <2>2, <2>3, <2>4, <2>5 DEF Packets
<1>3. CASE ClientSteps(p)
  <2>1. Moves(p)
    BY <1>3, ClientMoves
  <2>2. port' = port /\ \A q \in Procs \ {p} : toServer'[q] = toServer[q]
    BY <2>1 DEF Moves
  <2>3. CASE toServer'[p] = toServer[p]
    BY <2>2, <2>3 DEF Packets
  <2>4. CASE toServer'[p] # toServer[p]
    <3>1. PICK m : /\ toServer'[p] = Append(toServer[p], m)
                   /\ \/ m.command = "b" /\ m.rows = <<Entry(Junk, Junk, Junk)>>
                      \/ m.command = "c" /\ m.rows = <<Entry(Junk, Name[p], Junk)>>
      BY <2>1, <2>4 DEF Moves
    <3>2. \A i \in DOMAIN toServer'[p] :
              (i \in DOMAIN toServer[p] /\ toServer'[p][i] = toServer[p][i]) \/ toServer'[p][i] = m
      BY <1>0, <3>1, AppendedMessage
    <3> QED
      BY <2>2, <3>1, <3>2 DEF Packets
  <2> QED
    BY <2>3, <2>4
<1> QED
  BY <1>1, <1>2, <1>3

\* The connect packet waits with the connection.
LEMMA BacklogStep ==
    ASSUME TypeOK, Packets, NothingBeforeStart, BacklogHasA, NEW p \in Procs,
           ServerSteps(p) \/ Start(p) \/ ClientSteps(p)
    PROVE  BacklogHasA'
<1>0. \A q \in Procs : toServer[q] \in Seq(Packet)
  BY DEF TypeOK
<1>1. CASE ServerSteps(p)
  <2>1. CASE Serve(p)
    <3>1. \A q \in Procs : conn'[q] = "backlog" => conn[q] = "backlog" /\ q # p
      BY <2>1, ServeConns, ServeCases
    <3> QED
      BY <2>1, <3>1, ServeCases DEF Reads, BacklogHasA
  <2>2. CASE Accept(p) \/ Hangup(p)
    BY <2>2 DEF Accept, Hangup, BacklogHasA, TypeOK
  <2> QED
    BY <1>1, <2>1, <2>2 DEF ServerSteps
<1>2. CASE Start(p)
  <2>1. PICK rows : toServer' = [toServer EXCEPT ![p] = <<[command |-> "a", rows |-> rows]>>]
    BY <1>2, TypeStart
  <2> DEFINE m == [command |-> "a", rows |-> rows]
  <2>2. toServer'[p] = <<m>> /\ m.command = "a"
        /\ \A q \in Procs \ {p} : toServer'[q] = toServer[q] /\ conn'[q] = conn[q]
    BY <1>2, <2>1 DEF TypeOK, Start
  <2> HIDE DEF m
  <2>3. toServer'[p] # <<>> /\ toServer'[p][1].command = "a"
    BY <2>2
  <2> QED
    BY <2>2, <2>3 DEF BacklogHasA
<1>3. CASE ClientSteps(p)
  <2>1. conn' = conn /\ \A q \in Procs \ {p} : toServer'[q] = toServer[q]
    BY <1>3, ClientMoves DEF Moves
  <2>2. toServer'[p] = toServer[p] \/ \E m : toServer'[p] = Append(toServer[p], m)
    BY <1>3, ClientMoves DEF Moves
  <2>3. toServer[p] # <<>> => toServer'[p] # <<>> /\ toServer'[p][1] = toServer[p][1]
    BY <1>0, <2>2
  <2> QED
    BY <2>1, <2>3 DEF BacklogHasA
<1> QED
  BY <1>1, <1>2, <1>3

\* Nothing happens to what has not been started.
LEMMA NothingBeforeStartStep ==
    ASSUME TypeOK, Packets, NothingBeforeStart, NEW p \in Procs,
           ServerSteps(p) \/ Start(p) \/ ClientSteps(p)
    PROVE  NothingBeforeStart'
<1>1. CASE ServerSteps(p)
  <2>1. UNCHANGED port /\ pc' = pc
    BY <1>1 DEF ServerSteps, clientVars, Accept, Hangup, Serve
  <2>2. CASE Serve(p)
    <3>1. pc[p] # "off"
      BY <2>2, ServeCases DEF NothingBeforeStart
    <3>2. ASSUME NEW q \in Procs, pc[q] = "off"
          PROVE  conn'[q] = "none" /\ toServer'[q] = <<>> /\ toClient'[q] = <<>>
      <4>1. q # p /\ conn[q] = "none" /\ toServer[q] = <<>> /\ toClient[q] = <<>> /\ ~Alive(q)
        BY <3>1, <3>2 DEF NothingBeforeStart, Alive
      <4>2. conn'[q] = "none"
        BY <2>2, <4>1, ServeConns
      <4>3. toServer'[q] = <<>>
        BY <2>2, <4>1, ServeCases DEF Reads
      <4>4. toClient'[q] = <<>>
        BY <2>2, <4>1, ServeSends
      <4> QED
        BY <4>2, <4>3, <4>4
    <3> QED
      BY <2>1, <3>2 DEF NothingBeforeStart
  <2>3. CASE Accept(p) \/ Hangup(p)
    BY <2>1, <2>3 DEF Accept, Hangup, NothingBeforeStart, TypeOK
  <2> QED
    BY <1>1, <2>2, <2>3 DEF ServerSteps
<1>2. CASE Start(p)
  <2>1. PICK n \in Ports : port' = [port EXCEPT ![p] = n]
    BY <1>2, TypeStart
  <2>2. pc'[p] # "off" /\ port'[p] # NoPort
    BY <1>2, <2>1, ValuesAssumption DEF Start, TypeOK, NoPort
  <2>3. \A q \in Procs \ {p} : /\ pc'[q] = pc[q] /\ port'[q] = port[q] /\ conn'[q] = conn[q]
                               /\ toServer'[q] = toServer[q] /\ toClient'[q] = toClient[q]
    BY <1>2, <2>1 DEF Start, TypeOK
  <2> QED
    BY <2>2, <2>3 DEF NothingBeforeStart
<1>3. CASE ClientSteps(p)
  <2>1. Moves(p)
    BY <1>3, ClientMoves
  <2>2. pc[p] # "off" /\ pc'[p] # "off"
    BY <2>1 DEF Moves, Alive
  <2> QED
    BY <2>1, <2>2 DEF Moves, NothingBeforeStart
<1> QED
  BY <1>1, <1>2, <1>3

\* Two living processes never have the same port.
LEMMA PortsGivenStep ==
    ASSUME TypeOK, NothingBeforeStart, PortsGiven, NEW p \in Procs,
           ServerSteps(p) \/ Start(p) \/ ClientSteps(p)
    PROVE  PortsGiven'
<1>1. CASE ServerSteps(p)
  BY <1>1 DEF ServerSteps, clientVars, Accept, Hangup, Serve, PortsGiven, Alive
<1>2. CASE Start(p)
  <2>1. PICK n \in FreePorts(p) : n \in Ports /\ port' = [port EXCEPT ![p] = n]
    BY <1>2, TypeStart
  <2>2. pc[p] = "off" /\ pc' = [pc EXCEPT ![p] = "idle"]
    BY <1>2 DEF Start
  <2>3. port'[p] = n /\ pc'[p] # "off"
        /\ \A q \in Procs \ {p} : port'[q] = port[q] /\ pc'[q] = pc[q]
    BY <2>1, <2>2 DEF TypeOK
  <2>4. n = Port[p] \/ ((\E q \in Procs : n = port[q]) /\ \A q \in Procs : ~Listens(q, n))
    BY DEF FreePorts
  <2>5. ASSUME NEW q \in Procs, NEW r \in Procs, port'[q] = Port[r] PROVE pc'[r] # "off"
    <3>1. CASE q # p
      BY <2>3, <2>5, <3>1 DEF PortsGiven
    <3>2. CASE q = p /\ n = Port[p]
      BY <2>3, <2>5, <3>2, PortAssumption
    <3>3. CASE q = p /\ \E s \in Procs : n = port[s]
      BY <2>3, <2>5, <3>3 DEF PortsGiven
    <3> QED
      BY <2>4, <3>1, <3>2, <3>3
  <2>6. \A q \in Procs \ {p} : Alive(q) => port[q] # n
    BY <2>2, <2>4 DEF PortsGiven, Listens
  <2>7. \A q \in Procs \ {p} : Alive(q)' <=> Alive(q)
    BY <2>3 DEF Alive
  <2>8. ASSUME NEW q \in Procs, NEW r \in Procs, Alive(q)', Alive(r)', port'[q] = port'[r] PROVE q = r
    <3>1. CASE q # p /\ r # p
      BY <2>3, <2>7, <2>8, <3>1 DEF PortsGiven
    <3>2. CASE (q = p /\ r # p) \/ (q # p /\ r = p)
      BY <2>3, <2>6, <2>7, <2>8, <3>2
    <3> QED
      BY <3>1, <3>2
  <2> QED
    BY <2>5, <2>8 DEF PortsGiven
<1>3. CASE ClientSteps(p)
  <2>1. Moves(p)
    BY <1>3, ClientMoves
  <2>2. port' = port /\ \A q \in Procs : (Alive(q)' => Alive(q)) /\ (pc[q] # "off" => pc'[q] # "off")
    BY <2>1 DEF Moves, Alive
  <2> QED
    BY <2>2 DEF PortsGiven
<1> QED
  BY <1>1, <1>2, <1>3

\* Behind a rejection the connection is closed.
LEMMA RejectionsStep ==
    ASSUME TypeOK, TypeOK', Packets, NothingBeforeStart, RejectionsClose, NEW p \in Procs,
           ServerSteps(p) \/ Start(p) \/ ClientSteps(p)
    PROVE  RejectionsClose'
<1>0. /\ \A q \in Procs : toClient[q] \in Seq(Message)
      /\ list' # Rejection
  BY ValuesAssumption DEF TypeOK, Message
<1>1. CASE ServerSteps(p)
  <2>1. CASE Serve(p)
    <3> SUFFICES ASSUME NEW q \in Procs, NEW i \in DOMAIN toClient'[q], toClient'[q][i] = Rejection
                 PROVE  conn'[q] \in {"byReject", "none"}
      BY DEF RejectionsClose
    <3>1. CASE q = p /\ conn'[p] = "byReject"
      BY <3>1
    <3>2. CASE i \in DOMAIN toClient[q] /\ toClient'[q][i] = toClient[q][i]
      <4>1. conn[q] \in {"byReject", "none"} /\ conn[p] \in {"open", "reset"}
        BY <2>1, <3>2, ServeCases DEF RejectionsClose
      <4> QED
        BY <2>1, <4>1, ServeConns
    <3>3. CASE toClient'[q][i] = list'
      BY <1>0, <3>3
    <3> QED
      BY <1>0, <2>1, <3>1, <3>2, <3>3, ServeSends, AppendedMessage
  <2>2. CASE Accept(p) \/ Hangup(p)
    BY <2>2 DEF Accept, Hangup, RejectionsClose, TypeOK
  <2> QED
    BY <1>1, <2>1, <2>2 DEF ServerSteps
<1>2. CASE Start(p)
  <2>1. toClient' = toClient /\ toClient[p] = <<>> /\ conn' = [conn EXCEPT ![p] = "backlog"]
    BY <1>2 DEF Start, NothingBeforeStart
  <2> QED
    BY <2>1 DEF RejectionsClose, TypeOK
<1>3. CASE ClientSteps(p)
  <2>1. Moves(p)
    BY <1>3, ClientMoves
  <2>2. \A i \in DOMAIN toClient'[p] : \E j \in DOMAIN toClient[p] : toClient'[p][i] = toClient[p][j]
    <3>1. CASE Hears(p)
      <4>1. PICK seqs \in Seq(Seq(Row)) :
                toClient'[p] = SubSeq(toClient[p], Len(seqs) + 1, Len(toClient[p]))
        BY <3>1 DEF Hears
      <4>2. \A i \in DOMAIN toClient'[p] : i + Len(seqs) \in DOMAIN toClient[p]
                                           /\ toClient'[p][i] = toClient[p][i + Len(seqs)]
        BY <1>0, <4>1
      <4> QED
        BY <4>2
    <3>2. CASE toClient'[p] = <<>>
      BY <3>2
    <3>3. CASE toClient'[p] = toClient[p]
      BY <3>3
    <3> QED
      BY <2>1, <3>1, <3>2, <3>3 DEF Moves
  <2> QED
    BY <2>1, <2>2 DEF Moves, RejectionsClose
<1> QED
  BY <1>1, <1>2, <1>3

-----------------------------------------------------------------------------
(* Gets *)

\* The connection that p makes.
Asked(p) == [from |-> p, file |-> getting[p].file, named |-> FALSE]

\* A client's step in its gets: requests disappear, get their name, or one is
\* added where the get goes; the get is forgotten, kept, or begun with a row
\* of the list.
Gets(p) ==
    /\ \/ getting'[p] \in {NoGet, getting[p]}
       \/ \E f \in Files : \E i \in DOMAIN view[p] :
              /\ view[p] # Unset /\ view[p][i].file = f /\ view[p][i].port # Junk
              /\ getting'[p] = [port |-> view[p][i].port, file |-> f]
    /\ \A q \in Procs \ {p} : getting'[q] = getting[q]
    /\ \A q \in Procs :
          \/ getQ'[q] = getQ[q] /\ (Alive(q) => Alive(q)')
          \/ getQ'[q] = <<>>
          \/ getQ[q] # <<>> /\ getQ'[q] = Tail(getQ[q]) /\ Alive(q)'
          \/ getQ'[q] = Named(p)[q] /\ (Alive(q) => Alive(q)')
          \/ /\ getting[p] # NoGet /\ Listens(q, getting[p].port) /\ Alive(q)'
             /\ getQ'[q] = Append(getQ[q], Asked(p))

LEMMA ClientGets ==
    ASSUME TypeOK, NEW p \in Procs, ClientSteps(p)
    PROVE  Gets(p)
<1> USE DEF Reacts
<1>0. DOMAIN getting = Procs /\ DOMAIN getQ = Procs /\ DOMAIN pc = Procs
  BY DEF TypeOK
<1>1. ASSUME NEW how, NEW closed, EndIn(p, how, closed)
      PROVE  Gets(p)
  <2>1. getQ' = [getQ EXCEPT ![p] = <<>>] /\ getting' = [getting EXCEPT ![p] = NoGet]
        /\ pc' = [pc EXCEPT ![p] = how]
    BY <1>1 DEF EndIn
  <2>2. \A q \in Procs : IF q = p THEN getQ'[q] = <<>> ELSE getQ'[q] = getQ[q] /\ pc'[q] = pc[q]
    BY <1>0, <2>1
  <2>3. getting'[p] = NoGet /\ \A q \in Procs \ {p} : getting'[q] = getting[q]
    BY <1>0, <2>1
  <2> QED
    BY <2>2, <2>3 DEF Gets, Alive
<1>2. ASSUME UNCHANGED <<getting, getQ>>, \A q \in Procs : Alive(q) => Alive(q)'
      PROVE  Gets(p)
  BY <1>2 DEF Gets
<1>3. CASE Hear(p) \/ LoseServer(p) \/ Exit(p) \/ Kill(p)
  <2>1. EndAs(p, "rejected") \/ EndAs(p, "lost") \/ EndAs(p, "exited") \/ EndAs(p, "killed")
        \/ UNCHANGED <<pc, getQ, getting>>
    BY <1>3 DEF Hear, LoseServer, Exit, Kill
  <2> QED
    BY <1>1, <1>2, <2>1 DEF EndAs, Alive
<1>4. CASE ServeGet(p)
  <2>1. CASE EndIn(p, "crashed", {Head(getQ[p]).from})
    BY <1>1, <2>1
  <2>2. CASE getQ' = [getQ EXCEPT ![p] = Tail(@)] /\ pc' = [pc EXCEPT ![p] = "idle"] /\ UNCHANGED getting
    <3>1. getQ[p] # <<>> /\ Alive(p)
      BY <1>4 DEF ServeGet, Alive, Ended
    <3>2. \A q \in Procs : IF q = p THEN getQ'[q] = Tail(getQ[q]) ELSE getQ'[q] = getQ[q]
      BY <1>0, <2>2
    <3>3. \A q \in Procs : Alive(q) => Alive(q)'
      BY <1>0, <2>2 DEF Alive, Ended
    <3> QED
      BY <2>2, <3>1, <3>2, <3>3 DEF Gets
  <2> QED
    BY <1>4, <2>1, <2>2 DEF ServeGet
<1>5. CASE Ask(p)
  <2>1. pc[p] = "asking" /\ getting[p] # NoGet
    BY <1>5 DEF Ask, TypeOK
  <2>2. pc' = [pc EXCEPT ![p] = "naming"] \/ pc' = [pc EXCEPT ![p] = "idle"]
    BY <1>5 DEF Ask
  <2>3. \A q \in Procs : Alive(q) => Alive(q)'
    BY <1>0, <2>1, <2>2 DEF Alive, Ended
  <2>4. CASE UNCHANGED getQ /\ getting' = [getting EXCEPT ![p] = NoGet]
    BY <1>0, <2>3, <2>4 DEF Gets
  <2>5. CASE \E q \in Procs : Listens(q, getting[p].port) /\ Request(p, q) /\ getting' = getting
    <3>1. PICK q \in Procs : Listens(q, getting[p].port) /\ Request(p, q) /\ getting' = getting
      BY <2>5
    <3>2. getQ' = [getQ EXCEPT ![q] = Append(@, Asked(p))]
      BY <3>1 DEF Request, Asked
    <3>3. Alive(q)'
      BY <2>3, <3>1 DEF Listens
    <3>4. \A r \in Procs :
             IF r = q THEN getQ'[r] = Append(getQ[r], Asked(p))
             ELSE getQ'[r] = getQ[r]
      BY <1>0, <3>2
    <3> QED
      BY <2>1, <2>3, <3>1, <3>3, <3>4 DEF Gets
  <2> QED
    BY <1>5, <2>4, <2>5 DEF Ask, NoConnection
<1>6. CASE TakeReply(p)
  <2>1. CASE EndAs(p, "crashed")
    BY <1>1, <2>1 DEF EndAs
  <2>2. CASE GetDone(p)
    <3>1. pc' = [pc EXCEPT ![p] = "idle"] /\ getting' = [getting EXCEPT ![p] = NoGet] /\ getQ' = getQ
      BY <2>2 DEF GetDone
    <3>2. \A q \in Procs : Alive(q) => Alive(q)'
      BY <1>0, <3>1 DEF Alive, Ended
    <3> QED
      BY <1>0, <3>1, <3>2 DEF Gets
  <2> QED
    BY <1>6, <2>1, <2>2 DEF TakeReply
<1>7. CASE Ls(p)
  BY <1>2, <1>7 DEF Ls, Alive
<1>8. CASE \E f \in Files : Get(p, f)
  <2>1. PICK f \in Files : Get(p, f)
    BY <1>8
  <2>2. PICK i \in DOMAIN view[p] :
            /\ view[p][i].file = f /\ view[p][i].port # Junk
            /\ getting' = [getting EXCEPT ![p] = [port |-> view[p][i].port, file |-> f]]
    BY <2>1 DEF Get, CheckFile
  <2>3. /\ getting'[p] = [port |-> view[p][i].port, file |-> f]
        /\ \A q \in Procs \ {p} : getting'[q] = getting[q]
    BY <1>0, <2>2
  <2>4. view[p] # Unset /\ getQ' = getQ /\ pc' = [pc EXCEPT ![p] = "asking"]
    BY <2>1 DEF Get
  <2>5. \A q \in Procs : Alive(q) => Alive(q)'
    BY <1>0, <2>4 DEF Alive, Ended
  <2> QED
    BY <2>2, <2>3, <2>4, <2>5 DEF Gets
<1>9. CASE AcceptGet(p)
  <2>1. pc' = [pc EXCEPT ![p] = "serving"] /\ UNCHANGED <<getting, getQ>>
    BY <1>9 DEF AcceptGet
  <2>2. \A q \in Procs : Alive(q) => Alive(q)'
    BY <1>0, <2>1 DEF Alive, Ended
  <2> QED
    BY <1>2, <2>1, <2>2
<1>10. CASE SendName(p)
  <2>1. pc' = [pc EXCEPT ![p] = "getting"] \/ pc' = [pc EXCEPT ![p] = "idle"]
    BY <1>10 DEF SendName
  <2>2. \A q \in Procs : Alive(q) => Alive(q)'
    BY <1>0, <2>1 DEF Alive, Ended
  <2>3. CASE getQ' = Named(p) /\ getting' = getting
    BY <2>2, <2>3 DEF Gets
  <2>4. CASE getQ' = getQ /\ getting' = [getting EXCEPT ![p] = NoGet]
    BY <1>0, <2>2, <2>4 DEF Gets
  <2> QED
    BY <1>10, <2>3, <2>4 DEF SendName
<1> QED
  BY <1>3, <1>4, <1>5, <1>6, <1>7, <1>8, <1>9, <1>10 DEF ClientSteps

\* Requests are for files of a process that had the port.
LEMMA AskedForSharedStep ==
    ASSUME TypeOK, NothingBeforeStart, ClientsSourced, AskedForShared, NEW p \in Procs,
           ServerSteps(p) \/ Start(p) \/ ClientSteps(p)
    PROVE  AskedForShared'
<1>0. \A q \in Procs : getQ[q] \in Seq(Connection)
  BY DEF TypeOK
<1>1. CASE ServerSteps(p)
  BY <1>1 DEF ServerSteps, clientVars, Accept, Hangup, Serve, AskedForShared, Alive
<1>2. CASE Start(p)
  <2>1. PICK n \in Ports : port' = [port EXCEPT ![p] = n]
    BY <1>2, TypeStart
  <2>2. pc[p] = "off" /\ pc' = [pc EXCEPT ![p] = "idle"] /\ UNCHANGED <<getting, getQ>>
    BY <1>2 DEF Start
  <2>3. port[p] = NoPort /\ \A q \in Procs \ {p} : port'[q] = port[q] /\ pc'[q] = pc[q]
    BY <2>1, <2>2 DEF NothingBeforeStart, TypeOK
  <2>4. \A q \in Procs : getting[q] # NoGet => getting[q].port # NoPort
    BY ValuesAssumption DEF TypeOK, NoPort
  <2>5. \A q \in Procs : getQ[q] # <<>> => q # p /\ port[q] # NoPort /\ Alive(q)'
    BY <2>2, <2>3 DEF AskedForShared, NothingBeforeStart, Alive
  <2>6. ASSUME NEW q \in Procs, getting'[q] # NoGet
        PROVE  \E r \in Procs : port'[r] = getting'[q].port /\ getting'[q].file \in ToSet(Shared[r])
    <3>1. PICK r \in Procs : port[r] = getting[q].port /\ getting[q].file \in ToSet(Shared[r])
      BY <2>2, <2>6 DEF AskedForShared
    <3> QED
      BY <2>2, <2>3, <2>4, <2>6, <3>1
  <2>7. ASSUME NEW q \in Procs, NEW i \in DOMAIN getQ[q]
        PROVE  \E r \in Procs : port'[r] = port'[q] /\ getQ[q][i].file \in ToSet(Shared[r])
    <3>1. q # p /\ port[q] # NoPort
      BY <2>5, <2>7
    <3>2. PICK r \in Procs : port[r] = port[q] /\ getQ[q][i].file \in ToSet(Shared[r])
      BY <2>7 DEF AskedForShared
    <3> QED
      BY <2>3, <3>1, <3>2
  <2> QED
    BY <2>2, <2>5, <2>6, <2>7 DEF AskedForShared
<1>3. CASE ClientSteps(p)
  <2>1. Gets(p) /\ port' = port
    BY <1>3, ClientGets, ClientMoves DEF Moves
  <2>2. ASSUME NEW q \in Procs, getting'[q] # NoGet
        PROVE  \E r \in Procs : port[r] = getting'[q].port /\ getting'[q].file \in ToSet(Shared[r])
    <3>1. CASE getting'[q] = getting[q]
      BY <2>2, <3>1 DEF AskedForShared
    <3>2. CASE getting'[q] # getting[q]
      <4>1. q = p
        BY <2>1, <2>2, <3>2 DEF Gets
      <4>2. PICK f \in Files, i \in DOMAIN view[p] :
                /\ view[p] # Unset /\ view[p][i].file = f /\ view[p][i].port # Junk
                /\ getting'[p] = [port |-> view[p][i].port, file |-> f]
        BY <2>1, <2>2, <3>2, <4>1 DEF Gets
      <4>3. PICK r \in Procs : Source(view[p][i], r)
        BY <4>2 DEF ClientsSourced, Sourced
      <4> QED
        BY <4>1, <4>2, <4>3 DEF Source
    <3> QED
      BY <3>1, <3>2
  <2>3. ASSUME NEW q \in Procs
        PROVE  /\ getQ'[q] # <<>> => Alive(q)'
               /\ \A i \in DOMAIN getQ'[q] :
                     \E r \in Procs : port[r] = port[q] /\ getQ'[q][i].file \in ToSet(Shared[r])
    <3>1. CASE getQ'[q] = <<>>
      BY <3>1
    <3>2. CASE getQ'[q] = getQ[q] /\ (Alive(q) => Alive(q)')
      BY <3>2 DEF AskedForShared
    <3>3. CASE getQ[q] # <<>> /\ getQ'[q] = Tail(getQ[q]) /\ Alive(q)'
      <4>1. \A i \in DOMAIN getQ'[q] : i + 1 \in DOMAIN getQ[q] /\ getQ'[q][i] = getQ[q][i + 1]
        BY <1>0, <3>3
      <4> QED
        BY <3>3, <4>1 DEF AskedForShared
    <3>4. CASE /\ getting[p] # NoGet /\ Listens(q, getting[p].port) /\ Alive(q)'
               /\ getQ'[q] = Append(getQ[q], Asked(p))
      <4>1. PICK r \in Procs : port[r] = getting[p].port /\ getting[p].file \in ToSet(Shared[r])
        BY <3>4 DEF AskedForShared
      <4>2. port[q] = getting[p].port
        BY <3>4 DEF Listens
      <4> DEFINE ask == Asked(p)
      <4>3. ask.file = getting[p].file /\ getQ'[q] = Append(getQ[q], ask)
        BY <3>4 DEF Asked
      <4> HIDE DEF ask
      <4>4. \A i \in DOMAIN getQ'[q] :
                (i \in DOMAIN getQ[q] /\ getQ'[q][i] = getQ[q][i]) \/ getQ'[q][i] = ask
        BY <1>0, <4>3, AppendedMessage
      <4> QED
        BY <3>4, <4>1, <4>2, <4>3, <4>4 DEF AskedForShared
    <3>5. CASE getQ'[q] = Named(p)[q] /\ (Alive(q) => Alive(q)')
      <4>1. \A i \in DOMAIN getQ'[q] : i \in DOMAIN getQ[q] /\ getQ'[q][i].file = getQ[q][i].file
        BY <3>5, NamedType DEF TypeOK
      <4>2. getQ'[q] # <<>> => getQ[q] # <<>>
        BY <1>0, <3>5, <4>1, NamedType DEF TypeOK
      <4> QED
        BY <3>5, <4>1, <4>2 DEF AskedForShared
    <3> QED
      BY <2>1, <3>1, <3>2, <3>3, <3>4, <3>5 DEF Gets
  <2> QED
    BY <2>1, <2>2, <2>3 DEF AskedForShared
<1> QED
  BY <1>1, <1>2, <1>3

\* Nobody loses a file of its own.
LEMMA OwnFilesStayStep ==
    ASSUME TypeOK, OwnFilesStay, NEW p \in Procs,
           ServerSteps(p) \/ Start(p) \/ ClientSteps(p)
    PROVE  OwnFilesStay'
<1>1. CASE TakeReply(p)
  <2>1. PICK content \in {"whole", "part", "garbage", "empty"} : Write(p, content)
    BY <1>1, ReceivedType, TypeParts DEF TakeReply
  <2>2. pc[p] = "getting" /\ getting[p].file \in Files
    BY <1>1 DEF TakeReply, TypeOK
  <2>3. \A q \in Procs, f \in Files : dir'[q][f] = dir[q][f] \/ dir'[q][f] = content
    BY <2>1, <2>2 DEF Write, TypeOK
  <2>4. \A q \in Procs : ToSet(Shared[q]) \subseteq Files
    BY DEF Files
  <2> QED
    BY <2>3, <2>4 DEF OwnFilesStay
<1>2. CASE ~TakeReply(p)
  <2>1. dir' = dir
    BY <1>2 DEF ServerSteps, clientVars, ClientSteps, Reacts, Hear, LoseServer, AcceptGet,
           ServeGet, Ask, SendName, Ls, Exit, Kill, Get, Start
  <2> QED
    BY <2>1 DEF OwnFilesStay
<1> QED
  BY <1>1, <1>2

-----------------------------------------------------------------------------
(* Who is listed *)

\* The two sides of ListedWhileJoined.
NamesakesStay(p) == \A q \in Procs : Name[q] = Name[p] => conn[q] # "byExit"
Listed(p) ==
    \A f \in ToSet(Shared[p]) : \E i \in DOMAIN list : list[i] = Entry(f, Name[p], port[p])

\* A served exit closes its connection.
LEMMA RemovesCloses ==
    ASSUME TypeOK, NEW p \in Procs, Removes(p), server' = "up"
    PROVE  conn'[p] = "byExit"
<1> DEFINE at == [conn EXCEPT ![p] = "byExit"]
<1>1. at[p] = "byExit"
  BY DEF TypeOK
<1>2. Told(Connected(at), list', at)
  BY DEF Removes
<1> HIDE DEF at
<1> QED
  BY <1>1, <1>2 DEF Told, Connected

\* What an exit of another name and a join leave on the list.
LEMMA ListKeeps ==
    ASSUME TypeOK, Packets, NothingBeforeStart, NEW p \in Procs, Serve(p),
           NEW i \in DOMAIN list, Removes(p) => list[i].owner # Name[p]
    PROVE  \E j \in DOMAIN list' : list'[j] = list[i]
<1>0. list \in Seq(Row) /\ port[p] \in Ports /\ (Reject(p) \/ Joins(p) \/ Replies(p) \/ Removes(p))
  BY ServeCases DEF TypeOK
<1>1. CASE Reject(p) \/ Replies(p)
  BY <1>1 DEF Reject, Replies
<1>2. CASE Joins(p)
  <2>1. PICK first \in FillList(p, port[p]), rest \in Seq(Row) :
            list' = list \/ list' = list \o (first \o rest)
    BY <1>2 DEF Joins
  <2>2. first \in Seq(Row)
    BY <1>0, FillListRows
  <2> DEFINE more == first \o rest
  <2>3. more \in Seq(Row) /\ (list' = list \/ list' = list \o more)
    BY <2>1, <2>2
  <2> HIDE DEF more
  <2>4. i \in DOMAIN list' /\ list'[i] = list[i]
    <3>1. list \in Seq(Row)
      BY <1>0
    <3>2. \A s \in Seq(Row) : i \in DOMAIN (list \o s) /\ (list \o s)[i] = list[i]
      BY <3>1
    <3> QED
      BY <2>3, <3>2
  <2> QED
    BY <2>4
<1>3. CASE Removes(p)
  <2> DEFINE kept == {e \in ToSet(list) : e.owner # Name[p]}
  <2>1. list' = Only(list, kept) /\ list[i] \in kept
    BY <1>3 DEF Removes, RemoveFiles, ToSet
  <2> HIDE DEF kept
  <2> QED
    BY <1>0, <2>1, OnlyElements
<1> QED
  BY <1>0, <1>1, <1>2, <1>3

\* A served packet leaves the joined clients on the list.
LEMMA ListedServe ==
    ASSUME TypeOK, Packets, NothingBeforeStart, ListedWhileJoined, NEW p \in Procs, Serve(p),
           port' = port, NEW r \in Procs, Joined(r)', NamesakesStay(r)'
    PROVE  Listed(r)'
<1>0. /\ server = "up" /\ server' = "up" /\ conn[p] \in {"open", "reset"} /\ conn'[r] = "open"
      /\ port[p] \in Ports /\ list \in Seq(Row) /\ toServer[p] \in Seq(Packet)
  BY ServeCases DEF Joined, TypeOK
<1>1. conn[r] = "open"
  BY <1>0, ServeConns
<1>2. NamesakesStay(r)
  <2> SUFFICES ASSUME NEW q \in Procs, Name[q] = Name[r] PROVE conn[q] # "byExit"
    BY DEF NamesakesStay
  <2>1. conn'[q] # "byExit"
    BY DEF NamesakesStay
  <2> QED
    BY <1>0, <2>1, ServeConns
<1>3. ASSUME Joined(r), Removes(p) => Name[p] # Name[r]
      PROVE  Listed(r)'
  <2> SUFFICES ASSUME NEW f \in ToSet(Shared[r])
               PROVE  \E i \in DOMAIN list' : list'[i] = Entry(f, Name[r], port[r])
    BY DEF Listed
  <2>1. PICK i \in DOMAIN list : list[i] = Entry(f, Name[r], port[r])
    BY <1>2, <1>3 DEF ListedWhileJoined, NamesakesStay
  <2>2. list[i].owner = Name[r]
    BY <2>1 DEF Entry
  <2>3. \E j \in DOMAIN list' : list'[j] = list[i]
    BY <1>3, <2>2, ListKeeps
  <2> QED
    BY <2>1, <2>3
<1>4. ~(Removes(p) /\ Name[p] = Name[r])
  BY <1>0, RemovesCloses DEF NamesakesStay
<1>5. CASE r # p
  <2>1. Joined(r)
    BY <1>0, <1>1, <1>5, ServeCases DEF Joined, Reads
  <2> QED
    BY <1>3, <1>4, <2>1
<1>6. CASE r = p /\ toServer[p][1].command = "a"
  <2>1. ~Reject(p)
    BY <1>0, <1>6 DEF Reject, TypeOK
  <2>2. Joins(p)
    BY <1>6, <2>1, ServeCases
  <2>3. PICK first \in FillList(p, port[p]), rest \in Seq(Row) :
            \/ first[1].file = NoFile /\ list' = list
            \/ first[1].file # NoFile /\ list' = list \o (first \o rest)
    BY <2>2 DEF Joins
  <2>4. /\ first \in Seq(Row)
        /\ \A f \in ToSet(Shared[p]) : \E i \in DOMAIN first : first[i] = Entry(f, Name[p], port[p])
        /\ \A f \in ToSet(Shared[p]) : first[1].file # NoFile
    <3>1. port[p] \in Ports /\ first \in FillList(p, port[p])
      BY <1>0, <2>3
    <3>2. first \in Seq(Row)
      BY <3>1, FillListRows
    <3>3. \A f \in ToSet(Shared[p]) : \E i \in DOMAIN first : first[i] = Entry(f, Name[p], port[p])
      BY <3>1, FillListRows
    <3>4. \A f \in ToSet(Shared[p]) : first[1].file # NoFile
      <4> DEFINE S == ToSet(Shared[p])
                 n == port[p]
      <4>1. \A rows \in FillList(p, n) : \A f \in S : rows[1].file # NoFile
        <5>1. n \in Ports
          BY <1>0
        <5> HIDE DEF n
        <5> QED
          BY <5>1, FillListRows
      <4> QED
        BY <3>1, <4>1
    <3> QED
      BY <3>2, <3>3, <3>4
  <2> SUFFICES ASSUME NEW f \in ToSet(Shared[p])
               PROVE  \E i \in DOMAIN list' : list'[i] = Entry(f, Name[p], port[p])
    BY <1>6 DEF Listed
  <2>5. PICK i \in DOMAIN first : first[i] = Entry(f, Name[p], port[p])
    BY <2>4
  <2> DEFINE more == first \o rest
  <2>6. more \in Seq(Row) /\ i \in DOMAIN more /\ more[i] = first[i] /\ list' = list \o more
    BY <2>3, <2>4
  <2> HIDE DEF more
  <2>7. Len(list) + i \in DOMAIN list' /\ list'[Len(list) + i] = more[i]
    BY <1>0, <2>6
  <2> QED
    BY <2>5, <2>6, <2>7
<1>7. CASE r = p /\ toServer[p][1].command # "a"
  <2>1. Joined(r)
    BY <1>0, <1>1, <1>7 DEF Joined, Packets
  <2> QED
    BY <1>3, <1>4, <2>1, <1>7
<1> QED
  BY <1>5, <1>6, <1>7

\* Only a served packet changes the list, makes a client join, or undoes an exit.
LEMMA QuietSteps ==
    ASSUME TypeOK, NothingBeforeStart, BacklogHasA, NEW p \in Procs,
           (ServerSteps(p) /\ ~Serve(p)) \/ Start(p) \/ ClientSteps(p)
    PROVE  /\ list' = list
           /\ \A r \in Procs : Joined(r)' => Joined(r) /\ port'[r] = port[r]
           /\ \A r \in Procs : conn[r] = "byExit" => conn'[r] = "byExit"
<1>0. \A r \in Procs : toServer[r] \in Seq(Packet)
  BY DEF TypeOK
<1>1. CASE ServerSteps(p) /\ (Accept(p) \/ Hangup(p))
  <2>1. UNCHANGED <<list, port, server, toServer>>
    BY <1>1 DEF ServerSteps, clientVars, Accept, Hangup
  <2>2. \A r \in Procs : conn[r] = "byExit" => conn'[r] = "byExit"
    BY <1>1 DEF Accept, Hangup, TypeOK
  <2>3. ASSUME NEW r \in Procs, Joined(r)' PROVE Joined(r)
    <3>1. \A i \in DOMAIN toServer[r] : toServer[r][i].command # "a"
      BY <2>1, <2>3 DEF Joined
    <3>2. conn[r] # "backlog"
      <4>1. toServer[r] # <<>> => 1 \in DOMAIN toServer[r]
        BY <1>0
      <4> QED
        BY <3>1, <4>1 DEF BacklogHasA
    <3>3. conn[r] = "open"
      BY <1>1, <2>3, <3>2 DEF Accept, Hangup, TypeOK, Joined
    <3> QED
      BY <2>1, <2>3, <3>1, <3>3 DEF Joined
  <2> QED
    BY <2>1, <2>2, <2>3
<1>2. CASE Start(p)
  <2>1. PICK n : port' = [port EXCEPT ![p] = n]
    BY <1>2 DEF Start
  <2>2. PICK m : toServer' = [toServer EXCEPT ![p] = m]
    BY <1>2 DEF Start
  <2>3. conn' = [conn EXCEPT ![p] = "backlog"] /\ UNCHANGED <<list, server>> /\ conn[p] # "byExit"
    BY <1>2 DEF Start, NothingBeforeStart
  <2>4. \A r \in Procs : Joined(r)' => r # p
    BY <2>3 DEF Joined, TypeOK
  <2>5. \A r \in Procs \ {p} : port'[r] = port[r] /\ toServer'[r] = toServer[r] /\ conn'[r] = conn[r]
    BY <2>1, <2>2, <2>3 DEF TypeOK
  <2>6. \A r \in Procs : Joined(r)' => Joined(r) /\ port'[r] = port[r]
    BY <2>3, <2>4, <2>5 DEF Joined
  <2> QED
    BY <2>3, <2>5, <2>6
<1>3. CASE ClientSteps(p)
  <2>1. UNCHANGED <<list, server, conn, port>> /\ \A q \in Procs \ {p} : toServer'[q] = toServer[q]
    BY <1>3, ClientMoves DEF Moves
  <2>2. toServer'[p] = toServer[p] \/ \E m : toServer'[p] = Append(toServer[p], m)
    BY <1>3, ClientMoves DEF Moves
  <2>3. \A i \in DOMAIN toServer[p] : i \in DOMAIN toServer'[p] /\ toServer'[p][i] = toServer[p][i]
    BY <1>0, <2>2
  <2>4. \A r \in Procs : Joined(r)' => Joined(r)
    BY <2>1, <2>3 DEF Joined
  <2> QED
    BY <2>1, <2>4
<1> QED
  BY <1>1, <1>2, <1>3 DEF ServerSteps

\* The joined clients stay on the list.
LEMMA ListedWhileJoinedStep ==
    ASSUME TypeOK, Packets, NothingBeforeStart, BacklogHasA, ListedWhileJoined, NEW p \in Procs,
           ServerSteps(p) \/ Start(p) \/ ClientSteps(p)
    PROVE  ListedWhileJoined'
<1>1. CASE ServerSteps(p) /\ Serve(p)
  <2>1. port' = port
    BY <1>1 DEF ServerSteps, clientVars
  <2>2. \A r \in Procs : Joined(r)' /\ NamesakesStay(r)' => Listed(r)'
    BY <1>1, <2>1, ListedServe
  <2> QED
    BY <2>2 DEF ListedWhileJoined, NamesakesStay, Listed
<1>2. CASE (ServerSteps(p) /\ ~Serve(p)) \/ Start(p) \/ ClientSteps(p)
  <2> SUFFICES ASSUME NEW r \in Procs, Joined(r)', NamesakesStay(r)' PROVE Listed(r)'
    BY DEF ListedWhileJoined, NamesakesStay, Listed
  <2>1. list' = list /\ Joined(r) /\ port'[r] = port[r]
    BY <1>2, QuietSteps
  <2>2. NamesakesStay(r)
    BY <1>2, QuietSteps DEF NamesakesStay
  <2>3. Listed(r)
    BY <2>1, <2>2 DEF ListedWhileJoined, NamesakesStay, Listed
  <2> QED
    BY <2>1, <2>3 DEF Listed
<1> QED
  BY <1>1, <1>2

-----------------------------------------------------------------------------
(* Who has the list *)

Arrived(p) ==
    IF toClient[p] # <<>> THEN Last(toClient[p]) = list
    ELSE view[p] # Unset /\ IsSuffix(list, view[p])

LEMMA LastOfAppend ==
    ASSUME NEW T, NEW s \in Seq(T), NEW m
    PROVE  Append(s, m) # <<>> /\ Last(Append(s, m)) = m
BY DEF Last

\* What the server sends is the list as it is then.
LEMMA ArrivedServe ==
    ASSUME TypeOK, Packets, NothingBeforeStart, ListArrives, NEW p \in Procs, Serve(p),
           view' = view, NEW r \in Procs, Joined(r)', Alive(r)', list' # <<>>
    PROVE  Arrived(r)'
<1>0. /\ server = "up" /\ server' = "up" /\ conn[p] \in {"open", "reset"} /\ conn'[r] = "open"
      /\ toServer[p] \in Seq(Packet) /\ toClient[r] \in Seq(Message) /\ pc' = pc /\ DOMAIN conn = Procs
  BY ServeCases DEF Joined, TypeOK, Message
<1>1. conn[r] = "open" /\ Alive(r)
  BY <1>0, ServeConns DEF Alive
<1>2. ASSUME toClient'[r] = Append(toClient[r], list') PROVE Arrived(r)'
  BY <1>0, <1>2, LastOfAppend DEF Arrived
<1>3. ASSUME Joined(r), list' = list, toClient'[r] = toClient[r] PROVE Arrived(r)'
  BY <1>1, <1>3 DEF ListArrives, Arrived
<1>4. r # p => Joined(r)
  BY <1>0, <1>1, ServeCases DEF Joined, Reads
<1>5. CASE Reject(p)
  <2>1. r # p
    BY <1>0, <1>5 DEF Reject
  <2>2. list' = list /\ toClient'[r] = toClient[r]
    BY <1>5, <2>1 DEF Reject, TypeOK
  <2> QED
    BY <1>3, <1>4, <2>1, <2>2
<1>6. CASE Joins(p)
  <2>1. Told(Connected(conn), list', conn) /\ r \in Connected(conn)
    BY <1>1, <1>6 DEF Joins, Connected
  <2> QED
    BY <1>0, <1>1, <1>2, <2>1 DEF Told
<1>7. CASE Replies(p)
  <2>1. Told({p}, list, conn) /\ list' = list
    BY <1>7 DEF Replies
  <2> QED
    BY <1>0, <1>1, <1>2, <1>3, <1>4, <2>1 DEF Told
<1>8. CASE Removes(p)
  <2>1. r # p
    BY <1>0, <1>8, RemovesCloses
  <2> DEFINE at == [conn EXCEPT ![p] = "byExit"]
  <2>2. Told(Connected(at), list', at) /\ r \in Connected(at)
    BY <1>0, <1>1, <1>8, <2>1 DEF Removes, Connected
  <2> HIDE DEF at
  <2> QED
    BY <1>0, <1>1, <1>2, <2>2 DEF Told
<1> QED
  BY <1>5, <1>6, <1>7, <1>8, ServeCases

\* What a client takes for the list ends with it.
LEMMA ArrivedHears ==
    ASSUME TypeOK, NEW p \in Procs, Arrived(p), Hears(p), list' = list
    PROVE  Arrived(p)'
<1>1. PICK seqs \in Seq(Seq(Row)) :
          /\ seqs # <<>> /\ Len(seqs) <= Len(toClient[p])
          /\ \A i \in 1..Len(seqs) : seqs[i] = Rows(toClient[p][i])
          /\ view'[p] = FlattenSeq(seqs)
          /\ toClient'[p] = SubSeq(toClient[p], Len(seqs) + 1, Len(toClient[p]))
  BY DEF Hears
<1>2. toClient[p] \in Seq(Message) /\ list \in Seq(Row) /\ list # Rejection
  BY ValuesAssumption DEF TypeOK, Message
<1> DEFINE m == toClient[p]
           n == Len(seqs)
<1>3. m \in Seq(Message) /\ n \in Nat \ {0} /\ n <= Len(m) /\ m # <<>>
  BY <1>1, <1>2
<1>4. Last(m) = list
  BY <1>3 DEF Arrived
<1>5. CASE n = Len(m)
  <2>1. toClient'[p] = <<>>
    BY <1>1, <1>3, <1>5
  <2>2. seqs[n] = list
    <3>1. n \in 1..Len(seqs) /\ m[n] = list
      BY <1>3, <1>4, <1>5 DEF Last
    <3>2. seqs[n] = Rows(m[n])
      BY <1>1, <3>1
    <3> QED
      BY <1>2, <3>1, <3>2 DEF Rows
  <2>3. PICK front \in Seq(Row) : FlattenSeq(seqs) = front \o list
    BY <1>1, <2>2, FlattenLast
  <2>4. IsSuffix(list, view'[p])
    BY <1>1, <1>2, <2>3, SuffixOfConcat
  <2>5. view'[p] # Unset
    BY <1>1, FlattenType, ValuesAssumption
  <2> QED
    BY <2>1, <2>4, <2>5 DEF Arrived
<1>6. CASE n # Len(m)
  <2> DEFINE rest == SubSeq(m, n + 1, Len(m))
  <2>1. rest \in Seq(Message) /\ rest # <<>> /\ rest[Len(rest)] = m[Len(m)]
    <3> HIDE DEF m, n
    <3>1. Len(m) \in Nat /\ n + 1 \in 1..Len(m)
      BY <1>3, <1>6
    <3>2. rest \in Seq(Message) /\ Len(rest) = Len(m) - n
      BY <1>3, <3>1
    <3>3. rest[Len(m) - n] = m[(Len(m) - n) + n]
      BY <1>3, <3>1
    <3>4. (Len(m) - n) + n = Len(m) /\ Len(m) - n \in Nat \ {0}
      BY <1>3, <3>1
    <3> HIDE DEF rest
    <3>5. rest # <<>>
      BY <3>2, <3>4
    <3> QED
      BY <3>2, <3>3, <3>4, <3>5
  <2>2. Last(rest) = list
    BY <1>4, <2>1 DEF Last
  <2>3. toClient'[p] = rest
    BY <1>1
  <2> HIDE DEF rest
  <2> QED
    BY <2>1, <2>2, <2>3 DEF Arrived
<1> QED
  BY <1>5, <1>6

\* A joined client has the list, or it comes last.
LEMMA ListArrivesStep ==
    ASSUME TypeOK, Packets, NothingBeforeStart, BacklogHasA, ListArrives, NEW p \in Procs,
           ServerSteps(p) \/ Start(p) \/ ClientSteps(p)
    PROVE  ListArrives'
<1> SUFFICES ASSUME NEW r \in Procs, Joined(r)', Alive(r)', list' # <<>>
             PROVE  Arrived(r)'
  BY DEF ListArrives, Arrived
<1>1. CASE ServerSteps(p) /\ Serve(p)
  BY <1>1, ArrivedServe DEF ServerSteps, clientVars
<1>2. CASE (ServerSteps(p) /\ ~Serve(p)) \/ Start(p) \/ ClientSteps(p)
  <2>1. list' = list /\ Joined(r)
    BY <1>2, QuietSteps
  <2>2. ASSUME Alive(r), toClient'[r] = toClient[r], view'[r] = view[r] PROVE Arrived(r)'
    BY <2>1, <2>2 DEF ListArrives, Arrived
  <2>3. CASE ServerSteps(p) /\ ~Serve(p)
    BY <2>2, <2>3 DEF ServerSteps, clientVars, Accept, Hangup, Alive
  <2>4. CASE Start(p)
    <3>1. r # p
      BY <2>1, <2>4 DEF Joined, Start, NothingBeforeStart
    <3>2. Alive(r) /\ toClient' = toClient /\ view' = view
      BY <2>4, <3>1 DEF Start, Alive, TypeOK
    <3> QED
      BY <2>2, <3>2
  <2>5. CASE ClientSteps(p)
    <3>1. Moves(p)
      BY <2>5, ClientMoves
    <3>2. CASE r # p
      BY <2>2, <3>1, <3>2 DEF Moves, Alive
    <3>3. CASE r = p
      <4>1. Alive(p) /\ pc'[p] \notin Ended
        BY <3>1, <3>3 DEF Moves, Alive
      <4>2. CASE Hears(p)
        <5>1. Arrived(p)
          BY <2>1, <3>3, <4>1 DEF ListArrives, Arrived
        <5> QED
          BY <2>1, <3>3, <4>2, <5>1, ArrivedHears
      <4> QED
        BY <2>2, <3>1, <3>3, <4>1, <4>2 DEF Moves
    <3> QED
      BY <3>2, <3>3
  <2> QED
    BY <1>2, <2>3, <2>4, <2>5
<1> QED
  BY <1>1, <1>2

-----------------------------------------------------------------------------
(* The theorems *)

LEMMA InitIInv == Init => IInv
<1> SUFFICES ASSUME Init PROVE IInv
  OBVIOUS
<1>0. /\ list = <<>> /\ server = "up" /\ conn = [p \in Procs |-> "none"]
      /\ toServer = [p \in Procs |-> <<>>] /\ toClient = [p \in Procs |-> <<>>]
      /\ pc = [p \in Procs |-> "off"] /\ port = [p \in Procs |-> NoPort]
      /\ view = [p \in Procs |-> Unset] /\ getQ = [p \in Procs |-> <<>>]
      /\ getting = [p \in Procs |-> NoGet] /\ reply = [p \in Procs |-> "none"]
      /\ dir = [p \in Procs |-> [f \in Files |->
                    IF f \in ToSet(Shared[p]) THEN "whole" ELSE "none"]]
  BY DEF Init, ServerInit
<1>1. TypeOK
  <2>1. \A T : <<>> \in Seq(T)
    OBVIOUS
  <2>2. toServer \in [Procs -> Seq(Packet)] /\ list \in Seq(Row)
        /\ toClient \in [Procs -> Seq(Seq(Row) \cup {Rejection})]
        /\ getQ \in [Procs -> Seq(Connection)]
    BY <1>0, <2>1
  <2>3. dir \in [Procs -> [Files -> {"none", "whole", "part", "garbage", "empty"}]]
    BY <1>0
  <2> QED
    BY <1>0, <2>2, <2>3 DEF TypeOK, Ended
<1>2. ListSourced /\ ClientsSourced /\ Packets /\ BacklogHasA /\ NothingBeforeStart
      /\ RejectionsClose /\ ListedWhileJoined /\ ListArrives
  BY <1>0 DEF ListSourced, ClientsSourced, Packets, BacklogHasA, NothingBeforeStart,
     RejectionsClose, ListedWhileJoined, ListArrives, Joined
<1>3. PortsGiven
  <2>1. \A q \in Procs : Port[q] # NoPort
    BY ValuesAssumption DEF Ports, NoPort
  <2> QED
    BY <1>0, <2>1 DEF PortsGiven, Alive
<1>4. AskedForShared
  BY <1>0 DEF AskedForShared
<1>5. OwnFilesStay
  <2>1. \A p \in Procs : ToSet(Shared[p]) \subseteq Files
    BY DEF Files
  <2> QED
    BY <1>0, <2>1 DEF OwnFilesStay
<1> QED
  BY <1>1, <1>2, <1>3, <1>4, <1>5 DEF IInv

\* A step is one of the server or a process.
LEMMA StepCases ==
    ASSUME Next
    PROVE  \E p \in Procs : ServerSteps(p) \/ Start(p) \/ ClientSteps(p)
BY DEF Next, ServerNext, ServerSteps, ClientSteps

LEMMA NextIInv == IInv /\ [Next]_vars => IInv'
<1> SUFFICES ASSUME IInv, [Next]_vars PROVE IInv'
  OBVIOUS
<1>1. CASE Next
  <2>1. PICK p \in Procs : ServerSteps(p) \/ Start(p) \/ ClientSteps(p)
    BY <1>1, StepCases
  <2>0. /\ TypeOK /\ ListSourced /\ ClientsSourced /\ Packets /\ BacklogHasA /\ NothingBeforeStart
        /\ PortsGiven /\ AskedForShared /\ OwnFilesStay /\ RejectionsClose /\ ListedWhileJoined
        /\ ListArrives
    BY DEF IInv
  <2>2. TypeOK'
    BY <2>0, <2>1, TypeServer, TypeStart, TypeClient DEF ServerSteps
  <2>3. ListSourced'
    BY <2>0, <2>1, ListSourcedStep
  <2>4. ClientsSourced'
    BY <2>0, <2>1, <2>2, <2>3, ClientsSourcedStep
  <2>5. Packets' /\ BacklogHasA' /\ NothingBeforeStart'
    BY <2>0, <2>1, PacketsStep, BacklogStep, NothingBeforeStartStep
  <2>6. PortsGiven' /\ AskedForShared' /\ OwnFilesStay'
    BY <2>0, <2>1, PortsGivenStep, AskedForSharedStep, OwnFilesStayStep
  <2>7. RejectionsClose'
    BY <2>0, <2>1, <2>2, RejectionsStep
  <2>8. ListedWhileJoined' /\ ListArrives'
    BY <2>0, <2>1, ListedWhileJoinedStep, ListArrivesStep
  <2> QED
    BY <2>2, <2>3, <2>4, <2>5, <2>6, <2>7, <2>8 DEF IInv
<1>2. CASE UNCHANGED vars
  <2>1. UNCHANGED <<list, server, conn, toServer, toClient, pc, port, view, getQ, getting, reply, dir>>
    BY <1>2 DEF vars, serverVars, clientVars
  <2>2. TypeOK'
    BY <2>1 DEF IInv, TypeOK
  <2>6. Packets' /\ BacklogHasA' /\ NothingBeforeStart'
    BY <2>1 DEF IInv, Packets, BacklogHasA, NothingBeforeStart
  <2>7. PortsGiven' /\ OwnFilesStay'
    BY <2>1 DEF IInv, PortsGiven, OwnFilesStay, Alive
  <2>3. ListSourced' /\ ClientsSourced'
    BY <2>1 DEF IInv, ListSourced, ClientsSourced, Sourced, Source
  <2>4. AskedForShared' /\ RejectionsClose'
    BY <2>1 DEF IInv, AskedForShared, RejectionsClose, Alive
  <2>5. ListedWhileJoined' /\ ListArrives'
    BY <2>1 DEF IInv, ListedWhileJoined, ListArrives, Joined, Alive
  <2> QED
    BY <2>2, <2>3, <2>4, <2>5, <2>6, <2>7 DEF IInv
<1> QED
  BY <1>1, <1>2

\* The inductive invariant of the peer file system.
THEOREM Invariance == Spec => []IInv
<1> QED
  BY InitIInv, NextIInv, PTL DEF Spec

\* Every variable keeps its type.
THEOREM TypeCorrect == Spec => []TypeOK
<1>1. IInv => TypeOK
  BY DEF IInv
<1> QED
  BY <1>1, Invariance, PTL

\* The files of a joined client are on the list, however many packets the
\* server reads as one and whoever else comes and goes (server_PFS.c:175-224,
\* 240-241).
THEOREM ListedWhileJoinedHolds == Spec => []ListedWhileJoined
<1>1. IInv => ListedWhileJoined
  BY DEF IInv
<1> QED
  BY <1>1, Invariance, PTL

\* A joined client has the list or will read it last, whatever is lost to
\* processes that ended (server_PFS.c:195-208, 243-255; client_PFS.c:224-245).
THEOREM ListArrivesHolds == Spec => []ListArrives
<1>1. IInv => ListArrives
  BY DEF IInv
<1> QED
  BY <1>1, Invariance, PTL

\* An exit that the server reads as one leaves nothing of the client on the
\* list (server_PFS.c:234-241).
THEOREM ExitUnlistsHolds == Spec => []ExitUnlists
<1>1. IInv => ExitUnlists
  <2> SUFFICES ASSUME IInv, NEW p \in Procs, NEW i \in DOMAIN list,
                      conn[p] = "byExit", list[i].owner = Name[p], list[i].port = port[p]
               PROVE  \E q \in Procs \ {p} :
                          Name[q] = Name[p] /\ port[q] = port[p] /\ conn[q] # "byExit"
    BY DEF ExitUnlists
  <2>1. port[p] # NoPort /\ port[p] \in Ports \cup {NoPort}
    BY DEF IInv, NothingBeforeStart, TypeOK
  <2>2. list[i].port # Junk
    BY <2>1, ValuesAssumption
  <2>3. PICK q \in Procs : Source(list[i], q) /\ conn[q] # "byExit"
    BY <2>2 DEF IInv, ListSourced
  <2> QED
    BY <2>3 DEF Source
<1> QED
  BY <1>1, Invariance, PTL

\* A client is asked for a file it has not only at a port that was another's
\* before (client_PFS.c:35-46, 268-281, 334-358).
THEOREM AskedForOwnHolds == Spec => []AskedForOwn
<1>1. IInv => AskedForOwn
  <2> SUFFICES ASSUME IInv, NEW p \in Procs, NEW i \in DOMAIN getQ[p],
                      ~Has(p, getQ[p][i].file)
               PROVE  \E q \in Procs \ {p} :
                          /\ port[q] = port[p] /\ pc[q] \in Ended
                          /\ getQ[p][i].file \in ToSet(Shared[q])
    BY DEF AskedForOwn
  <2>1. PICK q \in Procs : port[q] = port[p] /\ getQ[p][i].file \in ToSet(Shared[q])
    BY DEF IInv, AskedForShared
  <2>2. q # p
    <3>1. getQ[p][i].file \in Files
      <4>1. getQ[p] \in Seq(Connection)
        BY DEF IInv, TypeOK
      <4>2. getQ[p][i] \in Connection
        BY <4>1
      <4> QED
        BY <4>2 DEF Connection
    <3> QED
      BY <2>1, <3>1, ValuesAssumption DEF IInv, OwnFilesStay, Has
  <2>3. getQ[p] # <<>>
    OBVIOUS
  <2>4. Alive(p)
    BY <2>3 DEF IInv, AskedForShared
  <2>5. pc[q] # "off" /\ ~Alive(q)
    BY <2>1, <2>2, <2>4 DEF IInv, NothingBeforeStart, PortsGiven, Alive
  <2> QED
    BY <2>1, <2>2, <2>5 DEF Alive
<1> QED
  BY <1>1, Invariance, PTL

-----------------------------------------------------------------------------
(* The master list as a registry *)

Names == {Name[p] : p \in Procs}

\* Of a list, the rows of a name that a process has put there.
Shelf(rows, n) == Only(rows, {e \in ToSet(rows) : e.owner = n /\ e.port # Junk})

\* The shelves of ImplementsRegistry.
ShelfMap == [n \in Names |-> Shelf(list, n)]

OwnRows(n) == {e \in Row : e.owner = n /\ e.port # Junk}

LEMMA ShelfIs ==
    ASSUME NEW rows \in Seq(Row), NEW n
    PROVE  Shelf(rows, n) = Only(rows, OwnRows(n))
<1> DEFINE same == {e \in ToSet(rows) : e.owner = n /\ e.port # Junk}
<1>1. \A i \in DOMAIN rows : rows[i] \in same <=> rows[i] \in OwnRows(n)
  BY DEF ToSet, OwnRows
<1> HIDE DEF same
<1>2. Only(rows, same) = Only(rows, OwnRows(n))
  BY <1>1, OnlySame
<1> QED
  BY <1>2 DEF Shelf, same

\* A join fills the shelf of its name and no other.
LEMMA JoinShelves ==
    ASSUME NEW p \in Procs, NEW rows \in Seq(Row), NEW first \in FillList(p, port[p]),
           NEW rest \in Seq(Row), port[p] \in Ports,
           \A i \in DOMAIN rest : rest[i].port = Junk,
           \A i \in DOMAIN rows : rows[i].owner # Name[p]
    PROVE  /\ Shelf(rows, Name[p]) = <<>> /\ Shelf(rows \o (first \o rest), Name[p]) = first
           /\ \A n \in Names \ {Name[p]} : Shelf(rows \o (first \o rest), n) = Shelf(rows, n)
<1>1. first \in Seq(Row) /\ \A i \in DOMAIN first : first[i].owner = Name[p] /\ first[i].port = port[p]
  BY FillListRows
<1>2. port[p] # Junk
  BY ValuesAssumption
<1> DEFINE more == first \o rest
<1>3. more \in Seq(Row) /\ rows \o more \in Seq(Row)
  BY <1>1
<1>4. ASSUME NEW n
      PROVE  /\ Shelf(rows, n) = Only(rows, OwnRows(n))
             /\ Shelf(rows \o more, n) = Only(rows, OwnRows(n)) \o Only(first, OwnRows(n))
             /\ Only(rows, OwnRows(n)) \in Seq(Row)
  <2>1. \A i \in DOMAIN rest : rest[i] \notin OwnRows(n)
    BY DEF OwnRows
  <2>2. Only(rest, OwnRows(n)) = <<>>
    BY <2>1, OnlyNone
  <2> DEFINE own == OwnRows(n)
  <2>10. Only(first \o rest, own) = Only(first, own) \o Only(rest, own)
    <3> HIDE DEF own
    <3> QED
      BY <1>1, OnlyConcat
  <2>3. Only(more, OwnRows(n)) = Only(first, OwnRows(n)) \o <<>>
    BY <2>2, <2>10
  <2>4. Only(first, OwnRows(n)) \in Seq(Row)
    BY <1>1, OnlyType
  <2>5. Only(more, OwnRows(n)) = Only(first, OwnRows(n))
    BY <2>3, <2>4
  <2> HIDE DEF more
  <2>6. Only(rows \o more, OwnRows(n)) = Only(rows, OwnRows(n)) \o Only(more, OwnRows(n))
    BY <1>3, OnlyConcat
  <2>7. Shelf(rows, n) = Only(rows, OwnRows(n))
    BY ShelfIs
  <2>8. Shelf(rows \o more, n) = Only(rows \o more, OwnRows(n))
    BY <1>3, ShelfIs
  <2>9. Only(rows, OwnRows(n)) \in Seq(Row)
    BY OnlyType
  <2> QED
    BY <2>5, <2>6, <2>7, <2>8, <2>9
<1>5. Only(rows, OwnRows(Name[p])) = <<>>
  <2>1. \A i \in DOMAIN rows : rows[i] \notin OwnRows(Name[p])
    BY DEF OwnRows
  <2> QED
    BY <2>1, OnlyNone
<1>6. Only(first, OwnRows(Name[p])) = first
  <2>1. \A i \in DOMAIN first : first[i] \in OwnRows(Name[p])
    BY <1>1, <1>2 DEF OwnRows
  <2> QED
    BY <1>1, <2>1, OnlyAll
<1>7. ASSUME NEW n \in Names \ {Name[p]} PROVE Only(first, OwnRows(n)) = <<>>
  <2>1. \A i \in DOMAIN first : first[i] \notin OwnRows(n)
    BY <1>1 DEF OwnRows
  <2> QED
    BY <1>1, <2>1, OnlyNone
<1> HIDE DEF more
<1>8. Shelf(rows, Name[p]) = <<>> /\ Shelf(rows \o more, Name[p]) = first
  <2>1. Shelf(rows \o more, Name[p]) = <<>> \o first
    BY <1>4, <1>5, <1>6
  <2>2. <<>> \o first = first
    BY <1>1
  <2> QED
    BY <1>4, <1>5, <2>1, <2>2
<1>9. \A n \in Names \ {Name[p]} : Shelf(rows \o more, n) = Shelf(rows, n)
  BY <1>4, <1>7
<1> QED
  BY <1>8, <1>9 DEF more

\* An exit clears the shelf of its name and no other.
LEMMA RemoveShelves ==
    ASSUME NEW p \in Procs, list \in Seq(Row)
    PROVE  /\ Shelf(RemoveFiles(Name[p]), Name[p]) = <<>>
           /\ \A n \in Names \ {Name[p]} : Shelf(RemoveFiles(Name[p]), n) = Shelf(list, n)
<1> DEFINE others == {e \in ToSet(list) : e.owner # Name[p]}
           left == Only(list, others)
<1>1. left = RemoveFiles(Name[p]) /\ left \in Seq(Row)
  BY OnlyType DEF RemoveFiles
<1>2. ASSUME NEW n
      PROVE  Shelf(left, n) = Only(list, others \cap OwnRows(n)) /\ Shelf(list, n) = Only(list, OwnRows(n))
  <2>1. Shelf(left, n) = Only(left, OwnRows(n))
    <3> HIDE DEF left
    <3> QED
      BY <1>1, ShelfIs
  <2>2. Only(left, OwnRows(n)) = Only(list, others \cap OwnRows(n))
    <3> HIDE DEF others
    <3> QED
      BY OnlyTwice
  <2>3. Shelf(list, n) = Only(list, OwnRows(n))
    BY ShelfIs
  <2> QED
    BY <2>1, <2>2, <2>3
<1> HIDE DEF left
<1>3. Only(list, others \cap OwnRows(Name[p])) = <<>>
  <2>1. \A i \in DOMAIN list : list[i] \notin others \cap OwnRows(Name[p])
    BY DEF OwnRows
  <2> HIDE DEF others
  <2> QED
    BY <2>1, OnlyNone
<1>4. ASSUME NEW n \in Names \ {Name[p]}
      PROVE  Only(list, others \cap OwnRows(n)) = Only(list, OwnRows(n))
  <2>1. \A i \in DOMAIN list : list[i] \in others \cap OwnRows(n) <=> list[i] \in OwnRows(n)
    BY DEF OwnRows, ToSet
  <2> DEFINE both == others \cap OwnRows(n)
  <2>2. \A i \in DOMAIN list : list[i] \in both <=> list[i] \in OwnRows(n)
    BY <2>1
  <2> HIDE DEF both
  <2>3. Only(list, both) = Only(list, OwnRows(n))
    BY <2>2, OnlySame
  <2> QED
    BY <2>3 DEF both
<1> HIDE DEF others
<1> QED
  BY <1>1, <1>2, <1>3, <1>4

\* A served packet claims the shelf of a name, clears it, or changes none.
LEMMA ServeShelves ==
    ASSUME TypeOK, Packets, NothingBeforeStart, NEW p \in Procs, Serve(p)
    PROVE  [Shelves!Next]_ShelfMap
<1>0. list \in Seq(Row) /\ port[p] \in Ports /\ (Reject(p) \/ Joins(p) \/ Replies(p) \/ Removes(p))
  BY ServeCases DEF TypeOK
<1> DEFINE name == Name[p]
<1>1. name \in Names /\ \A n \in Names : ShelfMap[n] = Shelf(list, n) /\ ShelfMap'[n] = Shelf(list', n)
  BY DEF Names, ShelfMap, Shelf
<1>2. CASE list' = list
  BY <1>2 DEF ShelfMap, Shelf
<1>3. CASE Joins(p) /\ list' # list
  <2>1. PICK first \in FillList(p, port[p]), rest \in Seq(Row) :
            /\ \A i \in DOMAIN rest : rest[i].port = Junk
            /\ list' = list \o (first \o rest)
    BY <1>3 DEF Joins
  <2>2. \A i \in DOMAIN list : list[i].owner # name
    BY <1>3 DEF Joins, IsClient
  <2>3. /\ Shelf(list, name) = <<>> /\ Shelf(list', name) = first
        /\ \A n \in Names \ {name} : Shelf(list', n) = Shelf(list, n)
    BY <1>0, <2>1, <2>2, JoinShelves
  <2>4. first \in Offers[p]
    BY <1>0, <2>1 DEF Offers
  <2>5. Shelves!Claim(p)
    <3>1. ShelfMap[Name[p]] = <<>> /\ ShelfMap'[Name[p]] \in Offers[p]
          /\ \A n \in Names \ {Name[p]} : ShelfMap'[n] = ShelfMap[n]
      BY <1>1, <2>3, <2>4
    <3> QED
      BY <3>1 DEF Shelves!Claim, Shelves!OthersStay, Shelves!Names, Names, ShelfMap, Shelf
  <2> QED
    BY <2>5 DEF Shelves!Next
<1>4. CASE Removes(p)
  <2>1. list' = RemoveFiles(name)
    BY <1>4 DEF Removes
  <2>2. /\ Shelf(list', name) = <<>>
        /\ \A n \in Names \ {name} : Shelf(list', n) = Shelf(list, n)
    BY <1>0, <2>1, RemoveShelves
  <2>3. CASE Shelf(list, name) = <<>>
    <3>1. \A n \in Names : Shelf(list', n) = Shelf(list, n)
      BY <2>2, <2>3
    <3> QED
      BY <1>1, <3>1 DEF ShelfMap
  <2>4. CASE Shelf(list, name) # <<>>
    <3>1. ShelfMap[name] # <<>> /\ ShelfMap'[name] = <<>>
          /\ \A n \in Names \ {name} : ShelfMap'[n] = ShelfMap[n]
      BY <1>1, <2>2, <2>4
    <3>2. Shelves!Clear(name)
      BY <3>1 DEF Shelves!Clear, Shelves!OthersStay, Shelves!Names, Names, ShelfMap, Shelf
    <3> QED
      BY <1>1, <3>2 DEF Shelves!Next, Shelves!Names, Names
  <2> QED
    BY <2>3, <2>4
<1> QED
  BY <1>0, <1>2, <1>3, <1>4 DEF Reject, Replies

\* The master list does what Registry promises (server_PFS.c:33-60, 175-224,
\* 240-241).
THEOREM ImplementsRegistryHolds == Spec => ImplementsRegistry
<1>1. Init => Shelves!Init
  <2> SUFFICES ASSUME Init PROVE Shelves!Init
    OBVIOUS
  <2>1. list = <<>>
    BY DEF Init, ServerInit
  <2>2. \A n \in Names : Shelf(list, n) = <<>>
    BY <2>1, OnlyEmpty DEF Shelf
  <2>3. ShelfMap = [n \in Names |-> <<>>]
    BY <2>2 DEF ShelfMap
  <2> QED
    BY <2>3 DEF Shelves!Init, Shelves!Names, Names, ShelfMap, Shelf
<1>2. IInv /\ [Next]_vars => [Shelves!Next]_ShelfMap
  <2> SUFFICES ASSUME IInv, [Next]_vars, list' # list PROVE [Shelves!Next]_ShelfMap
    BY DEF ShelfMap, Shelf
  <2>1. Next /\ TypeOK /\ Packets /\ NothingBeforeStart /\ BacklogHasA
    BY DEF IInv, vars, serverVars
  <2>2. PICK p \in Procs : ServerSteps(p) \/ Start(p) \/ ClientSteps(p)
    BY <2>1, StepCases
  <2>3. Serve(p)
    BY <2>1, <2>2, QuietSteps
  <2> QED
    BY <2>1, <2>3, ServeShelves
<1>3. [][Shelves!Next]_ShelfMap /\ Shelves!Init => ImplementsRegistry
  BY DEF ImplementsRegistry, Shelves!Spec, ShelfMap, Shelf, Names
<1> QED
  BY <1>1, <1>2, <1>3, Invariance, PTL DEF Spec

-----------------------------------------------------------------------------
(* How long the list gets *)

\* What is kept is no longer.
LEMMA OnlyShortens ==
    ASSUME NEW T, NEW rows \in Seq(T), NEW set
    PROVE  Len(Only(rows, set)) \in 0..Len(rows)
<1> DEFINE S == {s \in Seq(T) : Len(Only(s, set)) \in 0..Len(s)}
<1>1. <<>> \in S
  BY OnlyEmpty
<1>2. ASSUME NEW s \in Seq(T), NEW e \in T, s \in S PROVE Append(s, e) \in S
  <2>1. Only(s, set) \in Seq(T)
    BY OnlyType
  <2>2. Only(Append(s, e), set) = IF e \in set THEN Append(Only(s, set), e) ELSE Only(s, set)
    BY OnlyAppend
  <2>3. Len(Only(s, set)) \in 0..Len(s)
    BY <1>2
  <2>4. Len(Only(Append(s, e), set)) \in 0..(Len(s) + 1)
    BY <2>1, <2>2, <2>3
  <2> QED
    BY <2>4
<1> HIDE DEF S
<1>3. Seq(T) \subseteq S
  BY <1>1, <1>2, SequenceInduction
<1> QED
  BY <1>3 DEF S

\* A second selection keeps no more rows of set than there were.
LEMMA OnlyFewer ==
    ASSUME NEW T, NEW rows \in Seq(T), NEW first, NEW set
    PROVE  Len(Only(Only(rows, first), set)) <= Len(Only(rows, set))
<1> DEFINE some == Only(rows, set)
<1>1. some \in Seq(T)
  BY OnlyType
<1>2. Only(Only(rows, first), set) = Only(some, first)
  <2>1. Only(Only(rows, first), set) = Only(rows, first \cap set)
    BY OnlyTwice
  <2>2. Only(Only(rows, set), first) = Only(rows, set \cap first)
    BY OnlyTwice
  <2>3. first \cap set = set \cap first
    OBVIOUS
  <2> QED
    BY <2>1, <2>2, <2>3
<1> HIDE DEF some
<1>3. Len(Only(some, first)) \in 0..Len(some) /\ Len(some) \in Nat
  BY <1>1, OnlyShortens
<1> QED
  BY <1>2, <1>3 DEF some

\* Each row is kept by one of two selections that share none and miss none.
LEMMA OnlyBoth ==
    ASSUME NEW T, NEW rows \in Seq(T), NEW this, NEW that,
           this \cap that = {}, T \subseteq this \cup that
    PROVE  Len(rows) = Len(Only(rows, this)) + Len(Only(rows, that))
<1> DEFINE S == {s \in Seq(T) : Len(s) = Len(Only(s, this)) + Len(Only(s, that))}
<1>1. <<>> \in S
  BY OnlyEmpty
<1>2. ASSUME NEW s \in Seq(T), NEW e \in T, s \in S PROVE Append(s, e) \in S
  <2>1. Only(s, this) \in Seq(T) /\ Only(s, that) \in Seq(T)
    BY OnlyType
  <2>2. /\ Only(Append(s, e), this) = IF e \in this THEN Append(Only(s, this), e) ELSE Only(s, this)
        /\ Only(Append(s, e), that) = IF e \in that THEN Append(Only(s, that), e) ELSE Only(s, that)
    BY OnlyAppend
  <2>3. Len(s) = Len(Only(s, this)) + Len(Only(s, that)) /\ Len(Append(s, e)) = Len(s) + 1
    BY <1>2
  <2>4. CASE e \in this
    <3>1. e \notin that
      BY <2>4
    <3> QED
      BY <2>1, <2>2, <2>3, <2>4, <3>1
  <2>5. CASE e \notin this
    <3>1. e \in that
      BY <2>5
    <3> QED
      BY <2>1, <2>2, <2>3, <2>5, <3>1
  <2> QED
    BY <2>4, <2>5
<1> HIDE DEF S
<1>3. Seq(T) \subseteq S
  BY <1>1, <1>2, SequenceInduction
<1> QED
  BY <1>3 DEF S

\* Rows of the set differ.
Differ(rows, set) == \A i, j \in DOMAIN rows : rows[i] \in set /\ rows[i] = rows[j] => i = j

\* ... also among those that are kept.
LEMMA OnlyDiffer ==
    ASSUME NEW T, NEW rows \in Seq(T), NEW set, NEW some, Differ(rows, set)
    PROVE  Differ(Only(rows, some), set)
<1> DEFINE S == {s \in Seq(T) : Differ(s, set) => Differ(Only(s, some), set)}
<1>1. <<>> \in S
  BY OnlyEmpty DEF Differ
<1>2. ASSUME NEW s \in Seq(T), NEW e \in T, s \in S PROVE Append(s, e) \in S
  <2> DEFINE more == Append(s, e)
             kept == Only(s, some)
  <2>0. more \in Seq(T)
    OBVIOUS
  <2> SUFFICES ASSUME Differ(more, set) PROVE Differ(Only(more, some), set)
    BY <2>0
  <2>1. Differ(s, set) /\ (e \in set => \A i \in DOMAIN s : s[i] # e)
    <3>1. /\ DOMAIN s = 1..Len(s) /\ DOMAIN more = 1..(Len(s) + 1) /\ Len(s) \in Nat
          /\ \A i \in DOMAIN s : more[i] = s[i]
          /\ more[Len(s) + 1] = e
      OBVIOUS
    <3> HIDE DEF more
    <3>2. Differ(s, set)
      BY <3>1 DEF Differ
    <3>3. ASSUME e \in set, NEW i \in DOMAIN s, s[i] = e PROVE FALSE
      <4>1. i = Len(s) + 1
        BY <3>1, <3>3 DEF Differ
      <4> QED
        BY <3>1, <4>1
    <3> QED
      BY <3>2, <3>3
  <2>2. Differ(kept, set) /\ kept \in Seq(T)
    BY <1>2, <2>1, OnlyType
  <2>3. Only(more, some) = IF e \in some THEN Append(kept, e) ELSE kept
    BY OnlyAppend
  <2>4. e \in set => \A i \in DOMAIN kept : kept[i] # e
    BY <2>1, OnlyElements
  <2> HIDE DEF kept, more
  <2>5. Differ(Append(kept, e), set)
    <3>1. /\ DOMAIN kept = 1..Len(kept) /\ DOMAIN Append(kept, e) = 1..(Len(kept) + 1)
          /\ Len(kept) \in Nat
          /\ \A i \in DOMAIN kept : Append(kept, e)[i] = kept[i]
          /\ Append(kept, e)[Len(kept) + 1] = e
      BY <2>2
    <3> DEFINE all == Append(kept, e)
    <3> SUFFICES ASSUME NEW i \in DOMAIN all, NEW j \in DOMAIN all, all[i] \in set, all[i] = all[j]
                 PROVE  i = j
      BY DEF Differ
    <3> HIDE DEF all
    <3>2. CASE i \in DOMAIN kept /\ j \in DOMAIN kept
      BY <2>2, <3>1, <3>2 DEF Differ, all
    <3>3. CASE i \notin DOMAIN kept /\ j \notin DOMAIN kept
      BY <3>1, <3>3 DEF all
    <3>4. CASE i \in DOMAIN kept /\ j \notin DOMAIN kept
      <4>1. all[j] = e /\ all[i] = kept[i]
        BY <3>1, <3>4 DEF all
      <4> QED
        BY <2>4, <3>4, <4>1
    <3>5. CASE i \notin DOMAIN kept /\ j \in DOMAIN kept
      <4>1. all[i] = e /\ all[j] = kept[j]
        BY <3>1, <3>5 DEF all
      <4> QED
        BY <2>4, <3>5, <4>1
    <3> QED
      BY <3>2, <3>3, <3>4, <3>5
  <2> QED
    BY <2>2, <2>3, <2>5
<1> HIDE DEF S
<1>3. Seq(T) \subseteq S
  BY <1>1, <1>2, SequenceInduction
<1> QED
  BY <1>3 DEF S

\* An injection counts.
LEMMA Injects ==
    ASSUME NEW S, NEW T, IsFiniteSet(T), NEW f \in [S -> T], \A a, b \in S : f[a] = f[b] => a = b
    PROVE  IsFiniteSet(S) /\ Cardinality(S) <= Cardinality(T)
<1>1. f \in Injection(S, T)
  BY DEF Injection, IsInjective
<1> QED
  BY <1>1, FS_Injection

\* Finitely many finite sets have a finite union.
LEMMA UnionFinite ==
    ASSUME NEW S, IsFiniteSet(S), NEW f, \A x \in S : IsFiniteSet(f[x])
    PROVE  IsFiniteSet(UNION {f[x] : x \in S})
<1> DEFINE T == {f[x] : x \in S}
           g == [x \in S |-> f[x]]
<1>1. g \in Surjection(S, T)
  BY DEF Surjection
<1> HIDE DEF g
<1>2. IsFiniteSet(T)
  <2> HIDE DEF T
  <2> QED
    BY <1>1, FS_Surjection
<1>3. \A t \in T : IsFiniteSet(t)
  OBVIOUS
<1> HIDE DEF T
<1>4. IsFiniteSet(UNION T)
  BY <1>2, <1>3, FS_UNION
<1> QED
  BY <1>4 DEF T

\* A pair with each number of an interval.
LEMMA PairsWith ==
    ASSUME NEW p, NEW a \in Nat, NEW b \in Nat, a <= b + 1
    PROVE  IsFiniteSet({p} \X (a..b)) /\ Cardinality({p} \X (a..b)) = b + 1 - a
<1>1. IsFiniteSet({p}) /\ Cardinality({p}) = 1
  BY FS_Singleton, Zenon
<1>2. IsFiniteSet(a..b) /\ Cardinality(a..b) = b + 1 - a
  <2>1. IsFiniteSet(a..b) /\ Cardinality(a..b) = IF a > b THEN 0 ELSE b - a + 1
    BY FS_Interval
  <2> QED
    BY <2>1
<1>3. IsFiniteSet({p} \X (a..b)) /\ Cardinality({p} \X (a..b)) = Cardinality({p}) * Cardinality(a..b)
  BY <1>1, <1>2, FS_Product
<1> QED
  BY <1>1, <1>2, <1>3

-----------------------------------------------------------------------------
\* Packets behind the connect packet that the server has not read.
SentBy(p) == {p} \X {i \in DOMAIN toServer[p] : toServer[p][i].command # "a"}

Unread == UNION {SentBy(p) : p \in Procs}

\* Position i of the stream from p is among them.
LEMMA InUnread ==
    \A p, i : <<p, i>> \in Unread <=>
        p \in Procs /\ i \in DOMAIN toServer[p] /\ toServer[p][i].command # "a"
BY DEF Unread, SentBy

\* They are finitely many.
LEMMA UnreadFinite ==
    ASSUME TypeOK
    PROVE  IsFiniteSet(Unread)
<1> DEFINE f == [p \in Procs |-> SentBy(p)]
<1>1. ASSUME NEW p \in Procs PROVE IsFiniteSet(SentBy(p))
  <2>1. toServer[p] \in Seq(Packet)
    BY DEF TypeOK
  <2>2. DOMAIN toServer[p] = 1..Len(toServer[p]) /\ Len(toServer[p]) \in Nat
    BY <2>1
  <2> DEFINE n == Len(toServer[p])
  <2>5. n \in Nat /\ 1 <= n + 1
    BY <2>2
  <2> HIDE DEF n
  <2>3. IsFiniteSet({p} \X (1..n))
    BY <2>5, PairsWith
  <2>4. SentBy(p) \subseteq {p} \X (1..n)
    BY <2>2 DEF SentBy, n
  <2> QED
    BY <2>3, <2>4, FS_Subset
<1>2. \A p \in Procs : IsFiniteSet(f[p])
  BY <1>1
<1>3. Unread = UNION {f[p] : p \in Procs}
  BY DEF Unread
<1> HIDE DEF f
<1> QED
  BY <1>2, <1>3, UnionFinite, FileServerAssumption

\* So are the places.
LEMMA PlacesFinite ==
    ASSUME TypeOK
    PROVE  IsFiniteSet(Places)
<1> DEFINE f == [p \in Procs |-> RowsOf(p)]
<1>1. ASSUME NEW p \in Procs PROVE IsFiniteSet(RowsOf(p))
  <2>1. Shared[p] \in Seq(Files)
    BY ValuesAssumption
  <2>2. DOMAIN Shared[p] = 1..Len(Shared[p]) /\ Len(Shared[p]) \in Nat
    BY <2>1
  <2> DEFINE n == Len(Shared[p]) + 1
  <2>3. n \in Nat /\ {1} \cup DOMAIN Shared[p] \subseteq 1..n /\ 1 <= n + 1
    BY <2>2
  <2> HIDE DEF n
  <2>4. IsFiniteSet({p} \X (1..n))
    BY <2>3, PairsWith
  <2>5. RowsOf(p) \subseteq {p} \X (1..n)
    BY <2>3 DEF RowsOf
  <2> QED
    BY <2>4, <2>5, FS_Subset
<1>2. \A p \in Procs : IsFiniteSet(f[p])
  BY <1>1
<1>3. IsFiniteSet(UNION {f[p] : p \in Procs})
  <2> HIDE DEF f
  <2> QED
    BY <1>2, UnionFinite, FileServerAssumption
<1>4. Places \subseteq UNION {f[p] : p \in Procs}
  BY DEF Places
<1> HIDE DEF f
<1> QED
  BY <1>3, <1>4, FS_Subset

\* So are the clients that have exited.
LEMMA UnheardFinite == IsFiniteSet(Unheard)
<1>1. Unheard \subseteq Procs
  BY DEF Unheard
<1> QED
  BY <1>1, FS_Subset, FileServerAssumption

\* n packets of p are read, or all dropped with its connection.
Taken(p, n) ==
    \/ toServer' = [toServer EXCEPT ![p] = SubSeq(@, n + 1, Len(@))]
    \/ toServer' = [toServer EXCEPT ![p] = <<>>]

\* ... which leaves fewer.
LEMMA TakenFewer ==
    ASSUME TypeOK, NEW p \in Procs, NEW n \in 1..Len(toServer[p]), Taken(p, n),
           NEW m \in {1, 2}, \A i \in m..n : toServer[p][i].command # "a"
    PROVE  Cardinality(Unread') + (n + 1 - m) <= Cardinality(Unread)
<1> DEFINE read == {p} \X (m..n)
           left == Unread \ read
           f == [x \in Unread' |-> IF x[1] = p THEN <<p, x[2] + n>> ELSE x]
<1>0. toServer[p] \in Seq(Packet) /\ DOMAIN toServer[p] = 1..Len(toServer[p])
      /\ Len(toServer[p]) \in Nat /\ n \in Nat /\ m \in Nat /\ m <= n + 1 /\ DOMAIN toServer = Procs
  BY DEF TypeOK
<1>1. IsFiniteSet(read) /\ Cardinality(read) = n + 1 - m
  BY <1>0, PairsWith
<1>2. read \subseteq Unread
  BY <1>0, InUnread
<1>3. IsFiniteSet(Unread)
  BY UnreadFinite
<1>4. IsFiniteSet(left) /\ Cardinality(left) = Cardinality(Unread) - Cardinality(read)
  <2>1. Unread \cap read = read
    BY <1>2
  <2>2. IsFiniteSet(Unread \ read) /\ Cardinality(Unread \ read) = Cardinality(Unread) - Cardinality(Unread \cap read)
    BY <1>3, FS_Difference
  <2> HIDE DEF read
  <2> QED
    BY <2>1, <2>2
<1>5. ASSUME NEW q \in Procs, q # p, NEW i
      PROVE  <<q, i>> \in Unread' => <<q, i>> \in left
  <2>1. toServer'[q] = toServer[q]
    BY <1>0, <1>5 DEF Taken
  <2>2. <<q, i>> \in Unread' => i \in DOMAIN toServer'[q] /\ toServer'[q][i].command # "a"
    BY DEF Unread, SentBy
  <2>3. <<q, i>> \notin read
    BY <1>5
  <2> QED
    BY <2>1, <2>2, <2>3, InUnread
<1>6. ASSUME NEW i, <<p, i>> \in Unread'
      PROVE  i \in Nat /\ <<p, i + n>> \in left
  <2>1. i \in DOMAIN toServer'[p] /\ toServer'[p][i].command # "a"
    BY <1>6 DEF Unread, SentBy
  <2>2. toServer'[p] = SubSeq(toServer[p], n + 1, Len(toServer[p]))
    BY <1>0, <2>1 DEF Taken
  <2>3. i \in Nat \ {0} /\ i + n \in DOMAIN toServer[p] /\ toServer'[p][i] = toServer[p][i + n]
    BY <1>0, <2>1, <2>2
  <2>4. <<p, i + n>> \in Unread
    BY <2>1, <2>3, InUnread
  <2>5. <<p, i + n>> \notin read
    BY <1>0, <2>3
  <2> QED
    BY <2>3, <2>4, <2>5
<1>7. \A x \in Unread' : x = <<x[1], x[2]>> /\ x[1] \in Procs
  BY DEF Unread, SentBy
<1>8. \A x \in Unread' : f[x] \in left
  <2> SUFFICES ASSUME NEW x \in Unread' PROVE f[x] \in left
    OBVIOUS
  <2> HIDE DEF left
  <2> QED
    BY <1>5, <1>6, <1>7
<1>9. \A x, y \in Unread' : f[x] = f[y] => x = y
  <2> SUFFICES ASSUME NEW x \in Unread', NEW y \in Unread', f[x] = f[y] PROVE x = y
    OBVIOUS
  <2>1. CASE x[1] = p /\ y[1] = p
    <3>1. <<p, x[2] + n>> = <<p, y[2] + n>> /\ x = <<p, x[2]>> /\ y = <<p, y[2]>>
      BY <1>7, <2>1
    <3>2. x[2] \in Nat /\ y[2] \in Nat
      BY <1>6, <3>1
    <3>3. x[2] + n = y[2] + n
      BY <3>1
    <3>4. x[2] = y[2]
      BY <1>0, <3>2, <3>3
    <3> QED
      BY <3>1, <3>4
  <2>2. CASE x[1] # p /\ y[1] # p
    BY <2>2
  <2>3. CASE (x[1] = p /\ y[1] # p) \/ (x[1] # p /\ y[1] = p)
    <3>1. f[x][1] = x[1] /\ f[y][1] = y[1]
      BY <1>7
    <3> QED
      BY <2>3, <3>1
  <2> QED
    BY <2>1, <2>2, <2>3
<1>10. f \in [Unread' -> left]
  BY <1>8
<1> HIDE DEF f, left, read
<1>11. Cardinality(Unread') <= Cardinality(left) /\ IsFiniteSet(Unread')
  BY <1>4, <1>9, <1>10, Injects
<1>12. Cardinality(Unread') \in Nat /\ Cardinality(left) \in Nat /\ Cardinality(Unread) \in Nat
  BY <1>3, <1>4, <1>11, FS_CardinalityType
<1> QED
  BY <1>0, <1>1, <1>4, <1>11, <1>12

\* One packet more.
LEMMA SentOneMore ==
    ASSUME TypeOK, NEW p \in Procs, NEW m \in Packet, toServer'[p] = Append(toServer[p], m),
           \A q \in Procs \ {p} : toServer'[q] = toServer[q]
    PROVE  Cardinality(Unread') <= Cardinality(Unread) + 1 /\ Cardinality(Unread') \in Nat
<1> DEFINE more == <<p, Len(toServer[p]) + 1>>
<1>1. IsFiniteSet(Unread) /\ IsFiniteSet(Unread \cup {more})
      /\ Cardinality(Unread \cup {more}) <= Cardinality(Unread) + 1
  <2>1. IsFiniteSet(Unread)
    BY UnreadFinite
  <2> HIDE DEF more
  <2>2. /\ IsFiniteSet(Unread \cup {more})
        /\ Cardinality(Unread \cup {more}) =
              IF more \in Unread THEN Cardinality(Unread) ELSE Cardinality(Unread) + 1
    BY <2>1, FS_AddElement
  <2>3. Cardinality(Unread) \in Nat
    BY <2>1, FS_CardinalityType
  <2> QED
    BY <2>1, <2>2, <2>3
<1>2. Unread' \subseteq Unread \cup {more}
  <2> SUFFICES ASSUME NEW x \in Unread' PROVE x \in Unread \cup {more}
    OBVIOUS
  <2>1. PICK q \in Procs : \E k \in DOMAIN toServer'[q] : x = <<q, k>> /\ toServer'[q][k].command # "a"
    BY DEF Unread, SentBy
  <2>4. PICK i \in DOMAIN toServer'[q] : x = <<q, i>> /\ toServer'[q][i].command # "a"
    BY <2>1
  <2>2. CASE q # p
    BY <2>4, <2>2, InUnread
  <2>3. CASE q = p
    <3>1. toServer[p] \in Seq(Packet)
      BY DEF TypeOK
    <3>2. i \in DOMAIN Append(toServer[p], m) /\ Append(toServer[p], m)[i].command # "a"
      BY <2>4, <2>3
    <3>3. i = Len(toServer[p]) + 1 \/ (i \in DOMAIN toServer[p] /\ Append(toServer[p], m)[i] = toServer[p][i])
      BY <3>1, <3>2
    <3> QED
      BY <2>4, <2>3, <3>2, <3>3, InUnread
  <2> QED
    BY <2>2, <2>3
<1>3. Cardinality(Unread') <= Cardinality(Unread \cup {more}) /\ IsFiniteSet(Unread')
  BY <1>1, <1>2, FS_Subset
<1>4. Cardinality(Unread') \in Nat /\ Cardinality(Unread \cup {more}) \in Nat /\ Cardinality(Unread) \in Nat
  BY <1>1, <1>3, FS_CardinalityType
<1> HIDE DEF more
<1> QED
  BY <1>1, <1>3, <1>4

\* Rows that a get can go by, and rows without a port.
Ported == {e \in Row : e.port # Junk}

Stray == {e \in Row : e.port = Junk}

\* The row is one of p's, which is on the list to stay until it exits.
Holds(p, row) ==
    /\ Name[p] = row.owner /\ port[p] = row.port
    /\ row.file \in ToSet(Shared[p]) \/ (row.file = Junk /\ Shared[p] = <<>>)
    /\ conn[p] \in {"open", "reset", "byEof"}
    /\ \A i \in DOMAIN toServer[p] : toServer[p][i].command # "a"

\* ... after a step.
HoldsThen(p, row) ==
    /\ Name[p] = row.owner /\ port'[p] = row.port
    /\ row.file \in ToSet(Shared[p]) \/ (row.file = Junk /\ Shared[p] = <<>>)
    /\ conn'[p] \in {"open", "reset", "byEof"}
    /\ \A i \in DOMAIN toServer'[p] : toServer'[p][i].command # "a"

\* Every row with a port is held by a client.
RowsHeld ==
    server = "up" =>
        \A i \in DOMAIN list : list[i].port # Junk => \E p \in Procs : Holds(p, list[i])

\* No two rows with a port are the same.
RowsDiffer == Differ(list, Ported)

\* The rows without a port were sent, each with an ls or an exit, and read behind
\* a connect packet; the packets that are still to be read come on top.
StraysCounted ==
    server = "up" =>
        Len(Only(list, Stray)) + Cardinality(Unread) <= commands + Cardinality(Unheard)

-----------------------------------------------------------------------------
\* Rows that come from a directory differ.
LEMMA FillListDiffers ==
    ASSUME NEW p \in Procs, NEW n \in Ports, NEW rows \in FillList(p, n), rows[1].file # NoFile
    PROVE  /\ \A i, j \in DOMAIN rows : rows[i] = rows[j] => i = j
           /\ \A i \in DOMAIN rows :
                 rows[i].file \in ToSet(Shared[p]) \/ (rows[i].file = Junk /\ Shared[p] = <<>>)
<1>1. Shared[p] \in Seq(Files) /\ IsInjective(Shared[p])
  BY ValuesAssumption
<1>2. CASE Shared[p] # <<>>
  <2>1. rows = [i \in DOMAIN Shared[p] |-> Entry(Shared[p][i], Name[p], n)]
    BY <1>2 DEF FillList
  <2>2. \A i \in DOMAIN rows : i \in DOMAIN Shared[p] /\ rows[i].file = Shared[p][i]
    BY <2>1 DEF Entry
  <2>3. \A i \in DOMAIN Shared[p] : Shared[p][i] \in ToSet(Shared[p])
    BY DEF ToSet
  <2>4. \A i, j \in DOMAIN rows : rows[i] = rows[j] => Shared[p][i] = Shared[p][j]
    BY <2>2
  <2> QED
    BY <1>1, <2>2, <2>3, <2>4 DEF IsInjective
<1>3. CASE Shared[p] = <<>>
  <2>1. PICK f \in {NoFile, Junk} : rows = <<Entry(f, Name[p], n)>>
    BY <1>3 DEF FillList
  <2>2. DOMAIN rows = {1} /\ rows[1].file = f
    BY <2>1 DEF Entry
  <2> QED
    BY <1>3, <2>2
<1> QED
  BY <1>2, <1>3

\* Rows that a process holds stay its own when it leaves the connection open.
LEMMA HoldsOn ==
    ASSUME NEW q \in Procs, NEW row, Holds(q, row), port'[q] = port[q],
           conn'[q] \in {"open", "reset", "byEof"},
           \A i \in DOMAIN toServer'[q] : toServer'[q][i].command # "a"
    PROVE  HoldsThen(q, row)
BY DEF Holds, HoldsThen

\* A step that is not of a served packet.
LEMMA QuietHolds ==
    ASSUME TypeOK, NothingBeforeStart, NEW p \in Procs,
           (ServerSteps(p) /\ ~Serve(p)) \/ Start(p) \/ ClientSteps(p),
           NEW q \in Procs, NEW row, Holds(q, row)
    PROVE  HoldsThen(q, row)
<1>0. DOMAIN conn = Procs /\ DOMAIN toServer = Procs /\ DOMAIN port = Procs
      /\ toServer[q] \in Seq(Packet)
  BY DEF TypeOK
<1>h. conn[q] \in {"open", "reset", "byEof"}
      /\ \A i \in DOMAIN toServer[q] : toServer[q][i].command # "a"
  BY DEF Holds
<1>1. CASE ServerSteps(p) /\ ~Serve(p)
  <2>1. UNCHANGED <<toServer, port>> /\ conn'[q] \in {"open", "reset", "byEof"}
    BY <1>0, <1>1, <1>h DEF ServerSteps, Accept, Hangup, clientVars
  <2> QED
    BY <1>h, <2>1, HoldsOn
<1>2. CASE Start(p)
  <2>1. pc[p] = "off"
    BY <1>2 DEF Start
  <2>2. conn[p] = "none"
    BY <2>1 DEF NothingBeforeStart
  <2>3. q # p
    BY <1>h, <2>2
  <2>4. conn' = [conn EXCEPT ![p] = "backlog"]
    BY <1>2 DEF Start
  <2>5. \E n, m : port' = [port EXCEPT ![p] = n] /\ toServer' = [toServer EXCEPT ![p] = m]
    BY <1>2 DEF Start
  <2>6. toServer'[q] = toServer[q] /\ port'[q] = port[q] /\ conn'[q] = conn[q]
    BY <1>0, <2>3, <2>4, <2>5
  <2> QED
    BY <1>h, <2>6, HoldsOn
<1>3. CASE ClientSteps(p)
  <2>1. Moves(p)
    BY <1>3, ClientMoves
  <2>2. UNCHANGED <<conn, port>>
    BY <2>1 DEF Moves
  <2>3. \A i \in DOMAIN toServer'[q] : toServer'[q][i].command # "a"
    <3>1. CASE toServer'[q] = toServer[q]
      BY <1>h, <3>1
    <3>2. CASE toServer'[q] # toServer[q]
      <4>1. PICK m \in {[command |-> "b", rows |-> <<Entry(Junk, Junk, Junk)>>],
                        [command |-> "c", rows |-> <<Entry(Junk, Name[p], Junk)>>]} :
                toServer'[q] = Append(toServer[q], m)
        BY <2>1, <3>2 DEF Moves
      <4>2. m.command # "a"
        OBVIOUS
      <4> HIDE DEF Entry
      <4>3. \A i \in DOMAIN Append(toServer[q], m) :
                \/ i \in DOMAIN toServer[q] /\ Append(toServer[q], m)[i] = toServer[q][i]
                \/ Append(toServer[q], m)[i] = m
        BY <1>0
      <4> QED
        BY <1>h, <4>1, <4>2, <4>3
    <3> QED
      BY <3>1, <3>2
  <2> QED
    BY <1>h, <2>2, <2>3, HoldsOn
<1> QED
  BY <1>1, <1>2, <1>3

\* What a served packet takes from the stream, and adds to the rows without a
\* port.
LEMMA ServeTakes ==
    ASSUME TypeOK, Packets, NothingBeforeStart, NEW p \in Procs, Serve(p)
    PROVE  \E n \in 1..Len(toServer[p]) :
               /\ Taken(p, n)
               /\ Len(Only(list', Stray)) <= Len(Only(list, Stray))
                      + (IF toServer[p][1].command = "a" THEN n - 1 ELSE 0)
<1> DEFINE rows(n) == FlattenSeq([i \in 1..n |-> toServer[p][i].rows])
           command == toServer[p][1].command
<1>1. PICK n \in 1..Min({MaxCoalesce, Len(toServer[p])}) :
          /\ \/ command = "a" /\ Join(p, rows(n))
             \/ command = "b" /\ Reply(p)
             \/ command = "c" /\ Disconnect(p, rows(n)[1].owner)
          /\ toServer' = [toServer EXCEPT ![p] =
                 IF conn'[p] \in {"open", "reset"} THEN SubSeq(@, n + 1, Len(@)) ELSE <<>>]
  BY DEF Serve
<1>2. list \in Seq(Row) /\ toServer[p] \in Seq(Packet)
  BY DEF TypeOK
<1>3. n \in 1..Len(toServer[p])
  <2>1. MaxCoalesce \in Nat /\ Len(toServer[p]) \in Nat
    BY <1>2, FileServerAssumption
  <2> QED
    BY <2>1, MinOfTwo
<1>4. Taken(p, n)
  BY <1>1 DEF Taken
<1>5. Only(list, Stray) \in Seq(Row)
  BY <1>2, OnlyType
<1>6. list' = list => Len(Only(list', Stray)) <= Len(Only(list, Stray))
  BY <1>5
<1>7. CASE command = "a"
  <2>1. Join(p, rows(n))
    BY <1>1, <1>7
  <2>2. PICK rest \in Seq(Row) : /\ rows(n) = toServer[p][1].rows \o rest
                                 /\ \A i \in DOMAIN rest : rest[i].port = Junk
                                 /\ Len(rest) = n - 1
    BY <1>3, ReadTogether
  <2> DEFINE first == toServer[p][1].rows
  <2>3. first \in FillList(p, port[p]) /\ port[p] \in Ports
    BY <1>2, <1>3, <1>7, ServeCases DEF Packets
  <2>4. first \in Seq(Row) /\ \A i \in DOMAIN first : first[i].port = port[p]
    BY <2>3, FillListRows
  <2>5. \A i \in DOMAIN first : first[i] \notin Stray
    BY <2>3, <2>4, ValuesAssumption DEF Stray
  <2> HIDE DEF first
  <2>6. Only(first, Stray) = <<>>
    BY <2>4, <2>5, OnlyNone
  <2>7. Only(first \o rest, Stray) = Only(rest, Stray)
    <3>1. Only(first \o rest, Stray) = Only(first, Stray) \o Only(rest, Stray)
      BY <2>4, OnlyConcat
    <3>2. Only(rest, Stray) \in Seq(Row)
      BY OnlyType
    <3> QED
      BY <2>6, <3>1, <3>2
  <2>8. Len(Only(rest, Stray)) \in 0..(n - 1)
    BY <2>2, OnlyShortens
  <2>9. CASE list' = list \o rows(n)
    <3> DEFINE more == first \o rest
    <3>6. more \in Seq(Row)
      BY <2>4
    <3>1. Only(list \o more, Stray) = Only(list, Stray) \o Only(more, Stray)
      <4> HIDE DEF more
      <4> QED
        BY <1>2, <3>6, OnlyConcat
    <3>2. Only(rest, Stray) \in Seq(Row)
      BY OnlyType
    <3>3. list' = list \o (first \o rest)
      BY <2>2, <2>9 DEF first
    <3>4. Only(list', Stray) = Only(list, Stray) \o Only(rest, Stray)
      BY <2>7, <3>1, <3>3
    <3>5. Len(Only(list', Stray)) <= Len(Only(list, Stray)) + (n - 1)
      BY <1>3, <1>5, <2>8, <3>2, <3>4
    <3> QED
      BY <1>3, <1>4, <1>7, <3>5
  <2>10. CASE list' = list
    <3>1. n - 1 >= 0 /\ Len(Only(list, Stray)) \in Nat
      BY <1>3, <1>5
    <3>2. Len(Only(list', Stray)) <= Len(Only(list, Stray)) + (n - 1)
      BY <1>6, <2>10, <3>1
    <3> QED
      BY <1>3, <1>4, <1>7, <3>2
  <2>11. list' = list \/ list' = list \o rows(n)
    BY <2>1 DEF Join, Reject
  <2> QED
    BY <2>9, <2>10, <2>11
<1>8. CASE command = "b"
  <2>1. list' = list
    BY <1>1, <1>8 DEF Reply
  <2> QED
    BY <1>3, <1>4, <1>5, <1>8, <2>1
<1>9. CASE command = "c"
  <2>1. PICK name : list' = RemoveFiles(name)
    BY <1>1, <1>9 DEF Disconnect
  <2>2. Len(Only(list', Stray)) <= Len(Only(list, Stray))
    BY <1>2, <2>1, OnlyFewer DEF RemoveFiles
  <2> QED
    BY <1>3, <1>4, <1>5, <1>9, <2>2
<1> QED
  BY <1>1, <1>7, <1>8, <1>9

\* A served packet, but an exit of that name.
LEMMA ServeHolds ==
    ASSUME TypeOK, Packets, NothingBeforeStart, NEW p \in Procs, Serve(p), server' = "up",
           UNCHANGED clientVars, NEW q \in Procs, NEW row, Holds(q, row),
           Removes(p) => row.owner # Name[p]
    PROVE  HoldsThen(q, row)
<1>h. conn[q] \in {"open", "reset", "byEof"} /\ Name[q] = row.owner
      /\ \A i \in DOMAIN toServer[q] : toServer[q][i].command # "a"
  BY DEF Holds
<1>0. /\ Reads(p) /\ toServer[q] \in Seq(Packet) /\ toServer[p] \in Seq(Packet) /\ port' = port
      /\ server = "up"
  BY ServeCases DEF TypeOK, clientVars
<1>1. \A i \in DOMAIN toServer'[q] : toServer'[q][i].command # "a"
  <2>1. CASE q # p
    BY <1>0, <1>h, <2>1 DEF Reads
  <2>2. CASE q = p
    BY <1>0, <1>h, <2>2 DEF Reads
  <2> QED
    BY <2>1, <2>2
<1>2. conn'[q] \in {"open", "reset", "byEof"}
  <2>1. CASE q # p
    BY <1>0, <1>h, <2>1, ServeConns
  <2>2. CASE q = p
    <3>1. \E n : n \in 1..Len(toServer[p])
      BY ServeTakes
    <3>2. 1 \in DOMAIN toServer[p]
      BY <1>0, <3>1
    <3>3. toServer[p][1].command # "a"
      BY <1>h, <2>2, <3>2
    <3>4. Replies(p)
      BY <1>h, <2>2, <3>3, ServeCases
    <3> QED
      BY <1>0, <1>h, <3>4 DEF Replies, Told
  <2> QED
    BY <2>1, <2>2
<1> QED
  BY <1>0, <1>1, <1>2, HoldsOn

\* The rows of a joining client are new.
LEMMA JoinedRows ==
    ASSUME TypeOK, NothingBeforeStart, NEW p \in Procs, port[p] \in Ports, ~IsClient(Name[p]),
           NEW first \in FillList(p, port[p]), first[1].file # NoFile,
           NEW rest \in Seq(Row), \A i \in DOMAIN rest : rest[i].port = Junk,
           NEW i \in DOMAIN (list \o (first \o rest))
    PROVE  \/ /\ i \in DOMAIN list /\ (list \o (first \o rest))[i] = list[i]
              /\ list[i].owner # Name[p]
           \/ \E k \in DOMAIN first :
                 /\ i = Len(list) + k /\ (list \o (first \o rest))[i] = first[k]
                 /\ first[k].owner = Name[p] /\ first[k].port = port[p]
           \/ (list \o (first \o rest))[i].port = Junk
<1>1. list \in Seq(Row) /\ first \in Seq(Row)
  BY FillListRows DEF TypeOK
<1>2. \A k \in DOMAIN first : first[k].owner = Name[p] /\ first[k].port = port[p]
  BY FillListRows
<1>3. \A k \in DOMAIN list : list[k].owner # Name[p]
  BY DEF IsClient
<1> DEFINE all == list \o (first \o rest)
           l == Len(list)
           f == Len(first)
           r == Len(rest)
<1>4. /\ l \in Nat /\ f \in Nat /\ r \in Nat
      /\ DOMAIN list = 1..l /\ DOMAIN first = 1..f /\ DOMAIN rest = 1..r
      /\ DOMAIN all = 1..(l + (f + r))
      /\ \A k \in 1..l : all[k] = list[k]
      /\ \A k \in 1..f : all[l + k] = first[k]
      /\ \A k \in 1..r : all[l + (f + k)] = rest[k]
  <2>1. /\ l \in Nat /\ f \in Nat /\ r \in Nat
        /\ DOMAIN list = 1..l /\ DOMAIN first = 1..f /\ DOMAIN rest = 1..r
    BY <1>1
  <2> DEFINE more == first \o rest
  <2>2. more \in Seq(Row) /\ Len(more) = f + r /\ DOMAIN more = 1..(f + r)
        /\ (\A k \in 1..f : more[k] = first[k]) /\ (\A k \in 1..r : more[f + k] = rest[k])
    BY <1>1
  <2> HIDE DEF more
  <2>4. list \in Seq(Row) /\ l = Len(list)
    BY <1>1 DEF l
  <2> HIDE DEF l, f, r
  <2>3. /\ DOMAIN (list \o more) = 1..(l + (f + r))
        /\ \A k \in 1..l : (list \o more)[k] = list[k]
        /\ \A k \in 1..(f + r) : (list \o more)[l + k] = more[k]
    <3>0. /\ list \o more \in Seq(Row)
          /\ Len(list \o more) = Len(list) + Len(more)
          /\ \A k \in 1..(Len(list) + Len(more)) :
                 (list \o more)[k] = IF k <= Len(list) THEN list[k] ELSE more[k - Len(list)]
      BY <2>2, <2>4, ConcatProperties, Zenon
    <3>1. /\ list \o more \in Seq(Row)
          /\ Len(list \o more) = l + (f + r)
          /\ \A k \in 1..(l + (f + r)) :
                 (list \o more)[k] = IF k <= l THEN list[k] ELSE more[k - l]
      BY <2>2, <2>4, <3>0, Zenon
    <3>2. DOMAIN (list \o more) = 1..(l + (f + r))
      BY <3>1
    <3>3. \A k \in 1..(f + r) : l + k \in 1..(l + (f + r)) /\ ~(l + k <= l) /\ (l + k) - l = k
      BY <2>1
    <3>4. \A k \in 1..l : k \in 1..(l + (f + r)) /\ k <= l
      BY <2>1
    <3> QED
      BY <3>1, <3>2, <3>3, <3>4
  <2>5. \A k \in 1..f : k \in 1..(f + r)
    BY <2>1
  <2>6. \A k \in 1..r : f + k \in 1..(f + r)
    BY <2>1
  <2>7. all = list \o more
    BY DEF more
  <2> HIDE DEF all
  <2> QED
    BY <2>1, <2>2, <2>3, <2>5, <2>6, <2>7
<1> HIDE DEF all, l, f, r
<1>5. CASE i \in 1..l
  BY <1>3, <1>4, <1>5 DEF all
<1>6. CASE i \in (l + 1)..(l + f)
  <2>1. i - l \in 1..f /\ i = l + (i - l)
    BY <1>4, <1>6
  <2> QED
    BY <1>2, <1>4, <2>1 DEF all, l
<1>7. CASE i \in (l + f + 1)..(l + (f + r))
  <2>1. i - (l + f) \in 1..r /\ i = l + (f + (i - (l + f)))
    BY <1>4, <1>7
  <2>2. all[i] = rest[i - (l + f)]
    BY <1>4, <2>1
  <2> QED
    BY <1>4, <2>1, <2>2 DEF all
<1>8. i \in 1..(l + (f + r))
  BY <1>4 DEF all
<1> QED
  BY <1>4, <1>5, <1>6, <1>7, <1>8

\* A served connect packet puts rows on the list that differ.
LEMMA DifferServe ==
    ASSUME TypeOK, Packets, NothingBeforeStart, RowsDiffer, NEW p \in Procs, Serve(p)
    PROVE  RowsDiffer'
<1>0. list \in Seq(Row) /\ port[p] \in Ports
  BY ServeCases DEF TypeOK
<1>1. CASE list' = list
  BY <1>1 DEF RowsDiffer, Differ
<1>2. CASE Removes(p)
  <2>1. list' = Only(list, {e \in ToSet(list) : e.owner # Name[p]})
    BY <1>2 DEF Removes, RemoveFiles
  <2> QED
    BY <1>0, <2>1, OnlyDiffer DEF RowsDiffer
<1>3. CASE Joins(p) /\ list' # list
  <2>1. PICK first \in FillList(p, port[p]), rest \in Seq(Row) :
            /\ \A i \in DOMAIN rest : rest[i].port = Junk
            /\ first[1].file # NoFile /\ list' = list \o (first \o rest)
    BY <1>3 DEF Joins
  <2>2. ~IsClient(Name[p])
    BY <1>3 DEF Joins
  <2> SUFFICES ASSUME NEW i \in DOMAIN list', NEW j \in DOMAIN list',
                      list'[i] \in Ported, list'[i] = list'[j]
               PROVE  i = j
    BY DEF RowsDiffer, Differ
  <2>3. list'[i].port # Junk /\ list'[j].port # Junk
    BY DEF Ported
  <2>4. \/ i \in DOMAIN list /\ list'[i] = list[i] /\ list[i].owner # Name[p]
        \/ \E k \in DOMAIN first : i = Len(list) + k /\ list'[i] = first[k] /\ first[k].owner = Name[p]
    BY <1>0, <2>1, <2>2, <2>3, JoinedRows
  <2>5. \/ j \in DOMAIN list /\ list'[j] = list[j] /\ list[j].owner # Name[p]
        \/ \E k \in DOMAIN first : j = Len(list) + k /\ list'[j] = first[k] /\ first[k].owner = Name[p]
    BY <1>0, <2>1, <2>2, <2>3, JoinedRows
  <2>6. \A k, m \in DOMAIN first : first[k] = first[m] => k = m
    BY <1>0, <2>1, FillListDiffers
  <2>7. CASE i \in DOMAIN list /\ list'[i] = list[i] /\ list[i].owner # Name[p]
    BY <2>5, <2>7 DEF RowsDiffer, Differ
  <2>8. CASE \E k \in DOMAIN first : i = Len(list) + k /\ list'[i] = first[k] /\ first[k].owner = Name[p]
    BY <2>5, <2>6, <2>8
  <2> QED
    BY <2>4, <2>7, <2>8
<1>4. list' = list \/ Removes(p) \/ Joins(p)
  BY ServeCases DEF Reject, Replies
<1> QED
  BY <1>1, <1>2, <1>3, <1>4

\* After a served packet every row with a port is held.
LEMMA HeldServe ==
    ASSUME TypeOK, Packets, NothingBeforeStart, RowsHeld, NEW p \in Procs, Serve(p),
           UNCHANGED clientVars
    PROVE  RowsHeld'
<1> SUFFICES ASSUME server' = "up", NEW i \in DOMAIN list', list'[i].port # Junk
             PROVE  \E q \in Procs : HoldsThen(q, list'[i])
  BY DEF RowsHeld, Holds, HoldsThen
<1>0. /\ list \in Seq(Row) /\ port[p] \in Ports /\ server = "up" /\ port' = port
      /\ conn[p] \in {"open", "reset"} /\ toServer[p] \in Seq(Packet)
  BY ServeCases DEF TypeOK, clientVars
<1>1. ASSUME NEW j \in DOMAIN list, list'[i] = list[j], Removes(p) => list[j].owner # Name[p]
      PROVE  \E q \in Procs : HoldsThen(q, list'[i])
  <2>1. PICK q \in Procs : Holds(q, list[j])
    BY <1>0, <1>1 DEF RowsHeld
  <2>2. HoldsThen(q, list[j])
    BY <1>1, <2>1, ServeHolds
  <2> QED
    BY <1>1, <2>2
<1>2. CASE ~Removes(p) /\ list' = list
  BY <1>1, <1>2
<1>3. CASE Removes(p)
  <2>1. list' = Only(list, {e \in ToSet(list) : e.owner # Name[p]})
    BY <1>3 DEF Removes, RemoveFiles
  <2>2. PICK j \in DOMAIN list : list'[i] = list[j] /\ list[j].owner # Name[p]
    <3> DEFINE others == {e \in ToSet(list) : e.owner # Name[p]}
    <3>1. \A e \in others : e.owner # Name[p]
      OBVIOUS
    <3> HIDE DEF others
    <3>2. \E j \in DOMAIN list : Only(list, others)[i] = list[j] /\ list[j] \in others
      BY <1>0, <2>1, OnlyElements DEF others
    <3>3. \E j \in DOMAIN list : list'[i] = list[j] /\ list[j].owner # Name[p]
      BY <2>1, <3>1, <3>2 DEF others
    <3> QED
      BY <3>3
  <2> QED
    BY <1>1, <2>2
<1>4. CASE Joins(p) /\ ~Removes(p) /\ list' # list
  <2>1. PICK first \in FillList(p, port[p]), rest \in Seq(Row) :
            /\ \A k \in DOMAIN rest : rest[k].port = Junk
            /\ first[1].file # NoFile /\ list' = list \o (first \o rest)
    BY <1>4 DEF Joins
  <2>2. ~IsClient(Name[p])
    BY <1>4 DEF Joins
  <2>3. \/ i \in DOMAIN list /\ list'[i] = list[i]
        \/ \E k \in DOMAIN first : /\ list'[i] = first[k]
                                   /\ first[k].owner = Name[p] /\ first[k].port = port[p]
    BY <1>0, <2>1, <2>2, JoinedRows
  <2>4. ASSUME NEW k \in DOMAIN first, list'[i] = first[k],
               first[k].owner = Name[p], first[k].port = port[p]
        PROVE  HoldsThen(p, list'[i])
    <3>1. first[k].file \in ToSet(Shared[p]) \/ (first[k].file = Junk /\ Shared[p] = <<>>)
      BY <1>0, <2>1, FillListDiffers
    <3>2. conn'[p] \in {"open", "reset", "byEof"}
      BY <1>0, <1>4 DEF Joins, Told
    <3>3. \A m \in DOMAIN toServer'[p] : toServer'[p][m].command # "a"
      BY <1>0, ServeCases DEF Reads, Packets
    <3> QED
      BY <1>0, <2>4, <3>1, <3>2, <3>3 DEF HoldsThen
  <2> QED
    BY <1>1, <1>4, <2>3, <2>4
<1>5. list' = list \/ Removes(p) \/ Joins(p)
  BY ServeCases DEF Reject, Replies
<1> QED
  BY <1>2, <1>3, <1>4, <1>5

\* No step leaves a row with a port unheld, or twice on the list.
LEMMA RowsStep ==
    ASSUME TypeOK, Packets, NothingBeforeStart, BacklogHasA, RowsHeld, RowsDiffer, NEW p \in Procs,
           ServerSteps(p) \/ Start(p) \/ ClientSteps(p)
    PROVE  RowsHeld' /\ RowsDiffer'
<1>1. CASE ServerSteps(p) /\ Serve(p)
  BY <1>1, HeldServe, DifferServe DEF ServerSteps
<1>2. CASE (ServerSteps(p) /\ ~Serve(p)) \/ Start(p) \/ ClientSteps(p)
  <2>1. list' = list
    BY <1>2, QuietSteps
  <2>2. server' = server
    <3>1. ClientSteps(p) => server' = server
      BY ClientMoves DEF Moves
    <3> QED
      BY <1>2, <3>1 DEF ServerSteps, Accept, Hangup, Start
  <2>3. \A q \in Procs : \A row : Holds(q, row) => HoldsThen(q, row)
    BY <1>2, QuietHolds
  <2>4. RowsDiffer'
    BY <2>1 DEF RowsDiffer, Differ
  <2>5. RowsHeld'
    <3> SUFFICES ASSUME server = "up", NEW i \in DOMAIN list, list[i].port # Junk
                 PROVE  \E q \in Procs : HoldsThen(q, list[i])
      BY <2>1, <2>2 DEF RowsHeld, Holds, HoldsThen
    <3>1. PICK q \in Procs : Holds(q, list[i])
      BY DEF RowsHeld
    <3> QED
      BY <2>3, <3>1
  <2> QED
    BY <2>4, <2>5
<1> QED
  BY <1>1, <1>2

\* The numbers of the invariant are numbers.
LEMMA Counts ==
    ASSUME TypeOK, commands \in Nat
    PROVE  /\ Len(Only(list, Stray)) \in Nat /\ Cardinality(Unread) \in Nat
           /\ Cardinality(Unheard) \in Nat /\ Cardinality(Places) \in Nat
<1>1. list \in Seq(Row)
  BY DEF TypeOK
<1>2. Len(Only(list, Stray)) \in Nat
  <2>1. Only(list, Stray) \in Seq(Row)
    BY <1>1, OnlyType
  <2> QED
    BY <2>1
<1> QED
  BY <1>2, UnreadFinite, UnheardFinite, PlacesFinite, FS_CardinalityType

\* The packets to be read are finitely many after a step.
LEMMA UnreadFiniteThen ==
    ASSUME TypeOK'
    PROVE  IsFiniteSet(Unread')
<1> DEFINE all == [p \in Procs |-> {p} \X (1..Len(toServer'[p]))]
<1>1. \A p \in Procs : toServer'[p] \in Seq(Packet)
  BY DEF TypeOK
<1>2. ASSUME NEW p \in Procs PROVE IsFiniteSet(all[p])
  <2> DEFINE n == Len(toServer'[p])
  <2>1. n \in Nat /\ 1 <= n + 1
    BY <1>1
  <2>2. all[p] = {p} \X (1..n)
    OBVIOUS
  <2> HIDE DEF n, all
  <2>3. IsFiniteSet({p} \X (1..n))
    BY <2>1, PairsWith
  <2> QED
    BY <2>2, <2>3
<1>3. Unread' \subseteq UNION {all[p] : p \in Procs}
  <2> SUFFICES ASSUME NEW p \in Procs, NEW i \in DOMAIN toServer'[p]
               PROVE  <<p, i>> \in all[p]
    BY DEF Unread, SentBy
  <2>1. i \in 1..Len(toServer'[p])
    BY <1>1
  <2> QED
    BY <2>1
<1> HIDE DEF all
<1>4. IsFiniteSet(UNION {all[p] : p \in Procs})
  BY <1>2, UnionFinite, FileServerAssumption
<1> QED
  BY <1>3, <1>4, FS_Subset

\* So are the clients whose exit is not heard, and a step that hears one exit
\* leaves one fewer.
LEMMA UnheardThen ==
    /\ IsFiniteSet(Unheard')
    /\ Unheard \subseteq Unheard' => Cardinality(Unheard) <= Cardinality(Unheard')
    /\ \A p : Unheard \subseteq Unheard' \cup {p} => Cardinality(Unheard) <= Cardinality(Unheard') + 1
<1>1. IsFiniteSet(Unheard')
  <2>1. Unheard' \subseteq Procs
    BY DEF Unheard
  <2> QED
    BY <2>1, FS_Subset, FileServerAssumption
<1>2. Unheard \subseteq Unheard' => Cardinality(Unheard) <= Cardinality(Unheard')
  BY <1>1, FS_Subset
<1>3. ASSUME NEW p, Unheard \subseteq Unheard' \cup {p}
      PROVE  Cardinality(Unheard) <= Cardinality(Unheard') + 1
  <2>1. /\ IsFiniteSet(Unheard' \cup {p})
        /\ Cardinality(Unheard' \cup {p}) =
              IF p \in Unheard' THEN Cardinality(Unheard') ELSE Cardinality(Unheard') + 1
    BY <1>1, FS_AddElement
  <2>2. Cardinality(Unheard) <= Cardinality(Unheard' \cup {p})
    BY <1>3, <2>1, FS_Subset
  <2>3. Cardinality(Unheard') \in Nat /\ Cardinality(Unheard) \in Nat
    BY <1>1, UnheardFinite, FS_CardinalityType
  <2> QED
    BY <2>1, <2>2, <2>3
<1> QED
  BY <1>1, <1>2, <1>3

\* What a served packet puts on the list it takes from the stream.
LEMMA StraysServe ==
    ASSUME TypeOK, TypeOK', commands \in Nat, Packets, NothingBeforeStart, StraysCounted,
           NEW p \in Procs, Serve(p), UNCHANGED clientVars
    PROVE  StraysCounted'
<1> SUFFICES ASSUME server' = "up"
             PROVE  Len(Only(list', Stray)) + Cardinality(Unread')
                       <= commands + Cardinality(Unheard')
  BY DEF StraysCounted, clientVars
<1>0. /\ server = "up" /\ pc' = pc /\ toServer[p] \in Seq(Packet) /\ commands' = commands
      /\ conn[p] \in {"open", "reset"}
  BY ServeCases DEF TypeOK, clientVars
<1>1. Len(Only(list, Stray)) + Cardinality(Unread) <= commands + Cardinality(Unheard)
  BY <1>0 DEF StraysCounted
<1>2. PICK n \in 1..Len(toServer[p]) :
          /\ Taken(p, n)
          /\ Len(Only(list', Stray)) <= Len(Only(list, Stray))
                 + (IF toServer[p][1].command = "a" THEN n - 1 ELSE 0)
  BY ServeTakes
<1>3. /\ Len(Only(list, Stray)) \in Nat /\ Cardinality(Unread) \in Nat /\ Cardinality(Unheard) \in Nat
      /\ n \in Nat \ {0}
  BY <1>0, Counts
<1>4. /\ Len(Only(list', Stray)) \in Nat /\ Cardinality(Unread') \in Nat
      /\ Cardinality(Unheard') \in Nat
  <2>1. Only(list', Stray) \in Seq(Row)
    <3>1. list' \in Seq(Row)
      BY DEF TypeOK
    <3> QED
      BY <3>1, OnlyType
  <2>2. IsFiniteSet(Unheard')
    <3>1. Unheard' \subseteq Procs
      BY DEF Unheard
    <3> QED
      BY <3>1, FS_Subset, FileServerAssumption
  <2>3. IsFiniteSet(Unread')
    BY UnreadFiniteThen
  <2> QED
    BY <2>1, <2>2, <2>3, FS_CardinalityType
<1>5. \A i \in 2..n : toServer[p][i].command # "a"
  BY <1>0 DEF Packets
<1>6. CASE toServer[p][1].command = "a"
  <2>1. Cardinality(Unread') + (n - 1) <= Cardinality(Unread)
    BY <1>2, <1>3, <1>4, <1>5, TakenFewer
  <2>2. \A q \in Procs : conn'[q] = "byExit" => conn[q] = "byExit"
    BY <1>0, <1>6, ServeCases DEF Reject, Joins, Told, TypeOK
  <2>3. Unheard \subseteq Unheard'
    BY <1>0, <2>2 DEF Unheard
  <2>4. Cardinality(Unheard) <= Cardinality(Unheard')
    BY <2>3, UnheardThen
  <2> QED
    BY <1>1, <1>2, <1>3, <1>4, <1>6, <2>1, <2>4
<1>7. CASE toServer[p][1].command # "a"
  <2>1. Cardinality(Unread') + n <= Cardinality(Unread)
    <3>1. \A i \in 1..n : toServer[p][i].command # "a"
      BY <1>3, <1>5, <1>7
    <3> QED
      BY <1>2, <1>3, <1>4, <3>1, TakenFewer
  <2>2. Cardinality(Unheard) <= Cardinality(Unheard') + 1
    <3>1. \A q \in Procs \ {p} : conn'[q] = "byExit" => conn[q] = "byExit"
      BY ServeConns
    <3>2. Unheard \subseteq Unheard' \cup {p}
      BY <1>0, <3>1 DEF Unheard
    <3> QED
      BY <3>2, UnheardThen
  <2> QED
    BY <1>1, <1>2, <1>3, <1>4, <1>7, <2>1, <2>2
<1> QED
  BY <1>6, <1>7

\* A client pays for each packet that it sends behind the connect packet.
LEMMA StraysClient ==
    ASSUME TypeOK, commands \in Nat, StraysCounted, NEW p \in Procs, ClientSteps(p)
    PROVE  StraysCounted' /\ commands' \in Nat
<1>0. /\ UNCHANGED <<list, server, conn>> /\ Alive(p)
      /\ \A q \in Procs \ {p} : toServer'[q] = toServer[q] /\ pc'[q] = pc[q]
  BY ClientMoves DEF Moves
<1>1. Unheard \subseteq Unheard' /\ p \notin Unheard
  BY <1>0 DEF Unheard, Alive, Ended
<1>2. Cardinality(Unheard) <= Cardinality(Unheard')
  BY <1>1, UnheardThen
<1>3. /\ Len(Only(list, Stray)) \in Nat /\ Cardinality(Unread) \in Nat /\ Cardinality(Unheard) \in Nat
      /\ Cardinality(Unheard') \in Nat
  BY Counts, UnheardThen, FS_CardinalityType
<1>4. commands' = commands \/ commands' = commands + 1
  BY DEF ClientSteps, Reacts, Hear, LoseServer, AcceptGet, ServeGet, Ask, SendName,
         TakeReply, Ls, Exit, Kill, Get, Command
<1>5. CASE toServer'[p] = toServer[p]
  <2>1. Unread' = Unread
    BY <1>0, <1>5 DEF Unread, SentBy
  <2> QED
    BY <1>0, <1>2, <1>3, <1>4, <2>1 DEF StraysCounted
<1>6. CASE toServer'[p] # toServer[p]
  <2>1. PICK m \in {[command |-> "b", rows |-> <<Entry(Junk, Junk, Junk)>>],
                    [command |-> "c", rows |-> <<Entry(Junk, Name[p], Junk)>>]} :
            toServer'[p] = Append(toServer[p], m)
    BY <1>6, ClientMoves DEF Moves
  <2>2. m \in Packet
    <3>1. Entry(Junk, Junk, Junk) \in Row /\ Entry(Junk, Name[p], Junk) \in Row
      BY DEF Entry, Row
    <3>2. \A e \in Row : <<e>> \in Seq(Row)
      OBVIOUS
    <3> HIDE DEF Entry
    <3>3. \A rows \in Seq(Row) : [command |-> "b", rows |-> rows] \in Packet
                                 /\ [command |-> "c", rows |-> rows] \in Packet
      BY DEF Packet
    <3> QED
      BY <2>1, <3>1, <3>2, <3>3
  <2>3. Cardinality(Unread') <= Cardinality(Unread) + 1 /\ Cardinality(Unread') \in Nat
    BY <1>0, <2>1, <2>2, SentOneMore
  <2>4. Ls(p) \/ Exit(p)
    BY <1>6 DEF ClientSteps, Reacts, Hear, LoseServer, AcceptGet, ServeGet, Ask, SendName,
           TakeReply, Kill, Get
  <2>5. CASE Ls(p)
    <3>1. commands' = commands + 1
      BY <2>5 DEF Ls, Command
    <3> QED
      BY <1>0, <1>2, <1>3, <2>3, <3>1 DEF StraysCounted
  <2>6. CASE Exit(p)
    <3>1. pc'[p] = "exited" /\ conn[p] # "byExit"
      <4>1. DOMAIN pc = Procs /\ DOMAIN toServer = Procs
        BY DEF TypeOK
      <4> QED
        BY <1>6, <2>6, <4>1 DEF Exit, EndAs, EndIn, Send
    <3>2. Unheard \cup {p} \subseteq Unheard'
      BY <1>0, <1>1, <3>1 DEF Unheard
    <3>3. IsFiniteSet(Unheard \cup {p}) /\ Cardinality(Unheard \cup {p}) = Cardinality(Unheard) + 1
      BY <1>1, UnheardFinite, FS_AddElement
    <3>4. Cardinality(Unheard) + 1 <= Cardinality(Unheard')
      BY <3>2, <3>3, UnheardThen, FS_Subset
    <3>5. commands' = commands
      BY <2>6 DEF Exit
    <3> QED
      BY <1>0, <1>3, <2>3, <3>4, <3>5 DEF StraysCounted
  <2> QED
    BY <1>4, <2>4, <2>5, <2>6
<1> QED
  BY <1>5, <1>6

\* No step puts more on the list than was sent.
LEMMA StraysStep ==
    ASSUME TypeOK, TypeOK', commands \in Nat, Packets, NothingBeforeStart, StraysCounted,
           NEW p \in Procs, ServerSteps(p) \/ Start(p) \/ ClientSteps(p)
    PROVE  StraysCounted' /\ commands' \in Nat
<1>1. CASE ServerSteps(p) /\ Serve(p)
  BY <1>1, StraysServe DEF ServerSteps, clientVars
<1>2. CASE ServerSteps(p) /\ ~Serve(p)
  <2>1. UNCHANGED <<list, server, toServer, pc, commands>>
    BY <1>2 DEF ServerSteps, Accept, Hangup, clientVars
  <2>2. Unheard' = Unheard /\ Unread' = Unread
    <3>1. \A q \in Procs : conn'[q] = "byExit" <=> conn[q] = "byExit"
      BY <1>2 DEF ServerSteps, Accept, Hangup, TypeOK
    <3> QED
      BY <2>1, <3>1 DEF Unheard, Unread, SentBy
  <2> QED
    BY <2>1, <2>2 DEF StraysCounted
<1>3. CASE Start(p)
  <2>1. UNCHANGED <<list, server, commands>> /\ pc[p] = "off"
    BY <1>3 DEF Start
  <2>2. PICK n, rows : toServer' = [toServer EXCEPT ![p] = <<[command |-> "a", rows |-> rows]>>]
                        /\ port' = n
    BY <1>3 DEF Start
  <2>3. Unread' = Unread
    <3>1. toServer[p] = <<>> /\ DOMAIN toServer = Procs
      BY <2>1 DEF NothingBeforeStart, TypeOK
    <3>2. \A q \in Procs \ {p} : SentBy(q)' = SentBy(q)
      BY <2>2, <3>1 DEF SentBy
    <3>3. SentBy(p) = {} /\ SentBy(p)' = {}
      BY <2>2, <3>1 DEF SentBy
    <3>4. \A q \in Procs : SentBy(q)' = SentBy(q)
      BY <3>2, <3>3
    <3> QED
      BY <3>4 DEF Unread
  <2>4. Unheard' = Unheard
    BY <1>3, <2>1 DEF Start, Unheard, TypeOK
  <2> QED
    BY <2>1, <2>3, <2>4 DEF StraysCounted
<1>4. CASE ClientSteps(p)
  BY <1>4, StraysClient
<1> QED
  BY <1>1, <1>2, <1>3, <1>4

\* The place stands for the row.
IsFor(x, row) ==
    /\ Name[x[1]] = row.owner /\ port[x[1]] = row.port
    /\ \/ Shared[x[1]] = <<>> /\ row.file = Junk
       \/ x[2] \in DOMAIN Shared[x[1]] /\ Shared[x[1]][x[2]] = row.file

\* Every row that is held has a place of its own.
LEMMA HeldHasPlace ==
    ASSUME NEW p \in Procs, NEW row, Holds(p, row)
    PROVE  \E x \in Places : IsFor(x, row)
<1>1. RowsOf(p) \subseteq Places
  BY DEF Holds, Places
<1>2. CASE row.file \in ToSet(Shared[p])
  <2>1. PICK k \in DOMAIN Shared[p] : Shared[p][k] = row.file
    BY <1>2 DEF ToSet
  <2>2. <<p, k>> \in RowsOf(p)
    BY DEF RowsOf
  <2>3. IsFor(<<p, k>>, row)
    BY <2>1 DEF IsFor, Holds
  <2> QED
    BY <1>1, <2>2, <2>3
<1>3. CASE row.file = Junk /\ Shared[p] = <<>>
  <2>1. <<p, 1>> \in RowsOf(p)
    BY DEF RowsOf
  <2>2. IsFor(<<p, 1>>, row)
    BY <1>3 DEF IsFor, Holds
  <2> QED
    BY <1>1, <2>1, <2>2
<1> QED
  BY <1>2, <1>3 DEF Holds

\* A place stands for one row only.
LEMMA PlaceIsForOne ==
    ASSUME NEW row \in Row, NEW other \in Row, NEW x, IsFor(x, row), IsFor(x, other)
    PROVE  row = other
<1>1. row.owner = other.owner /\ row.port = other.port
  BY DEF IsFor
<1>2. row.file = other.file
  BY DEF IsFor
<1>3. /\ row = [file |-> row.file, owner |-> row.owner, port |-> row.port]
      /\ other = [file |-> other.file, owner |-> other.owner, port |-> other.port]
  BY DEF Row
<1> QED
  BY <1>1, <1>2, <1>3

\* The rows with a port fit in the places.
LEMMA PortedFit ==
    ASSUME TypeOK, RowsHeld, RowsDiffer, server = "up"
    PROVE  Len(Only(list, Ported)) <= Cardinality(Places)
<1> DEFINE s == Only(list, Ported)
           n == Len(s)
           f == [i \in 1..n |-> CHOOSE x \in Places : IsFor(x, s[i])]
<1>0. list \in Seq(Row)
  BY DEF TypeOK
<1>1. s \in Seq(Row) /\ n \in Nat /\ DOMAIN s = 1..n /\ \A i \in 1..n : s[i] \in Row
  <2>1. s \in Seq(Row)
    BY <1>0, OnlyType
  <2> HIDE DEF s
  <2> QED
    BY <2>1
<1>2. Differ(s, Ported)
  BY <1>0, OnlyDiffer DEF RowsDiffer
<1>3. ASSUME NEW i \in 1..n
      PROVE  s[i] \in Ported /\ \E x \in Places : IsFor(x, s[i])
  <2>1. PICK j \in DOMAIN list : s[i] = list[j] /\ list[j] \in Ported
    BY <1>0, <1>1, OnlyElements
  <2>2. PICK p \in Procs : Holds(p, list[j])
    BY <2>1 DEF RowsHeld, Ported
  <2> QED
    BY <2>1, <2>2, HeldHasPlace
<1> HIDE DEF s, n
<1>4. \A i \in 1..n : f[i] \in Places /\ IsFor(f[i], s[i])
  BY <1>3
<1>5. f \in [1..n -> Places]
  BY <1>4
<1>6. ASSUME NEW i \in 1..n, NEW j \in 1..n, f[i] = f[j] PROVE i = j
  <2> HIDE DEF f
  <2>1. s[i] = s[j]
    BY <1>1, <1>4, <1>6, PlaceIsForOne
  <2> QED
    BY <1>1, <1>2, <1>3, <2>1 DEF Differ
<1> HIDE DEF f
<1>7. Cardinality(1..n) <= Cardinality(Places)
  BY <1>5, <1>6, PlacesFinite, Injects
<1>8. Cardinality(1..n) = n
  <2>1. Cardinality(1..n) = IF 1 > n THEN 0 ELSE n - 1 + 1
    BY <1>1, FS_Interval
  <2> QED
    BY <1>1, <2>1
<1> QED
  BY <1>7, <1>8 DEF n, s

\* Rows with a port and rows without make the bound.
LEMMA ListFits ==
    ASSUME TypeOK, commands \in Nat, RowsHeld, RowsDiffer, StraysCounted
    PROVE  ListBounded
<1> SUFFICES ASSUME server = "up"
             PROVE  Len(list) <= Cardinality(Places) + commands + Cardinality(Unheard)
  BY DEF ListBounded
<1>1. list \in Seq(Row) /\ Len(list) \in Nat
  BY DEF TypeOK
<1>2. Ported \cap Stray = {} /\ Row \subseteq Ported \cup Stray
  BY DEF Ported, Stray
<1>3. Len(list) = Len(Only(list, Ported)) + Len(Only(list, Stray))
  BY <1>1, <1>2, OnlyBoth
<1>4. Len(Only(list, Ported)) \in Nat
  <2>1. Only(list, Ported) \in Seq(Row)
    BY <1>1, OnlyType
  <2> QED
    BY <2>1
<1>5. /\ Len(Only(list, Stray)) \in Nat /\ Cardinality(Unread) \in Nat
      /\ Cardinality(Unheard) \in Nat /\ Cardinality(Places) \in Nat
  BY Counts
<1>6. Len(Only(list, Stray)) + Cardinality(Unread) <= commands + Cardinality(Unheard)
  BY DEF StraysCounted
<1> QED
  BY <1>3, <1>4, <1>5, <1>6, PortedFit

\* What the bound rests on.
BoundInv == commands \in Nat /\ RowsHeld /\ RowsDiffer /\ StraysCounted

\* The list is no longer than the files of the clients the server has not seen
\* leave, and what was read behind connect packets, whoever comes, leaves or is
\* killed (server_PFS.c:188-192).
THEOREM ListBoundedHolds == Spec => []ListBounded
<1>1. Init => BoundInv
  <2> SUFFICES ASSUME Init PROVE BoundInv
    OBVIOUS
  <2>1. list = <<>> /\ commands = 0 /\ toServer = [p \in Procs |-> <<>>]
    BY DEF Init, ServerInit
  <2>2. Only(list, Stray) = <<>>
    BY <2>1, OnlyEmpty
  <2>3. Unread = {}
    BY <2>1 DEF Unread, SentBy
  <2>4. Cardinality(Unread) = 0 /\ Cardinality(Unheard) \in Nat
    BY <2>3, FS_EmptySet, UnheardFinite, FS_CardinalityType
  <2> QED
    BY <2>1, <2>2, <2>4 DEF BoundInv, RowsHeld, RowsDiffer, Differ, StraysCounted
<1>2. IInv /\ IInv' /\ BoundInv /\ [Next]_vars => BoundInv'
  <2> SUFFICES ASSUME IInv, IInv', BoundInv, [Next]_vars PROVE BoundInv'
    OBVIOUS
  <2>1. CASE Next
    <3>1. PICK p \in Procs : ServerSteps(p) \/ Start(p) \/ ClientSteps(p)
      BY <2>1, StepCases
    <3>2. RowsHeld' /\ RowsDiffer'
      BY <3>1, RowsStep DEF IInv, BoundInv
    <3>3. StraysCounted' /\ commands' \in Nat
      BY <3>1, StraysStep DEF IInv, BoundInv
    <3> QED
      BY <3>2, <3>3 DEF BoundInv
  <2>2. CASE UNCHANGED vars
    BY <2>2 DEF vars, clientVars, serverVars, BoundInv, RowsHeld, Holds, RowsDiffer, Differ,
           StraysCounted, Unread, SentBy, Unheard
  <2> QED
    BY <2>1, <2>2
<1>3. IInv /\ BoundInv => ListBounded
  BY ListFits DEF IInv, BoundInv
<1> QED
  BY <1>1, <1>2, <1>3, Invariance, PTL DEF Spec
=============================================================================
