-------------------------- MODULE LinkState_proofs --------------------------
(***************************************************************************)
(* The connections of LinkSetup have two ends that agree, in any network:  *)
(* whatever the order of the routers' calls, nobody floods before all of   *)
(* its connections are there.  It stays true of routers that flood, relay, *)
(* hang in shortpath and end, while others still connect.                  *)
(***************************************************************************)
EXTENDS LinkState, SequenceLemmas, FiniteSetTheorems

-----------------------------------------------------------------------------
(* The set-up *)

\* Neighbours are routers, and neighbours of each other.
LEMMA NeighborFacts ==
    ASSUME NEW r \in Routers, NEW s \in NeighborSet(r)
    PROVE  s \in Routers /\ r \in NeighborSet(s) /\ r # s
<1>1. Neighbors[r] \in Seq(Routers)
  BY NeighborsAssumption
<1>2. s \in Routers
  BY <1>1 DEF NeighborSet, ToSet
<1> QED
  BY <1>2, NeighborsAssumption DEF NeighborSet

\* The effect of setting one router's socket.
LEMMA SetFacts ==
    ASSUME SetupTypeOK, NEW r \in Routers, NEW s \in NeighborSet(r),
           NEW state \in SocketStates, Set(r, s, state)
    PROVE  /\ DOMAIN sock' = Routers
           /\ \A q \in Routers : sock'[q] \in [NeighborSet(q) -> SocketStates]
           /\ sock'[r][s] = state
           /\ \A q \in Routers : \A t \in NeighborSet(q) :
                  q # r \/ t # s => sock'[q][t] = sock[q][t]
BY DEF Set, SetupTypeOK

\* No socket is connected or pending in the beginning.
LEMMA SetupInitInv == SetupInit => SetupIInv
<1> SUFFICES ASSUME SetupInit PROVE SetupIInv
  OBVIOUS
<1>1. SetupTypeOK
  BY DEF SetupInit, SetupTypeOK, SocketStates
<1>2. EndsAgree
  BY DEF SetupInit, EndsAgree
<1>3. OpenIsConnected
  BY DEF SetupInit, OpenIsConnected, InSetup
<1> QED
  BY <1>1, <1>2, <1>3 DEF SetupIInv

\* A socket without a connection may go to another state without one.
LEMMA SetInv ==
    ASSUME SetupIInv, NEW r \in Routers, NEW s \in NeighborSet(r),
           NEW state \in {"failed", "listening"}, Set(r, s, state),
           sock[r][s] \in {"closed", "failed"},
           phase[r] = "connecting", phase' = phase
    PROVE  SetupIInv'
<1> USE DEF SetupIInv
<1>1. s \in Routers /\ r \in NeighborSet(s) /\ r # s
  BY NeighborFacts
<1>2. /\ DOMAIN sock' = Routers
      /\ \A q \in Routers : sock'[q] \in [NeighborSet(q) -> SocketStates]
      /\ sock'[r][s] = state
      /\ \A q \in Routers : \A t \in NeighborSet(q) :
             q # r \/ t # s => sock'[q][t] = sock[q][t]
  <2>1. state \in SocketStates
    BY DEF SocketStates
  <2> QED
    BY <2>1, SetFacts
<1>3. SetupTypeOK'
  BY <1>2 DEF SetupTypeOK
<1>4. sock[s][r] \notin {"connected", "pending"}
  BY <1>1 DEF EndsAgree
<1>5. EndsAgree'
  <2> SUFFICES ASSUME NEW q \in Routers, NEW t \in NeighborSet(q)
               PROVE  /\ sock'[q][t] = "connected" => sock'[t][q] \in {"connected", "pending"}
                      /\ sock'[q][t] = "pending" => sock'[t][q] = "connected"
    BY DEF EndsAgree
  <2>1. t \in Routers /\ q \in NeighborSet(t) /\ q # t
    BY NeighborFacts
  <2>2. CASE q = r /\ t = s
    BY <2>2, <1>2
  <2>3. CASE q = s /\ t = r
    <3>1. sock'[q][t] = sock[s][r]
      BY <2>3, <2>1, <1>2
    <3> QED
      BY <3>1, <1>4
  <2>4. CASE ~(q = r /\ t = s) /\ ~(q = s /\ t = r)
    <3>1. sock'[q][t] = sock[q][t] /\ sock'[t][q] = sock[t][q]
      BY <2>4, <2>1, <1>2
    <3> QED
      BY <3>1, <2>1 DEF EndsAgree
  <2> QED
    BY <2>2, <2>3, <2>4
<1>6. OpenIsConnected'
  <2> SUFFICES ASSUME NEW q \in Routers, ~InSetup(q)'
               PROVE  AllConnected(sock'[q])
    BY DEF OpenIsConnected
  <2>1. ~InSetup(q) /\ q # r
    BY DEF InSetup
  <2>2. DOMAIN sock'[q] = NeighborSet(q) /\ DOMAIN sock[q] = NeighborSet(q)
    BY <1>2 DEF SetupTypeOK
  <2>3. AllConnected(sock[q])
    BY <2>1 DEF OpenIsConnected
  <2> QED
    BY <2>1, <2>2, <2>3, <1>2 DEF AllConnected
<1> QED
  BY <1>3, <1>5, <1>6

\* A connect that succeeds makes both ends, one that fails neither: a socket
\* not yet connected has no connected or pending one opposite.
LEMMA ConnectInv ==
    ASSUME SetupIInv, NEW r \in Routers, NEW s \in NeighborSet(r), Connect(r, s)
    PROVE  SetupIInv'
<1> USE DEF SetupIInv
<1>1. s \in Routers /\ r \in NeighborSet(s) /\ r # s
  BY NeighborFacts
<1>2. sock[r][s] = "closed" /\ phase[r] = "connecting" /\ phase' = phase
  BY DEF Connect, NextToConnect
<1>3. CASE sock[s][r] = "listening"
  <2>1. sock' = [sock EXCEPT ![r][s] = "connected", ![s][r] = "pending"]
    BY <1>3 DEF Connect
  <2>2. DOMAIN sock' = Routers
    BY <2>1 DEF SetupTypeOK
  <2>3. \A q \in Routers : sock'[q] \in [NeighborSet(q) -> SocketStates]
    BY <2>1, <1>1 DEF SetupTypeOK, SocketStates
  <2>4. sock'[r][s] = "connected" /\ sock'[s][r] = "pending"
    BY <2>1, <1>1 DEF SetupTypeOK
  <2>5. \A q \in Routers : \A t \in NeighborSet(q) :
            ~(q = r /\ t = s) /\ ~(q = s /\ t = r) => sock'[q][t] = sock[q][t]
    BY <2>1, <1>1 DEF SetupTypeOK
  <2>6. SetupTypeOK'
    BY <2>2, <2>3, <1>2 DEF SetupTypeOK
  <2>7. EndsAgree'
    <3> SUFFICES ASSUME NEW q \in Routers, NEW t \in NeighborSet(q)
                 PROVE  /\ sock'[q][t] = "connected" => sock'[t][q] \in {"connected", "pending"}
                        /\ sock'[q][t] = "pending" => sock'[t][q] = "connected"
      BY DEF EndsAgree
    <3>1. t \in Routers /\ q \in NeighborSet(t)
      BY NeighborFacts
    <3>2. CASE (q = r /\ t = s) \/ (q = s /\ t = r)
      BY <3>2, <2>4
    <3>3. CASE ~(q = r /\ t = s) /\ ~(q = s /\ t = r)
      <4>1. sock'[q][t] = sock[q][t] /\ sock'[t][q] = sock[t][q]
        BY <3>3, <3>1, <2>5
      <4> QED
        BY <4>1, <3>1 DEF EndsAgree
    <3> QED
      BY <3>2, <3>3
  <2>8. OpenIsConnected'
    <3> SUFFICES ASSUME NEW q \in Routers, ~InSetup(q)'
                 PROVE  AllConnected(sock'[q])
      BY DEF OpenIsConnected
    <3>1. ~InSetup(q) /\ q # r
      BY <1>2 DEF InSetup
    <3>2. DOMAIN sock'[q] = NeighborSet(q) /\ DOMAIN sock[q] = NeighborSet(q)
      BY <2>3 DEF SetupTypeOK
    <3>3. AllConnected(sock[q])
      BY <3>1 DEF OpenIsConnected
    <3>4. \A t \in NeighborSet(q) : sock[q][t] = "connected" => sock'[q][t] = "connected"
      BY <3>1, <2>5, <1>3
    <3> QED
      BY <3>2, <3>3, <3>4 DEF AllConnected
  <2> QED
    BY <2>6, <2>7, <2>8
<1>4. CASE sock[s][r] # "listening"
  <2>1. Set(r, s, "failed")
    BY <1>4 DEF Connect
  <2> QED
    BY <2>1, <1>2, SetInv
<1> QED
  BY <1>3, <1>4

\* Nothing is accepted that is not connected at the other end, and what is
\* accepted then agrees with it; main goes on only when all are connected.
LEMMA AcceptInv ==
    ASSUME SetupIInv, NEW r \in Routers, Accept(r)
    PROVE  SetupIInv'
<1> USE DEF SetupIInv
<1> DEFINE at == [s \in NeighborSet(r) |->
                    IF sock[r][s] = "pending" THEN "connected" ELSE sock[r][s]]
<1>1. sock' = [sock EXCEPT ![r] = at] /\ CheckConnections(r, at)
  BY DEF Accept
<1>2. at \in [NeighborSet(r) -> SocketStates]
  BY DEF SetupTypeOK, SocketStates
<1>3. /\ DOMAIN sock' = Routers /\ sock'[r] = at
      /\ \A q \in Routers : q # r => sock'[q] = sock[q]
  BY <1>1 DEF SetupTypeOK
<1>4. /\ DOMAIN phase' = Routers
      /\ phase'[r] = IF AllConnected(at) THEN "open" ELSE "accepting"
      /\ \A q \in Routers : q # r => phase'[q] = phase[q]
  BY <1>1 DEF CheckConnections, SetupTypeOK
<1> HIDE DEF at
<1>5. SetupTypeOK'
  BY <1>2, <1>3, <1>4 DEF SetupTypeOK
<1>6. EndsAgree'
  <2> SUFFICES ASSUME NEW q \in Routers, NEW t \in NeighborSet(q)
               PROVE  /\ sock'[q][t] = "connected" => sock'[t][q] \in {"connected", "pending"}
                      /\ sock'[q][t] = "pending" => sock'[t][q] = "connected"
    BY DEF EndsAgree
  <2>1. t \in Routers /\ q \in NeighborSet(t) /\ q # t
    BY NeighborFacts
  <2>2. /\ sock[q][t] = "connected" => sock[t][q] \in {"connected", "pending"}
        /\ sock[q][t] = "pending" => sock[t][q] = "connected"
        /\ sock[t][q] = "pending" => sock[q][t] = "connected"
    BY <2>1 DEF EndsAgree
  <2>3. CASE q = r
    <3>1. sock'[q][t] = IF sock[q][t] = "pending" THEN "connected" ELSE sock[q][t]
      BY <2>3, <1>3 DEF at
    <3>2. sock'[t][q] = sock[t][q]
      BY <2>3, <2>1, <1>3
    <3> QED
      BY <3>1, <3>2, <2>2
  <2>4. CASE t = r
    <3>1. sock'[t][q] = IF sock[t][q] = "pending" THEN "connected" ELSE sock[t][q]
      BY <2>4, <2>1, <1>3 DEF at
    <3>2. sock'[q][t] = sock[q][t]
      BY <2>4, <2>1, <1>3
    <3> QED
      BY <3>1, <3>2, <2>2
  <2>5. CASE q # r /\ t # r
    BY <2>5, <2>1, <2>2, <1>3
  <2> QED
    BY <2>3, <2>4, <2>5
<1>7. OpenIsConnected'
  <2> SUFFICES ASSUME NEW q \in Routers, ~InSetup(q)'
               PROVE  AllConnected(sock'[q])
    BY DEF OpenIsConnected
  <2>1. CASE q = r
    BY <2>1, <1>3, <1>4 DEF InSetup
  <2>2. CASE q # r
    <3>1. ~InSetup(q) /\ sock'[q] = sock[q]
      BY <2>2, <1>3, <1>4 DEF InSetup
    <3> QED
      BY <3>1 DEF OpenIsConnected
  <2> QED
    BY <2>1, <2>2
<1> QED
  BY <1>5, <1>6, <1>7

\* The check after the loop of connects touches no socket.
LEMMA EndConnectsInv ==
    ASSUME SetupIInv, NEW r \in Routers, EndConnects(r)
    PROVE  SetupIInv'
<1> USE DEF SetupIInv
<1>1. sock' = sock /\ CheckConnections(r, sock[r])
  BY DEF EndConnects
<1>2. /\ DOMAIN phase' = Routers
      /\ phase'[r] = IF AllConnected(sock[r]) THEN "open" ELSE "accepting"
      /\ \A q \in Routers : q # r => phase'[q] = phase[q]
  BY <1>1 DEF CheckConnections, SetupTypeOK
<1>3. SetupTypeOK' /\ EndsAgree'
  BY <1>1, <1>2 DEF SetupTypeOK, EndsAgree
<1>4. OpenIsConnected'
  <2> SUFFICES ASSUME NEW q \in Routers, ~InSetup(q)'
               PROVE  AllConnected(sock[q])
    BY <1>1 DEF OpenIsConnected
  <2>1. q = r => AllConnected(sock[r])
    BY <1>2 DEF InSetup
  <2>2. q # r => ~InSetup(q)
    BY <1>2 DEF InSetup
  <2> QED
    BY <2>1, <2>2 DEF OpenIsConnected
<1> QED
  BY <1>3, <1>4

\* Every step of a router's set-up keeps the invariant: the lemma that the
\* routers that flood rest on, too.
LEMMA SetupStepInv ==
    ASSUME SetupIInv, NEW r \in Routers, Setup(r)
    PROVE  SetupIInv'
<1>1. CASE \E s \in NeighborSet(r) : Connect(r, s)
  BY <1>1, ConnectInv
<1>2. CASE \E s \in NeighborSet(r) : Listen(r, s)
  <2>1. PICK s \in NeighborSet(r) : Listen(r, s)
    BY <1>2
  <2>2. /\ Set(r, s, "listening") /\ sock[r][s] = "failed"
        /\ phase[r] = "connecting" /\ phase' = phase
    BY <2>1 DEF Listen
  <2> QED
    BY <2>2, SetInv
<1> QED
  BY <1>1, <1>2, EndConnectsInv, AcceptInv DEF Setup

\* In any network and any order of the calls, the two ends of every
\* connection agree and no router goes on without all of its connections
\* (routed_LS.c:231-282).
THEOREM SetupInvariance == SetupSpec => []SetupIInv
<1>1. SetupIInv /\ [SetupNext]_setupVars => SetupIInv'
  <2> SUFFICES ASSUME SetupIInv, [SetupNext]_setupVars PROVE SetupIInv'
    OBVIOUS
  <2>1. CASE SetupNext
    BY <2>1, SetupStepInv DEF SetupNext
  <2>2. CASE UNCHANGED setupVars
    BY <2>2 DEF setupVars, SetupIInv, SetupTypeOK, EndsAgree, OpenIsConnected, InSetup
  <2> QED
    BY <2>1, <2>2
<1> QED
  BY <1>1, SetupInitInv, PTL DEF SetupSpec

-----------------------------------------------------------------------------
(* Floods and the end of the routers *)

\* A pass of the parent's loop touches no socket; the router has left the
\* set-up and does not come back to it.
LEMMA ReceiveFacts ==
    ASSUME NEW r \in Routers, Receive(r)
    PROVE  /\ sock' = sock
           /\ phase[r] = "open"
           /\ \/ phase' = phase
              \/ \E p \in {"exited", "spinning"} : phase' = [phase EXCEPT ![r] = p]
<1>1. PICK s, n, rows :
          Told(r, s, n, rows) \/ Ignore(r, s, n, rows) \/ Handle(r, s, n, rows)
  BY Zenon DEF Receive, ReceiveMany
<1>2. Told(r, s, n, rows) => phase' = [phase EXCEPT ![r] = "exited"]
  BY DEF Told, Leave
<1>3. Ignore(r, s, n, rows) => phase' = phase
  BY DEF Ignore
<1>4. Handle(r, s, n, rows) =>
          \/ phase' = phase
          \/ phase' = [phase EXCEPT ![r] = "exited"]
          \/ phase' = [phase EXCEPT ![r] = "spinning"]
  BY DEF Handle, Leave
<1> QED
  BY <1>1, <1>2, <1>3, <1>4 DEF Receive, ReceiveMany

\* A router that has all its connections keeps them.
LEMMA ReceiveInv ==
    ASSUME SetupIInv, NEW r \in Routers, Receive(r)
    PROVE  SetupIInv'
<1>1. PICK p : sock' = sock /\ phase[r] = "open" /\
               (phase' = phase \/ phase' = [phase EXCEPT ![r] = p])
  BY ReceiveFacts
<1>2. SetupTypeOK'
  BY <1>1 DEF SetupIInv, SetupTypeOK
<1>3. EndsAgree'
  BY <1>1 DEF SetupIInv, EndsAgree
<1>4. OpenIsConnected'
  <2> SUFFICES ASSUME NEW q \in Routers, ~InSetup(q)'
               PROVE  AllConnected(sock[q])
    BY <1>1 DEF OpenIsConnected
  <2>1. ~InSetup(q)
    BY <1>1 DEF InSetup, SetupIInv, SetupTypeOK
  <2> QED
    BY <2>1 DEF SetupIInv, OpenIsConnected
<1> QED
  BY <1>2, <1>3, <1>4 DEF SetupIInv

\* The inductive invariant of the set-up is one of the whole program, for any
\* network, limits and numbers of routers.
THEOREM Invariance == Spec => []SetupIInv
<1>1. Init => SetupIInv
  BY SetupInitInv DEF Init
<1>2. SetupIInv /\ [Next]_vars => SetupIInv'
  <2> SUFFICES ASSUME SetupIInv, [Next]_vars PROVE SetupIInv'
    OBVIOUS
  <2>1. ASSUME NEW r \in Routers, SetupStep(r) PROVE SetupIInv'
    BY <2>1, SetupStepInv DEF SetupStep
  <2>2. UNCHANGED setupVars => SetupIInv'
    BY DEF setupVars, SetupIInv, SetupTypeOK, EndsAgree, OpenIsConnected, InSetup
  <2>3. ASSUME NEW r \in Routers, ChildSend(r) PROVE SetupIInv'
    BY <2>2, <2>3 DEF ChildSend
  <2>4. ASSUME NEW r \in Routers, Receive(r) PROVE SetupIInv'
    BY <2>4, ReceiveInv
  <2>5. UNCHANGED vars => SetupIInv'
    BY <2>2 DEF vars
  <2> QED
    BY <2>1, <2>3, <2>4, <2>5 DEF Next
<1> QED
  BY <1>1, <1>2, PTL DEF Spec

\* Where one router has a connection so has the other, to the end
\* (routed_LS.c:237-246, 260-276).
THEOREM EndsAgreeHolds == Spec => []EndsAgree
<1>1. SetupIInv => EndsAgree
  BY DEF SetupIInv
<1> QED
  BY <1>1, Invariance, PTL

\* No router floods, relays or tells others to end before all of its
\* connections are there (routed_LS.c:252-282).
THEOREM OpenIsConnectedHolds == Spec => []OpenIsConnected
<1>1. SetupIInv => OpenIsConnected
  BY DEF SetupIInv
<1> QED
  BY <1>1, Invariance, PTL

-----------------------------------------------------------------------------
(* What is on the connections *)

IsStreams(f) ==
    /\ DOMAIN f = Routers
    /\ \A s \in Routers : f[s] \in [NeighborSet(s) -> Seq(Packet)]

\* A link leads from a router, and is not what an 'X' is taken for.
LEMMA LinkFacts ==
    ASSUME NEW link \in Links
    PROVE  link # JunkLink /\ link[1] \in Routers
<1>1. link \in Routers \X Routers
  BY DEF Links
<1>2. link[1] \in Routers
  BY <1>1
<1>3. Routers \subseteq Nat
  BY LinkStateAssumption, MaxAssumption DEF Nodes
<1> QED
  BY <1>2, <1>3 DEF JunkLink

\* What a router sends of its own: rows of its links.
LEMMA LspFacts ==
    ASSUME NEW r \in Routers
    PROVE  /\ DOMAIN Lsp(r) = DOMAIN Neighbors[r]
           /\ \A i \in DOMAIN Lsp(r) : /\ Lsp(r)[i] \in Row /\ Lsp(r)[i].link \in Links
                                       /\ Lsp(r)[i].link[1] = r /\ Lsp(r)[i].ttl = FirstTTL
<1>1. DOMAIN Lsp(r) = DOMAIN Neighbors[r]
  BY DEF Lsp
<1>2. ASSUME NEW i \in DOMAIN Neighbors[r]
      PROVE  <<r, Neighbors[r][i]>> \in Links
  <2>1. Neighbors[r][i] \in NeighborSet(r) /\ Neighbors[r][i] \in Routers
    BY NeighborsAssumption DEF NeighborSet, ToSet
  <2> QED
    BY <2>1 DEF Links
<1>3. FirstTTL \in Int
  BY LinkStateAssumption
<1>4. ASSUME NEW i \in DOMAIN Neighbors[r]
      PROVE  /\ Lsp(r)[i] \in Row /\ Lsp(r)[i].link \in Links
             /\ Lsp(r)[i].link[1] = r /\ Lsp(r)[i].ttl = FirstTTL
  <2>1. Lsp(r)[i] = [link |-> <<r, Neighbors[r][i]>>, ttl |-> FirstTTL]
    BY DEF Lsp
  <2>2. [link |-> <<r, Neighbors[r][i]>>, ttl |-> FirstTTL] \in Row
    BY <1>2, <1>3 DEF Row
  <2>3. <<r, Neighbors[r][i]>>[1] = r
    OBVIOUS
  <2> QED
    BY <1>2, <2>1, <2>2, <2>3
<1> QED
  BY <1>1, <1>4

\* A packet is not empty, and its rows are as they should be.
LEMMA PacketFacts ==
    ASSUME NEW p \in Packet
    PROVE  /\ p \in Seq(Row) /\ 1 \in DOMAIN p /\ p[1] \in Row /\ Len(p) \in Nat \ {0}
           /\ \A i \in DOMAIN p : p[i] \in Row
<1>1. p \in Seq(Row) /\ p # <<>>
  BY DEF Packet
<1> HIDE DEF Row
<1> QED
  BY <1>1

\* What is appended, and what is left out.
LEMMA AppendedSet ==
    ASSUME NEW T, NEW q \in Seq(T), NEW p \in T
    PROVE  Append(q, p) \in Seq(T) /\ ToSet(Append(q, p)) = ToSet(q) \cup {p}
<1>1. /\ DOMAIN Append(q, p) = DOMAIN q \cup {Len(q) + 1}
      /\ \A i \in DOMAIN q : Append(q, p)[i] = q[i]
      /\ Append(q, p)[Len(q) + 1] = p
      /\ Append(q, p) \in Seq(T)
  OBVIOUS
<1> QED
  BY <1>1 DEF ToSet

LEMMA SubSeqSet ==
    ASSUME NEW T, NEW q \in Seq(T), NEW m \in Nat \ {0}, NEW n \in Nat, n <= Len(q)
    PROVE  SubSeq(q, m, n) \in Seq(T) /\ ToSet(SubSeq(q, m, n)) \subseteq ToSet(q)
<1>1. Len(q) \in Nat /\ DOMAIN q = 1..Len(q) /\ \A i \in 1..Len(q) : q[i] \in T
  OBVIOUS
<1>2. CASE m <= n + 1
  <2>1. /\ Len(SubSeq(q, m, n)) = (n - m) + 1
        /\ \A i \in 1..((n - m) + 1) : SubSeq(q, m, n)[i] = q[(m + i) - 1]
        /\ SubSeq(q, m, n) \in Seq(T)
    <3>1. m \in 1..(Len(q) + 1) /\ n \in (m - 1)..Len(q)
      BY <1>1, <1>2
    <3> QED
      BY <3>1, <1>1, SubSeqProperties
  <2>2. DOMAIN SubSeq(q, m, n) = 1..((n - m) + 1)
    BY <2>1
  <2>3. \A i \in 1..((n - m) + 1) : (m + i) - 1 \in DOMAIN q
    BY <1>1
  <2> QED
    BY <2>1, <2>2, <2>3 DEF ToSet
<1>3. CASE m > n + 1
  <2>1. SubSeq(q, m, n) = <<>>
    BY <1>1, <1>3, SubSeqProperties
  <2> QED
    BY <2>1 DEF ToSet
<1> QED
  BY <1>2, <1>3

\* One more packet, or none when nobody listens.
LEMMA SentFacts ==
    ASSUME NEW r \in Routers, NEW from \in [NeighborSet(r) -> Seq(Packet)],
           NEW to \in NeighborSet(r), NEW p \in Packet
    PROVE  /\ Sent(from, to, p) \in Seq(Packet)
           /\ ToSet(Sent(from, to, p)) \subseteq ToSet(from[to]) \cup {p}
<1>1. from[to] \in Seq(Packet)
  OBVIOUS
<1> QED
  BY <1>1, AppendedSet DEF Sent

\* A parent that stops reading takes away.
LEMMA UnreadFacts ==
    ASSUME NEW f, IsStreams(f), NEW r
    PROVE  /\ IsStreams(Unread(f, r))
           /\ \A a \in Routers : \A t \in NeighborSet(a) :
                  ToSet(Unread(f, r)[a][t]) \subseteq ToSet(f[a][t])
<1>1. \A s \in Routers : \A t \in NeighborSet(s) :
          /\ Unread(f, r)[s][t] \in Seq(Packet)
          /\ Unread(f, r)[s][t] = <<>> \/ Unread(f, r)[s][t] = f[s][t]
  BY DEF Unread, IsStreams
<1>2. IsStreams(Unread(f, r))
  BY <1>1 DEF Unread, IsStreams
<1>3. ToSet(<<>>) = {}
  BY DEF ToSet
<1> QED
  BY <1>1, <1>2, <1>3

\* A parent that ends at its limit adds one packet to each connection.
LEMMA KilledFacts ==
    ASSUME NEW f, IsStreams(f), NEW r \in Routers, NEW kill \in Packet
    PROVE  /\ IsStreams(Killed(f, r, kill))
           /\ \A a \in Routers : \A t \in NeighborSet(a) :
                  ToSet(Killed(f, r, kill)[a][t]) \subseteq
                      ToSet(f[a][t]) \cup (IF a = r THEN {kill} ELSE {})
<1>1. \A t \in NeighborSet(r) :
          /\ Sent(f[r], t, kill) \in Seq(Packet)
          /\ ToSet(Sent(f[r], t, kill)) \subseteq ToSet(f[r][t]) \cup {kill}
  <2>1. f[r] \in [NeighborSet(r) -> Seq(Packet)]
    BY DEF IsStreams
  <2> QED
    BY <2>1, SentFacts
<1>2. /\ Killed(f, r, kill)[r] = [t \in NeighborSet(r) |-> Sent(f[r], t, kill)]
      /\ DOMAIN Killed(f, r, kill) = Routers
      /\ \A a \in Routers \ {r} : Killed(f, r, kill)[a] = f[a]
  BY DEF Killed, IsStreams
<1>3. IsStreams(Killed(f, r, kill))
  <2>1. Killed(f, r, kill)[r] \in [NeighborSet(r) -> Seq(Packet)]
    BY <1>1, <1>2
  <2> QED
    BY <1>2, <2>1 DEF IsStreams
<1> QED
  BY <1>1, <1>2, <1>3

\* Its rows are none of the network's links, or left over from a relay.
LEMMA KillFacts ==
    ASSUME NEW left \in Seq(Row), NEW n \in Nat \ {0}
    PROVE  /\ Kill(left, n) \in Packet
           /\ \A row \in ToSet(Kill(left, n)) : row.link = JunkLink \/ row \in ToSet(left)
<1> DEFINE kill == Kill(left, n)
           none == [link |-> JunkLink, ttl |-> 0]
<1>1. none \in Row
  BY DEF Row
<1>2. none.link = JunkLink
  OBVIOUS
<1> HIDE DEF Row, none
<1>3. /\ DOMAIN kill = 1..n
      /\ \A i \in 1..n : kill[i] = IF i \in 2..Len(left) THEN left[i] ELSE none
  BY DEF Kill, none
<1>4. DOMAIN left = 1..Len(left) /\ Len(left) \in Nat /\ \A i \in 1..Len(left) : left[i] \in Row
  OBVIOUS
<1>5. ASSUME NEW i \in 1..n
      PROVE  kill[i] \in Row /\ (kill[i].link = JunkLink \/ kill[i] \in ToSet(left))
  <2>1. CASE i \in 2..Len(left)
    <3>1. i \in DOMAIN left /\ kill[i] = left[i] /\ left[i] \in Row
      BY <1>3, <1>4, <2>1
    <3> QED
      BY <3>1 DEF ToSet
  <2>2. CASE i \notin 2..Len(left)
    BY <1>1, <1>2, <1>3, <2>2
  <2> QED
    BY <2>1, <2>2
<1>6. kill \in [1..n -> Row]
  <2>1. kill = [i \in 1..n |-> kill[i]]
    BY DEF Kill
  <2> QED
    BY <1>5, <2>1
<1> HIDE DEF kill
<1>7. kill \in Seq(Row) /\ kill # <<>>
  <2>1. kill \in Seq(Row)
    BY <1>6
  <2>2. DOMAIN <<>> = 1..0 /\ 1 \in DOMAIN kill
    BY <1>3
  <2> QED
    BY <2>1, <2>2
<1> QED
  BY <1>3, <1>5, <1>7 DEF Packet, ToSet, kill

\* Reading takes packets away from one connection.
LEMMA ConsumedFacts ==
    ASSUME IsStreams(stream), NEW r \in Routers, NEW s \in NeighborSet(r),
           NEW n \in 1..Len(stream[s][r])
    PROVE  /\ IsStreams(Consumed(r, s, n))
           /\ \A a \in Routers : \A t \in NeighborSet(a) :
                  ToSet(Consumed(r, s, n)[a][t]) \subseteq ToSet(stream[a][t])
           /\ Consumed(r, s, n)[r] = stream[r]
<1>1. s \in Routers /\ r \in NeighborSet(s) /\ r # s
  BY NeighborFacts
<1> DEFINE q == stream[s][r]
           left == SubSeq(q, n + 1, Len(q))
<1>2. q \in Seq(Packet)
  BY <1>1 DEF IsStreams
<1>3. left \in Seq(Packet) /\ ToSet(left) \subseteq ToSet(q)
  <2>1. n + 1 \in Nat \ {0} /\ Len(q) \in Nat /\ Len(q) <= Len(q)
    BY <1>2
  <2> HIDE DEF q
  <2> QED
    BY <1>2, <2>1, SubSeqSet
<1>4. Consumed(r, s, n) = [stream EXCEPT ![s][r] = left]
  BY DEF Consumed
<1> HIDE DEF left
<1>5. /\ DOMAIN Consumed(r, s, n) = Routers
      /\ \A a \in Routers \ {s} : Consumed(r, s, n)[a] = stream[a]
      /\ Consumed(r, s, n)[s] = [stream[s] EXCEPT ![r] = left]
  BY <1>1, <1>4 DEF IsStreams
<1>6. Consumed(r, s, n)[s] \in [NeighborSet(s) -> Seq(Packet)]
  BY <1>1, <1>3, <1>5 DEF IsStreams
<1>7. IsStreams(Consumed(r, s, n))
  BY <1>5, <1>6 DEF IsStreams
<1>8. \A t \in NeighborSet(s) : ToSet(Consumed(r, s, n)[s][t]) \subseteq ToSet(stream[s][t])
  BY <1>1, <1>3, <1>5 DEF IsStreams
<1> QED
  BY <1>1, <1>5, <1>7, <1>8

\* g has what f has, and p on connections of r.
Joins(f, g, r, p) ==
    \A a \in Routers : \A t \in NeighborSet(a) :
        \A x \in ToSet(g[a][t]) : x \in ToSet(f[a][t]) \/ (a = r /\ x = p)

\* Relaying adds the packet to the connections that it did not come from.
LEMMA RelayedFacts ==
    ASSUME NEW f, IsStreams(f), IsStreams(stream), NEW r \in Routers, f[r] = stream[r],
           NEW s, NEW p \in Packet,
           NEW g, DOMAIN g = Routers, g[r] = Relayed(r, s, p),
           \A a \in Routers \ {r} : g[a] = f[a]
    PROVE  IsStreams(g) /\ Joins(f, g, r, p)
<1>1. \A t \in NeighborSet(r) :
          /\ Relayed(r, s, p)[t] \in Seq(Packet)
          /\ ToSet(Relayed(r, s, p)[t]) \subseteq ToSet(f[r][t]) \cup {p}
  <2>1. stream[r] \in [NeighborSet(r) -> Seq(Packet)]
    BY DEF IsStreams
  <2>2. \A t \in NeighborSet(r) :
            /\ Sent(stream[r], t, p) \in Seq(Packet)
            /\ ToSet(Sent(stream[r], t, p)) \subseteq ToSet(stream[r][t]) \cup {p}
    BY <2>1, SentFacts
  <2> QED
    BY <2>1, <2>2 DEF Relayed
<1>2. Relayed(r, s, p) \in [NeighborSet(r) -> Seq(Packet)]
  <2>1. DOMAIN Relayed(r, s, p) = NeighborSet(r)
    BY DEF Relayed
  <2>2. Relayed(r, s, p) = [t \in NeighborSet(r) |-> Relayed(r, s, p)[t]]
    BY DEF Relayed
  <2> QED
    BY <1>1, <2>1, <2>2
<1>3. IsStreams(g)
  BY <1>2 DEF IsStreams
<1>4. ASSUME NEW a \in Routers, NEW t \in NeighborSet(a)
      PROVE  \A x \in ToSet(g[a][t]) : x \in ToSet(f[a][t]) \/ (a = r /\ x = p)
  <2>1. CASE a = r
    BY <1>1, <2>1
  <2>2. CASE a # r
    BY <2>2
  <2> QED
    BY <2>1, <2>2
<1> QED
  BY <1>3, <1>4 DEF Joins

\* rows is what r may read from s: it starts as a packet does, and has
\* rows of packets.
ReadFrom(r, s, rows) ==
    /\ rows \in Packet
    /\ ToSet(rows) \subseteq RowsOn(s, r)
    /\ \E p \in ToSet(stream[s][r]) : rows[1] = p[1]

LEMMA ReadFacts ==
    ASSUME IsStreams(stream), NEW r \in Routers, NEW s \in NeighborSet(r),
           NEW n \in 1..Len(stream[s][r])
    PROVE  ReadFrom(r, s, FlattenSeq(SubSeq(stream[s][r], 1, n)))
<1> DEFINE q == stream[s][r]
           seqs == SubSeq(q, 1, n)
           rows == FlattenSeq(seqs)
<1>1. q \in Seq(Packet)
  BY NeighborFacts DEF IsStreams
<1>2. /\ seqs \in Seq(Packet) /\ DOMAIN seqs = 1..n /\ n \in Nat \ {0} /\ n <= Len(q)
      /\ DOMAIN q = 1..Len(q) /\ \A i \in 1..n : seqs[i] = q[i]
  <2> HIDE DEF q
  <2> QED
    BY <1>1 DEF q
<1>3. \A i \in DOMAIN seqs : seqs[i] \in ToSet(q)
  BY <1>2 DEF ToSet
<1> HIDE DEF q, seqs
<1>4. seqs \in Seq(Seq(Row)) /\ seqs # <<>> /\ Len(seqs) = n
  <2>1. \A p \in Packet : p \in Seq(Row)
    BY DEF Packet
  <2> HIDE DEF Packet, Row
  <2> QED
    BY <1>2, <2>1
<1>5. 1 \in DOMAIN seqs /\ seqs[1] \in Packet
  <2> HIDE DEF Packet
  <2> QED
    BY <1>2
<1>6. PICK rest : FlattenRest(rest, Row, seqs)
  BY <1>4, FlattenFirst
<1>7. rows \in Seq(Row) /\ rows = seqs[1] \o rest /\ rest \in Seq(Row)
  BY <1>4, <1>6, FlattenType DEF FlattenRest
<1> HIDE DEF rows
<1>8. rows # <<>> /\ rows[1] = seqs[1][1]
  <2>1. seqs[1] \in Seq(Row) /\ 1 \in DOMAIN seqs[1] /\ Len(seqs[1]) \in Nat \ {0}
    BY <1>5, PacketFacts
  <2> HIDE DEF Row
  <2> QED
    BY <1>7, <2>1
<1>9. ToSet(rows) \subseteq RowsOn(s, r)
  <2> SUFFICES ASSUME NEW i \in DOMAIN rows PROVE rows[i] \in RowsOn(s, r)
    BY DEF ToSet
  <2>1. PICK k \in DOMAIN seqs : \E j \in DOMAIN seqs[k] : rows[i] = seqs[k][j]
    BY <1>4, FlattenElements DEF rows
  <2>2. k \in DOMAIN stream[s][r] /\ seqs[k] = stream[s][r][k]
    BY <1>2, <2>1 DEF q
  <2> QED
    BY <2>1, <2>2 DEF RowsOn, ToSet
<1> QED
  BY <1>3, <1>5, <1>7, <1>8, <1>9 DEF ReadFrom, Packet, rows, seqs, q

\* Ageing changes nothing but the TTL.
LEMMA AgedFacts ==
    ASSUME NEW p \in Packet
    PROVE  /\ Aged(p) \in Packet
           /\ Aged(p)[1].link = p[1].link
           /\ \A b \in ToSet(Aged(p)) : \E c \in ToSet(p) :
                  b.link = c.link /\ b.ttl = c.ttl - 1
           /\ Aged(p) \in Seq(Row)
<1>1. /\ p \in Seq(Row) /\ 1 \in DOMAIN p /\ Len(p) \in Nat \ {0}
      /\ \A i \in DOMAIN p : p[i] \in Row
  BY PacketFacts
<1>2. \A i \in DOMAIN p : /\ Aged(p)[i] \in Row
                          /\ Aged(p)[i].link = p[i].link
                          /\ Aged(p)[i].ttl = p[i].ttl - 1
  BY <1>1 DEF Aged, Row
<1>3. DOMAIN Aged(p) = DOMAIN p /\ Aged(p) = [i \in DOMAIN p |-> Aged(p)[i]]
  BY DEF Aged
<1>4. Aged(p) \in Seq(Row) /\ Aged(p) # <<>>
  <2>1. DOMAIN p = 1..Len(p)
    BY <1>1
  <2>2. Aged(p) \in [1..Len(p) -> Row]
    BY <1>2, <1>3, <2>1
  <2> HIDE DEF Row
  <2>3. Aged(p) \in Seq(Row)
    BY <1>1, <2>2
  <2>4. DOMAIN <<>> = 1..0
    OBVIOUS
  <2> QED
    BY <1>1, <1>3, <2>3, <2>4
<1> QED
  BY <1>1, <1>2, <1>3, <1>4 DEF Packet, ToSet

-----------------------------------------------------------------------------
(* One pass of the parent's loop *)

\* What r writes after it has read rows from s: the aged rows, and the
\* packets that tell the others to end.
Written(r, s, rows) ==
    \A a \in Routers : \A t \in NeighborSet(a) : \A p \in ToSet(stream'[a][t]) :
        \/ p \in ToSet(stream[a][t])
        \/ a = r /\ rows[1].link # JunkLink /\ p = Aged(rows)
        \/ a = r /\ cause'[r] = "limit" /\ \E n \in Nat \ {0} : p = Kill(sendBuffer2'[r], n)

\* What it has in its buffer then.
Keeps(r, rows) ==
    \/ sendBuffer2' = sendBuffer2
    \/ sendBuffer2' = [sendBuffer2 EXCEPT ![r] = Aged(rows)]

Learns(r, rows) == table' = [table EXCEPT ![r] = @ \cup LinksOf(rows)]

\* Whether r goes on, ends or hangs.
Ends(r, rows) ==
    \/ UNCHANGED <<phase, cause>> /\ (UNCHANGED table \/ Learns(r, rows))
    \/ Leave(r, "told") /\ rows[1].link = JunkLink /\ UNCHANGED table
    \/ Leave(r, "limit") /\ AtLimit(r) /\ Learns(r, rows)
    \/ /\ phase' = [phase EXCEPT ![r] = "spinning"] /\ UNCHANGED cause
       /\ "spinning" \in ShortPathEnds(table'[r]) /\ Learns(r, rows)

Passed(r, s, rows) ==
    /\ phase[r] = "open"
    /\ passes' = [passes EXCEPT ![r] = IF @ < KillLimit THEN @ + 1 ELSE @]
    /\ UNCHANGED <<sock, turn>>
    /\ s \in NeighborSet(r)
    /\ ReadFrom(r, s, rows)
    /\ IsStreams(stream')
    /\ Written(r, s, rows)
    /\ Keeps(r, rows)
    /\ Ends(r, rows)

\* A told parent writes nothing.
LEMMA ToldPass ==
    ASSUME IsStreams(stream), NEW r \in Routers, NEW s, NEW n, NEW rows, Told(r, s, n, rows)
    PROVE  IsStreams(stream') /\ Written(r, s, rows) /\ Keeps(r, rows) /\ Ends(r, rows)
<1>1. stream' = Unread(stream, r) /\ Ends(r, rows) /\ Keeps(r, rows)
  BY DEF Told, Ends, Keeps
<1>2. IsStreams(stream') /\ \A a \in Routers : \A t \in NeighborSet(a) :
                  ToSet(stream'[a][t]) \subseteq ToSet(stream[a][t])
  BY <1>1, UnreadFacts
<1> QED
  BY <1>1, <1>2 DEF Written

\* Nor does one that ignores what it reads.
LEMMA IgnorePass ==
    ASSUME IsStreams(stream), NEW r \in Routers, NEW s \in NeighborSet(r),
           NEW n \in 1..Len(stream[s][r]), NEW rows, Ignore(r, s, n, rows)
    PROVE  IsStreams(stream') /\ Written(r, s, rows) /\ Keeps(r, rows) /\ Ends(r, rows)
<1>1. stream' = Consumed(r, s, n) /\ Ends(r, rows) /\ Keeps(r, rows)
  BY DEF Ignore, Ends, Keeps
<1>2. IsStreams(stream') /\ \A a \in Routers : \A t \in NeighborSet(a) :
                  ToSet(stream'[a][t]) \subseteq ToSet(stream[a][t])
  BY <1>1, ConsumedFacts
<1> QED
  BY <1>1, <1>2 DEF Written

\* One that handles it relays, and tells its neighbours when it ends.
LEMMA HandlePass ==
    ASSUME IsStreams(stream), sendBuffer2 \in [Routers -> Seq(Row)], DOMAIN cause = Routers,
           NEW r \in Routers, NEW s \in NeighborSet(r),
           NEW n \in 1..Len(stream[s][r]), NEW rows \in Packet, Handle(r, s, n, rows)
    PROVE  IsStreams(stream') /\ Written(r, s, rows) /\ Keeps(r, rows) /\ Ends(r, rows)
<1> DEFINE aged == Aged(rows)
           relayed == [Consumed(r, s, n) EXCEPT ![r] = Relayed(r, s, aged)]
           left == Buffered(r, s, aged)
           m == Len(rows)
           kill == Kill(left, m)
<1>1. rows[1].link # JunkLink /\ Learns(r, rows)
  BY DEF Handle, Learns
<1>2. \/ stream' = relayed /\ UNCHANGED <<phase, cause>>
      \/ stream' = Unread(Killed(relayed, r, kill), r) /\ Leave(r, "limit") /\ AtLimit(r)
      \/ /\ stream' = Unread(relayed, r) /\ phase' = [phase EXCEPT ![r] = "spinning"]
         /\ UNCHANGED cause /\ "spinning" \in ShortPathEnds(table'[r])
  BY DEF Handle
<1>3. Ends(r, rows)
  BY <1>1, <1>2 DEF Ends
<1>4. sendBuffer2' = [sendBuffer2 EXCEPT ![r] = left]
  BY DEF Handle
<1>5. left = aged \/ left = sendBuffer2[r]
  BY DEF Buffered
<1>6. aged \in Packet /\ aged \in Seq(Row) /\ m \in Nat \ {0}
  BY AgedFacts, PacketFacts
<1>7. sendBuffer2'[r] = left /\ left \in Seq(Row)
  <2> HIDE DEF left, aged, Row
  <2> QED
    BY <1>4, <1>5, <1>6
<1>8. Keeps(r, rows)
  <2> HIDE DEF left
  <2> QED
    BY <1>4, <1>5 DEF Keeps
<1> HIDE DEF left, m
<1>9. kill \in Packet
  BY <1>6, <1>7, KillFacts
<1> HIDE DEF aged, kill
<1>10. /\ IsStreams(relayed)
       /\ \A a \in Routers : \A t \in NeighborSet(a) :
              ToSet(relayed[a][t]) \subseteq ToSet(stream[a][t]) \cup (IF a = r THEN {aged} ELSE {})
  <2> DEFINE f == Consumed(r, s, n)
  <2>1. /\ IsStreams(f) /\ f[r] = stream[r]
        /\ \A a \in Routers : \A t \in NeighborSet(a) :
                  ToSet(f[a][t]) \subseteq ToSet(stream[a][t])
    BY ConsumedFacts
  <2> HIDE DEF f
  <2> DEFINE g == [f EXCEPT ![r] = Relayed(r, s, aged)]
  <2>2. IsStreams(g) /\ Joins(f, g, r, aged)
    <3>1. aged \in Packet
      BY <1>6
    <3>2. /\ DOMAIN g = Routers /\ g[r] = Relayed(r, s, aged)
          /\ \A a \in Routers \ {r} : g[a] = f[a]
      BY <2>1 DEF IsStreams
    <3> HIDE DEF g
    <3> QED
      BY <2>1, <3>1, <3>2, RelayedFacts
  <2>3. g = relayed
    BY DEF f
  <2> HIDE DEF g, relayed
  <2> QED
    BY <2>1, <2>2, <2>3 DEF Joins
<1> HIDE DEF relayed
<1>11. CASE stream' = relayed
  BY <1>1, <1>3, <1>8, <1>10, <1>11 DEF Written, aged
<1>12. CASE stream' = Unread(relayed, r)
  <2>1. IsStreams(stream') /\ \A a \in Routers : \A t \in NeighborSet(a) :
                  ToSet(stream'[a][t]) \subseteq ToSet(relayed[a][t])
    BY <1>10, <1>12, UnreadFacts
  <2> QED
    BY <1>1, <1>3, <1>8, <1>10, <2>1 DEF Written, aged
<1>13. CASE stream' = Unread(Killed(relayed, r, kill), r) /\ Leave(r, "limit")
  <2> DEFINE f == Killed(relayed, r, kill)
  <2>1. /\ IsStreams(f)
        /\ \A a \in Routers : \A t \in NeighborSet(a) :
               ToSet(f[a][t]) \subseteq ToSet(relayed[a][t]) \cup (IF a = r THEN {kill} ELSE {})
    BY <1>9, <1>10, KilledFacts
  <2> HIDE DEF f
  <2>2. IsStreams(stream') /\ \A a \in Routers : \A t \in NeighborSet(a) :
                  ToSet(stream'[a][t]) \subseteq ToSet(f[a][t])
    BY <1>13, <2>1, UnreadFacts DEF f
  <2>3. cause'[r] = "limit" /\ \E i \in Nat \ {0} : kill = Kill(sendBuffer2'[r], i)
    BY <1>6, <1>7, <1>13 DEF Leave, kill
  <2>4. Written(r, s, rows)
    <3> SUFFICES ASSUME NEW a \in Routers, NEW t \in NeighborSet(a), NEW p \in ToSet(stream'[a][t])
                 PROVE  p \in ToSet(stream[a][t]) \/ (a = r /\ (p = aged \/ p = kill))
      BY <1>1, <2>3 DEF Written, aged
    <3> QED
      BY <1>10, <2>1, <2>2
  <2> QED
    BY <1>3, <1>8, <2>2, <2>4
<1> QED
  BY <1>2, <1>11, <1>12, <1>13

LEMMA ReceivePass ==
    ASSUME IsStreams(stream), sendBuffer2 \in [Routers -> Seq(Row)], DOMAIN cause = Routers,
           NEW r \in Routers, Receive(r)
    PROVE  \E s, rows : Passed(r, s, rows)
<1>1. PICK n \in 1..MaxCoalesce : ReceiveMany(r, n)
  BY DEF Receive
<1>2. PICK s \in NeighborSet(r) :
          /\ n <= Len(stream[s][r])
          /\ LET rows == FlattenSeq(SubSeq(stream[s][r], 1, n))
             IN  Told(r, s, n, rows) \/ Ignore(r, s, n, rows) \/ Handle(r, s, n, rows)
  BY <1>1 DEF ReceiveMany
<1>3. n \in 1..Len(stream[s][r])
  <2>1. s \in Routers /\ r \in NeighborSet(s)
    BY NeighborFacts
  <2>2. stream[s][r] \in Seq(Packet)
    BY <2>1 DEF IsStreams
  <2> QED
    BY <1>2, <2>2
<1> DEFINE rows == FlattenSeq(SubSeq(stream[s][r], 1, n))
<1>4. ReadFrom(r, s, rows)
  BY <1>3, ReadFacts
<1>5. Told(r, s, n, rows) \/ Ignore(r, s, n, rows) \/ Handle(r, s, n, rows)
  BY <1>2
<1>6. rows \in Packet
  BY <1>4 DEF ReadFrom
<1> HIDE DEF rows
<1>7. IsStreams(stream') /\ Written(r, s, rows) /\ Keeps(r, rows) /\ Ends(r, rows)
  BY <1>3, <1>5, <1>6, ToldPass, IgnorePass, HandlePass
<1>8. /\ phase[r] = "open"
      /\ passes' = [passes EXCEPT ![r] = IF @ < KillLimit THEN @ + 1 ELSE @]
      /\ UNCHANGED <<sock, turn>>
  BY <1>1 DEF ReceiveMany
<1> QED
  BY <1>4, <1>7, <1>8 DEF Passed

\* What a child sends is its own packet, to a neighbour.
LEMMA ChildPass ==
    ASSUME IsStreams(stream), turn \in [Routers -> Nat \ {0}], NEW r \in Routers, ChildSend(r)
    PROVE  /\ IsStreams(stream')
           /\ \A a \in Routers : \A t \in NeighborSet(a) : \A p \in ToSet(stream'[a][t]) :
                  p \in ToSet(stream[a][t]) \/ (a = r /\ p = Lsp(r))
           /\ turn' \in [Routers -> Nat \ {0}]
           /\ Lsp(r) \in Packet
<1> DEFINE n == Len(Neighbors[r])
           to == Neighbors[r][turn[r]]
<1>1. Neighbors[r] \in Seq(Routers) /\ n \in Nat /\ DOMAIN Neighbors[r] = 1..n
  BY NeighborsAssumption
<1>2. turn[r] \in DOMAIN Neighbors[r]
  BY DEF ChildSend
<1>3. to \in NeighborSet(r) /\ n # 0
  BY <1>1, <1>2 DEF NeighborSet, ToSet
<1>4. turn' \in [Routers -> Nat \ {0}]
  <2>1. turn' = [turn EXCEPT ![r] = IF @ = n THEN 1 ELSE @ + 1]
    BY DEF ChildSend
  <2> HIDE DEF n
  <2> QED
    BY <2>1
<1>5. \A i \in 1..n : Lsp(r)[i] \in Row
  BY <1>1, LspFacts
<1>6. Lsp(r) \in Packet
  <2>1. DOMAIN Lsp(r) = 1..n /\ Lsp(r) = [i \in 1..n |-> Lsp(r)[i]]
    BY <1>1 DEF Lsp
  <2> DEFINE lsp == Lsp(r)
  <2> HIDE DEF lsp, n, Row
  <2>2. lsp \in [1..n -> Row]
    BY <1>5, <2>1 DEF lsp
  <2>3. lsp \in Seq(Row)
    BY <1>1, <2>2
  <2>4. 1 \in DOMAIN lsp /\ DOMAIN <<>> = 1..0
    BY <1>1, <1>3, <2>1 DEF lsp
  <2>5. lsp # <<>>
    BY <2>4
  <2> QED
    BY <2>3, <2>5 DEF Packet, lsp
<1>7. stream' = [stream EXCEPT ![r][to] = Sent(stream[r], to, Lsp(r))]
  BY DEF ChildSend
<1> HIDE DEF to
<1>8. /\ Sent(stream[r], to, Lsp(r)) \in Seq(Packet)
      /\ ToSet(Sent(stream[r], to, Lsp(r))) \subseteq ToSet(stream[r][to]) \cup {Lsp(r)}
  <2>1. stream[r] \in [NeighborSet(r) -> Seq(Packet)]
    BY DEF IsStreams
  <2>2. to \in NeighborSet(r)
    BY <1>3
  <2> QED
    BY <1>6, <2>1, <2>2, SentFacts
<1>9. /\ DOMAIN stream' = Routers
      /\ \A a \in Routers \ {r} : stream'[a] = stream[a]
      /\ stream'[r] = [stream[r] EXCEPT ![to] = Sent(stream[r], to, Lsp(r))]
  BY <1>7 DEF IsStreams
<1>10. stream'[r] \in [NeighborSet(r) -> Seq(Packet)]
  BY <1>8, <1>9 DEF IsStreams
<1>11. \A t \in NeighborSet(r) : ToSet(stream'[r][t]) \subseteq ToSet(stream[r][t]) \cup {Lsp(r)}
  BY <1>8, <1>9 DEF IsStreams
<1>12. IsStreams(stream')
  BY <1>9, <1>10 DEF IsStreams
<1>13. ASSUME NEW a \in Routers, NEW t \in NeighborSet(a), NEW p \in ToSet(stream'[a][t])
       PROVE  p \in ToSet(stream[a][t]) \/ (a = r /\ p = Lsp(r))
  <2>1. CASE a = r
    BY <1>11, <1>13, <2>1
  <2>2. CASE a # r
    BY <1>9, <1>13, <2>2
  <2> QED
    BY <2>1, <2>2
<1> QED
  BY <1>4, <1>6, <1>12, <1>13

-----------------------------------------------------------------------------
(* Types *)

\* Everything but the sockets.
FloodTypeOK ==
    /\ IsStreams(stream)
    /\ phase \in [Routers -> {"connecting", "accepting", "open", "spinning", "exited"}]
    /\ table \in [Routers -> SUBSET (Links \cup {JunkLink})]
    /\ sendBuffer2 \in [Routers -> Seq(Row)]
    /\ passes \in [Routers -> 0..KillLimit]
    /\ turn \in [Routers -> Nat \ {0}]
    /\ cause \in [Routers -> {"none", "limit", "told"}]

LEMMA FloodTypeInit == Init => FloodTypeOK
<1> SUFFICES ASSUME Init PROVE FloodTypeOK
  OBVIOUS
<1>1. IsStreams(stream)
  BY DEF Init, IsStreams
<1>2. table \in [Routers -> SUBSET (Links \cup {JunkLink})]
  <2>1. \A r \in Routers : LinksOf(Lsp(r)) \subseteq Links
    BY LspFacts DEF LinksOf, ToSet
  <2> QED
    BY <2>1 DEF Init
<1>3. phase \in [Routers -> {"connecting", "accepting", "open", "spinning", "exited"}]
  BY DEF Init, SetupInit
<1>4. sendBuffer2 \in [Routers -> Seq(Row)]
  <2>1. <<>> \in Seq(Row)
    OBVIOUS
  <2> QED
    BY <2>1 DEF Init
<1>5. passes \in [Routers -> 0..KillLimit]
  BY LinkStateAssumption DEF Init
<1> QED
  BY <1>1, <1>2, <1>3, <1>4, <1>5 DEF Init, FloodTypeOK

\* What is read has rows of the network's links, or 'X'.
LEMMA RowType ==
    ASSUME NEW p \in Packet
    PROVE  \A row \in ToSet(p) : /\ row \in Row /\ row.link \in Links \cup {JunkLink}
                                 /\ row.ttl \in Int
BY PacketFacts DEF ToSet, Row

\* A step of the set-up leaves the phase among those of the set-up.
LEMMA SetupPhase ==
    ASSUME FloodTypeOK, NEW r \in Routers, Setup(r)
    PROVE  /\ phase[r] \in {"connecting", "accepting"}
           /\ \E p \in {"connecting", "accepting", "open"} : phase' = [phase EXCEPT ![r] = p]
<1>1. CASE \E s \in NeighborSet(r) : Connect(r, s) \/ Listen(r, s)
  <2>1. phase' = phase /\ phase[r] = "connecting"
    BY <1>1 DEF Connect, Listen
  <2>2. phase' = [phase EXCEPT ![r] = "connecting"]
    BY <2>1 DEF FloodTypeOK
  <2> QED
    BY <2>1, <2>2
<1>2. CASE EndConnects(r) \/ Accept(r)
  <2>1. \E at : CheckConnections(r, at)
    BY <1>2 DEF EndConnects, Accept
  <2>2. phase' = [phase EXCEPT ![r] = "open"] \/ phase' = [phase EXCEPT ![r] = "accepting"]
    BY <2>1 DEF CheckConnections
  <2>3. phase[r] \in {"connecting", "accepting"}
    BY <1>2 DEF EndConnects, Accept
  <2> QED
    BY <2>2, <2>3
<1> QED
  BY <1>1, <1>2 DEF Setup

\* One pass keeps the types.
LEMMA PassType ==
    ASSUME FloodTypeOK, NEW r \in Routers, NEW s, NEW rows, Passed(r, s, rows)
    PROVE  FloodTypeOK'
<1>1. LinksOf(rows) \subseteq Links \cup {JunkLink}
  BY RowType DEF Passed, ReadFrom, LinksOf
<1>2. table' \in [Routers -> SUBSET (Links \cup {JunkLink})]
  <2>1. CASE UNCHANGED table
    BY <2>1 DEF FloodTypeOK
  <2>2. CASE Learns(r, rows)
    BY <1>1, <2>2 DEF FloodTypeOK, Learns
  <2> QED
    BY <2>1, <2>2 DEF Passed, Ends
<1>3. \/ phase' = phase /\ cause' = cause
      \/ \E why \in {"told", "limit"} : Leave(r, why)
      \/ phase' = [phase EXCEPT ![r] = "spinning"] /\ cause' = cause
  BY DEF Passed, Ends
<1>4. phase' \in [Routers -> {"connecting", "accepting", "open", "spinning", "exited"}]
  BY <1>3 DEF FloodTypeOK, Leave
<1>5. cause' \in [Routers -> {"none", "limit", "told"}]
  BY <1>3 DEF FloodTypeOK, Leave
<1>6. passes' \in [Routers -> 0..KillLimit]
  BY LinkStateAssumption DEF FloodTypeOK, Passed
<1>7. turn' \in [Routers -> Nat \ {0}] /\ IsStreams(stream')
  BY DEF FloodTypeOK, Passed
<1>8. sendBuffer2' \in [Routers -> Seq(Row)]
  <2>1. Aged(rows) \in Seq(Row)
    BY AgedFacts DEF Passed, ReadFrom
  <2> HIDE DEF Row
  <2> QED
    BY <2>1 DEF FloodTypeOK, Passed, Keeps
<1> QED
  BY <1>2, <1>4, <1>5, <1>6, <1>7, <1>8 DEF FloodTypeOK, IsStreams

LEMMA FloodTypeStep == FloodTypeOK /\ [Next]_vars => FloodTypeOK'
<1> SUFFICES ASSUME FloodTypeOK, [Next]_vars PROVE FloodTypeOK'
  OBVIOUS
<1>1. ASSUME NEW r \in Routers, SetupStep(r) PROVE FloodTypeOK'
  <2>1. \E p \in {"connecting", "accepting", "open"} : phase' = [phase EXCEPT ![r] = p]
    BY <1>1, SetupPhase DEF SetupStep
  <2>2. phase' \in [Routers -> {"connecting", "accepting", "open", "spinning", "exited"}]
    BY <2>1 DEF FloodTypeOK
  <2> QED
    BY <1>1, <2>2 DEF SetupStep, FloodTypeOK, IsStreams
<1>2. ASSUME NEW r \in Routers, ChildSend(r) PROVE FloodTypeOK'
  <2>1. IsStreams(stream') /\ turn' \in [Routers -> Nat \ {0}]
    BY <1>2, ChildPass DEF FloodTypeOK
  <2>2. UNCHANGED <<setupVars, table, sendBuffer2, passes, cause>>
    BY <1>2 DEF ChildSend
  <2> QED
    BY <2>1, <2>2 DEF FloodTypeOK, IsStreams, setupVars
<1>3. ASSUME NEW r \in Routers, Receive(r) PROVE FloodTypeOK'
  <2>1. \E s, rows : Passed(r, s, rows)
    BY <1>3, ReceivePass DEF FloodTypeOK
  <2> QED
    BY <2>1, PassType
<1>4. UNCHANGED vars => FloodTypeOK'
  BY DEF vars, setupVars, FloodTypeOK, IsStreams
<1> QED
  BY <1>1, <1>2, <1>3, <1>4 DEF Next

LEMMA FloodTypeInvariance == Spec => []FloodTypeOK
BY FloodTypeInit, FloodTypeStep, PTL DEF Spec

\* Every variable keeps its type: no connection ever carries an empty packet,
\* and no parent takes anything but a link or 'X' into its table
\* (routed_LS.c:335-467).
THEOREM TypeCorrect == Spec => []TypeOK
<1>1. SetupIInv /\ FloodTypeOK => TypeOK
  BY DEF SetupIInv, FloodTypeOK, IsStreams, TypeOK
<1> QED
  BY <1>1, Invariance, FloodTypeInvariance, PTL

-----------------------------------------------------------------------------
(* How parents end *)

\* 'X' comes from a parent that has reached its limit.
JunkFromLimit ==
    \A s \in Routers : \A r \in NeighborSet(s) : \A p \in ToSet(stream[s][r]) :
        p[1].link = JunkLink => cause[s] = "limit"

CauseIsEnd == \A r \in Routers : cause[r] # "none" => phase[r] = "exited"

EndInv == CauseIsEnd /\ JunkFromLimit /\ EndsNextToLimit

LEMMA EndInit == Init => EndInv
<1> SUFFICES ASSUME Init PROVE EndInv
  OBVIOUS
<1>1. CauseIsEnd /\ EndsNextToLimit
  BY DEF Init, SetupInit, CauseIsEnd, EndsNextToLimit
<1>2. \A s \in Routers : \A r \in NeighborSet(s) : ToSet(stream[s][r]) = {}
  BY DEF Init, ToSet
<1> QED
  BY <1>1, <1>2 DEF EndInv, JunkFromLimit

\* While no parent ends, and only own packets are added.
LEMMA EndFrame ==
    ASSUME FloodTypeOK, EndInv, NEW r \in Routers, cause' = cause, passes' = passes,
           \A q \in Routers : phase'[q] = "exited" <=> phase[q] = "exited",
           \A a \in Routers : \A t \in NeighborSet(a) : \A p \in ToSet(stream'[a][t]) :
                  p \in ToSet(stream[a][t]) \/ (a = r /\ p = Lsp(r) /\ Lsp(r) \in Packet)
    PROVE  EndInv'
<1>1. CauseIsEnd' /\ EndsNextToLimit'
  BY DEF EndInv, CauseIsEnd, EndsNextToLimit
<1>2. Lsp(r) \in Packet => Lsp(r)[1].link # JunkLink
  BY PacketFacts, LspFacts, LinkFacts
<1> QED
  BY <1>1, <1>2 DEF EndInv, JunkFromLimit

\* One pass of a parent: who ends has reached its limit, or has read what a
\* neighbour sent that had.
LEMMA PassEnd ==
    ASSUME FloodTypeOK, EndInv, NEW r \in Routers, NEW s, NEW rows, Passed(r, s, rows)
    PROVE  EndInv'
<1>1. /\ phase[r] = "open" /\ cause[r] = "none" /\ rows \in Packet /\ s \in NeighborSet(r)
      /\ s \in Routers /\ r \in NeighborSet(s) /\ s # r
  BY NeighborFacts DEF Passed, EndInv, CauseIsEnd, FloodTypeOK, ReadFrom
<1>2. /\ \A q \in Routers \ {r} : /\ phase'[q] = phase[q] /\ cause'[q] = cause[q]
                                 /\ passes'[q] = passes[q]
      /\ \/ phase'[r] # "exited" /\ cause'[r] = cause[r]
         \/ phase'[r] = "exited" /\ cause'[r] = "told" /\ rows[1].link = JunkLink
         \/ phase'[r] = "exited" /\ cause'[r] = "limit" /\ AtLimit(r)
      /\ passes'[r] = IF passes[r] < KillLimit THEN passes[r] + 1 ELSE passes[r]
  <2>1. /\ passes' = [passes EXCEPT ![r] = IF @ < KillLimit THEN @ + 1 ELSE @]
        /\ Ends(r, rows)
    BY DEF Passed
  <2>2. CASE UNCHANGED <<phase, cause>>
    BY <1>1, <2>1, <2>2 DEF FloodTypeOK
  <2>3. CASE Leave(r, "told") /\ rows[1].link = JunkLink
    BY <2>1, <2>3 DEF FloodTypeOK, Leave
  <2>4. CASE Leave(r, "limit") /\ AtLimit(r)
    BY <2>1, <2>4 DEF FloodTypeOK, Leave
  <2>5. CASE phase' = [phase EXCEPT ![r] = "spinning"] /\ UNCHANGED cause
    BY <2>1, <2>5 DEF FloodTypeOK
  <2> QED
    BY <2>1, <2>2, <2>3, <2>4, <2>5 DEF Ends
<1>3. CauseIsEnd'
  BY <1>1, <1>2 DEF EndInv, CauseIsEnd
<1>4. \A q \in Routers : cause[q] = "limit" => cause'[q] = "limit"
  BY <1>1, <1>2
<1>5. JunkFromLimit'
  <2> SUFFICES ASSUME NEW a \in Routers, NEW t \in NeighborSet(a), NEW p \in ToSet(stream'[a][t]),
                      p[1].link = JunkLink
               PROVE  cause'[a] = "limit"
    BY DEF JunkFromLimit
  <2>1. CASE p \in ToSet(stream[a][t])
    BY <1>4, <2>1 DEF EndInv, JunkFromLimit
  <2>2. CASE rows[1].link # JunkLink /\ p = Aged(rows)
    BY <1>1, <2>2, AgedFacts
  <2>3. CASE a = r /\ cause'[r] = "limit"
    BY <2>3
  <2> QED
    BY <2>1, <2>2, <2>3 DEF Passed, Written
<1>6. EndsNextToLimit'
  <2> SUFFICES ASSUME NEW q \in Routers, phase'[q] = "exited"
               PROVE  \/ passes'[q] >= KillLimit /\ cause'[q] = "limit"
                      \/ cause'[q] = "told" /\ \E t \in NeighborSet(q) : cause'[t] = "limit"
    BY DEF EndsNextToLimit
  <2>1. CASE q # r
    <3>1. \/ passes[q] >= KillLimit /\ cause[q] = "limit"
          \/ cause[q] = "told" /\ \E t \in NeighborSet(q) : cause[t] = "limit"
      BY <1>2, <2>1 DEF EndInv, EndsNextToLimit
    <3>2. \A t \in NeighborSet(q) : t \in Routers
      BY NeighborFacts
    <3> QED
      BY <1>2, <1>4, <2>1, <3>1, <3>2
  <2>2. CASE q = r /\ cause'[r] = "told" /\ rows[1].link = JunkLink
    <3>1. PICK p \in ToSet(stream[s][r]) : rows[1] = p[1]
      BY DEF Passed, ReadFrom
    <3>2. cause[s] = "limit"
      BY <1>1, <2>2, <3>1 DEF EndInv, JunkFromLimit
    <3> QED
      BY <1>1, <1>4, <2>2, <3>2
  <2>3. CASE q = r /\ cause'[r] = "limit" /\ AtLimit(r)
    <3>1. passes[r] \in Nat /\ KillLimit \in Nat /\ passes[r] + 1 >= KillLimit
      BY <2>3, LinkStateAssumption DEF FloodTypeOK, AtLimit
    <3> QED
      BY <1>2, <2>3, <3>1
  <2> QED
    BY <1>2, <2>1, <2>2, <2>3
<1> QED
  BY <1>3, <1>5, <1>6 DEF EndInv

LEMMA EndStep == FloodTypeOK /\ EndInv /\ [Next]_vars => EndInv'
<1> SUFFICES ASSUME FloodTypeOK, EndInv, [Next]_vars PROVE EndInv'
  OBVIOUS
<1>1. ASSUME NEW r \in Routers, SetupStep(r) PROVE EndInv'
  <2>1. PICK p \in {"connecting", "accepting", "open"} : phase' = [phase EXCEPT ![r] = p]
    BY <1>1, SetupPhase DEF SetupStep
  <2>2. phase[r] \in {"connecting", "accepting"}
    BY <1>1, SetupPhase DEF SetupStep
  <2>3. \A q \in Routers : phase'[q] = "exited" <=> phase[q] = "exited"
    BY <2>1, <2>2 DEF FloodTypeOK
  <2>4. UNCHANGED <<stream, table, sendBuffer2, passes, turn, cause>>
    BY <1>1 DEF SetupStep
  <2> QED
    BY <2>3, <2>4, EndFrame
<1>2. ASSUME NEW r \in Routers, ChildSend(r) PROVE EndInv'
  <2>1. \A a \in Routers : \A t \in NeighborSet(a) : \A p \in ToSet(stream'[a][t]) :
                  p \in ToSet(stream[a][t]) \/ (a = r /\ p = Lsp(r) /\ Lsp(r) \in Packet)
    BY <1>2, ChildPass DEF FloodTypeOK
  <2>2. cause' = cause /\ passes' = passes /\ phase' = phase
    BY <1>2 DEF ChildSend, setupVars
  <2> QED
    BY <2>1, <2>2, EndFrame
<1>3. ASSUME NEW r \in Routers, Receive(r) PROVE EndInv'
  <2>1. \E s, rows : Passed(r, s, rows)
    BY <1>3, ReceivePass DEF FloodTypeOK
  <2> QED
    BY <2>1, PassEnd
<1>4. UNCHANGED vars => EndInv'
  BY DEF vars, setupVars, EndInv, CauseIsEnd, JunkFromLimit, EndsNextToLimit
<1> QED
  BY <1>1, <1>2, <1>3, <1>4 DEF Next

\* A parent ends because of its own limit or that of a neighbour, in any
\* network: the 'X' goes no further than one link, in whatever company it is
\* read (routed_LS.c:376-379, 447-461).
THEOREM EndsNextToLimitHolds == Spec => []EndsNextToLimit
<1>1. Init => FloodTypeOK /\ EndInv
  BY FloodTypeInit, EndInit
<1>2. FloodTypeOK /\ EndInv /\ [Next]_vars => (FloodTypeOK /\ EndInv)'
  BY FloodTypeStep, EndStep
<1>3. EndInv => EndsNextToLimit
  BY DEF EndInv
<1> QED
  BY <1>1, <1>2, <1>3, PTL DEF Spec

\* With rows of all links, and no other, shortpath does not hang.
LEMMA CompleteEnds ==
    ASSUME Joined, NEW links \in SUBSET (Links \cup {JunkLink}), "spinning" \in ShortPathEnds(links)
    PROVE  JunkLink \in links \/ ~(Links \subseteq links)
<1> SUFFICES ASSUME JunkLink \notin links, Links \subseteq links PROVE FALSE
  OBVIOUS
<1>1. links = Links
  OBVIOUS
<1>2. Outcome(CostOf(links)) = "returned"
  BY <1>1 DEF Joined, Outcome
<1>3. \A ending : <<links, ending>> \in Outcomes => ending = "returned"
  BY <1>2 DEF Outcomes
<1> QED
  BY <1>3 DEF ShortPathEnds

\* One pass hangs only as CompleteEnds allows.
LEMMA PassHangs ==
    ASSUME Joined, FloodTypeOK, FloodTypeOK', HangsOnlyIncomplete,
           NEW r \in Routers, NEW s, NEW rows, Passed(r, s, rows)
    PROVE  HangsOnlyIncomplete'
<1> SUFFICES ASSUME NEW q \in Routers, phase'[q] = "spinning"
             PROVE  JunkLink \in table'[q] \/ ~(Links \subseteq table'[q])
  BY DEF HangsOnlyIncomplete
<1>1. table' = table \/ Learns(r, rows)
  BY DEF Passed, Ends
<1>2. CASE q # r
  <2>1. phase'[q] = phase[q] /\ table'[q] = table[q]
    BY <1>1, <1>2 DEF Passed, Ends, Leave, Learns, FloodTypeOK
  <2> QED
    BY <2>1 DEF HangsOnlyIncomplete
<1>3. CASE q = r
  <2>1. phase[r] = "open"
    BY DEF Passed
  <2>2. "spinning" \in ShortPathEnds(table'[r])
    BY <1>3, <2>1 DEF Passed, Ends, Leave, FloodTypeOK
  <2>3. table'[r] \in SUBSET (Links \cup {JunkLink})
    BY DEF FloodTypeOK
  <2> QED
    BY <1>3, <2>2, <2>3, CompleteEnds
<1> QED
  BY <1>2, <1>3

\* In a network where every router can be reached, a parent hangs in
\* shortpath only while its table lacks a row of some link, or has a row that
\* is no link (routed_LS.c:418-429).
THEOREM HangsOnlyIncompleteHolds ==
    ASSUME Joined
    PROVE  Spec => []HangsOnlyIncomplete
<1>1. Init => HangsOnlyIncomplete
  BY DEF Init, SetupInit, HangsOnlyIncomplete
<1>2. FloodTypeOK /\ FloodTypeOK' /\ HangsOnlyIncomplete /\ [Next]_vars => HangsOnlyIncomplete'
  <2> SUFFICES ASSUME FloodTypeOK, FloodTypeOK', HangsOnlyIncomplete, [Next]_vars
               PROVE  HangsOnlyIncomplete'
    OBVIOUS
  <2>1. ASSUME NEW r \in Routers, SetupStep(r) PROVE HangsOnlyIncomplete'
    <3>1. \E p \in {"connecting", "accepting", "open"} : phase' = [phase EXCEPT ![r] = p]
      BY <2>1, SetupPhase DEF SetupStep
    <3>2. \A q \in Routers : phase'[q] = "spinning" => phase[q] = "spinning"
      BY <3>1 DEF FloodTypeOK
    <3>3. table' = table
      BY <2>1 DEF SetupStep
    <3> QED
      BY <3>2, <3>3 DEF HangsOnlyIncomplete
  <2>2. ASSUME NEW r \in Routers, ChildSend(r) PROVE HangsOnlyIncomplete'
    BY <2>2 DEF ChildSend, setupVars, HangsOnlyIncomplete
  <2>3. ASSUME NEW r \in Routers, Receive(r) PROVE HangsOnlyIncomplete'
    <3>1. \E s, rows : Passed(r, s, rows)
      BY <2>3, ReceivePass DEF FloodTypeOK
    <3> QED
      BY <3>1, PassHangs
  <2>4. UNCHANGED vars => HangsOnlyIncomplete'
    BY DEF vars, setupVars, HangsOnlyIncomplete
  <2> QED
    BY <2>1, <2>2, <2>3, <2>4 DEF Next
<1> QED
  BY <1>1, <1>2, FloodTypeInvariance, PTL DEF Spec

-----------------------------------------------------------------------------
(* Hops *)

\* The routers of S and their neighbours.
Wider(S) == S \cup UNION {NeighborSet(x) : x \in S}

\* w is the table of Around(o).
Widens(w, o) ==
    /\ w \in [0..Cardinality(Routers) -> SUBSET Routers]
    /\ w[0] = {o}
    /\ \A n \in 1..Cardinality(Routers) : w[n] = Wider(w[n - 1])

LEMMA RoutersFinite == IsFiniteSet(Routers) /\ Cardinality(Routers) \in Nat
<1>1. IsFiniteSet(Nodes)
  BY FS_Interval, MaxAssumption DEF Nodes
<1>2. IsFiniteSet(Routers)
  BY <1>1, LinkStateAssumption, FS_Subset
<1> QED
  BY <1>2, FS_CardinalityType

LEMMA AroundWidens ==
    ASSUME NEW o \in Routers
    PROVE  Widens(Around(o), o)
<1> DEFINE N == Cardinality(Routers)
           X == SUBSET Routers
           base == {o}
           step == [i \in Nat |-> [x \in X |-> Wider(x)]]
           Table(w) == w = [n \in 0..N |-> IF n = 0 THEN {o}
                        ELSE w[n - 1] \cup UNION {NeighborSet(x) : x \in w[n - 1]}]
<1>1. N \in Nat /\ base \in X
  BY RoutersFinite
<1>2. \A i \in Nat : \A x \in X : step[i][x] \in X
  BY NeighborFacts DEF Wider
<1> HIDE DEF N, X, base, step
<1>3. PICK h : Recursion(h, X, base, step, N)
  BY <1>1, <1>2, RecursionUpTo, Zenon
<1>4. h \in [0..N -> X] /\ h[0] = {o}
  BY <1>3 DEF Recursion, base
<1>5. ASSUME NEW i \in 1..N PROVE h[i] = Wider(h[i - 1])
  <2> DEFINE j == i - 1
  <2>1. j \in 0..(N - 1) /\ j \in Nat /\ j \in 0..N /\ j + 1 = i
    BY <1>1
  <2> HIDE DEF j
  <2>2. h[j + 1] = step[j][h[j]] /\ h[j] \in X
    BY <1>3, <1>4, <2>1 DEF Recursion
  <2>3. h[i] = Wider(h[j])
    BY <2>1, <2>2 DEF step
  <2> QED
    BY <2>3 DEF j
<1>6. Table(h)
  <2>1. \A i \in 0..N : h[i] = IF i = 0 THEN {o}
                        ELSE h[i - 1] \cup UNION {NeighborSet(x) : x \in h[i - 1]}
    <3> SUFFICES ASSUME NEW i \in 0..N, i # 0
                 PROVE  h[i] = h[i - 1] \cup UNION {NeighborSet(x) : x \in h[i - 1]}
      BY <1>4
    <3>1. i \in 1..N
      BY <1>1
    <3> QED
      BY <1>5, <3>1 DEF Wider
  <2> QED
    BY <1>4, <2>1
<1> DEFINE w == CHOOSE within : Table(within)
<1>7. Table(w)
  <2> HIDE DEF Table
  <2> QED
    BY <1>6, Zenon
<1>8. Around(o) = w
  BY DEF Around, N
<1> HIDE DEF w
<1>9. /\ DOMAIN w = 0..N /\ w[0] = {o}
      /\ \A i \in 1..N : w[i] = Wider(w[i - 1])
  <2>1. /\ DOMAIN w = 0..N
        /\ \A i \in 0..N : w[i] = IF i = 0 THEN {o}
                        ELSE w[i - 1] \cup UNION {NeighborSet(x) : x \in w[i - 1]}
    BY <1>7
  <2> QED
    BY <1>1, <2>1 DEF Wider
<1>10. w \in [0..N -> X]
  <2> DEFINE S == {i \in Nat : i <= N => w[i] = h[i]}
  <2>1. 0 \in S
    BY <1>4, <1>9
  <2>2. ASSUME NEW i \in Nat, i \in S PROVE i + 1 \in S
    <3> SUFFICES ASSUME i + 1 <= N PROVE w[i + 1] = h[i + 1]
      OBVIOUS
    <3>1. i + 1 \in 1..N /\ (i + 1) - 1 = i /\ w[i] = h[i]
      BY <1>1, <2>2
    <3>2. w[i + 1] = Wider(w[(i + 1) - 1]) /\ h[i + 1] = Wider(h[(i + 1) - 1])
      BY <1>5, <1>9, <3>1
    <3> QED
      BY <3>1, <3>2
  <2> HIDE DEF S
  <2>3. Nat \subseteq S
    BY <2>1, <2>2, NaturalInduction
  <2>4. \A i \in 0..N : w[i] = h[i]
    BY <1>1, <2>3 DEF S
  <2>5. w = [i \in 0..N |-> w[i]]
    BY <1>7
  <2> QED
    BY <1>4, <1>9, <2>4, <2>5
<1> QED
  BY <1>8, <1>9, <1>10 DEF Widens, N, X

\* After as many steps as there are routers nothing more is found: until then
\* every step finds one.
LEMMA AroundStops ==
    ASSUME NEW o \in Routers, NEW w, Widens(w, o)
    PROVE  Wider(w[Cardinality(Routers)]) = w[Cardinality(Routers)]
<1> DEFINE N == Cardinality(Routers)
           S == {n \in Nat : n <= N => Wider(w[n]) = w[n] \/ n + 1 <= Cardinality(w[n])}
<1>1. N \in Nat /\ IsFiniteSet(Routers)
  BY RoutersFinite
<1>2. ASSUME NEW n \in Nat, n <= N
      PROVE  /\ w[n] \in SUBSET Routers /\ IsFiniteSet(w[n])
             /\ Cardinality(w[n]) \in Nat /\ Cardinality(w[n]) <= N
  <2>1. n \in 0..N /\ w[n] \in SUBSET Routers
    BY <1>1, <1>2 DEF Widens
  <2>2. IsFiniteSet(w[n]) /\ Cardinality(w[n]) <= N
    BY <1>1, <2>1, FS_Subset
  <2> QED
    BY <2>1, <2>2, FS_CardinalityType
<1>3. 0 \in S
  <2>1. Cardinality(w[0]) = 1
    BY FS_Singleton, Zenon DEF Widens
  <2> QED
    BY <2>1
<1>4. ASSUME NEW n \in Nat, n \in S PROVE n + 1 \in S
  <2> SUFFICES ASSUME n + 1 <= N
               PROVE  Wider(w[n + 1]) = w[n + 1] \/ (n + 1) + 1 <= Cardinality(w[n + 1])
    OBVIOUS
  <2>1. n + 1 \in 1..N /\ (n + 1) - 1 = n /\ n <= N
    BY <1>1
  <2>2. w[n + 1] = Wider(w[n])
    <3>1. w[n + 1] = Wider(w[(n + 1) - 1])
      BY <2>1 DEF Widens
    <3> QED
      BY <2>1, <3>1
  <2>3. CASE Wider(w[n]) = w[n]
    BY <2>2, <2>3
  <2>4. CASE Wider(w[n]) # w[n]
    <3>1. n + 1 <= Cardinality(w[n])
      BY <1>4, <2>1, <2>4
    <3>2. w[n] \subseteq w[n + 1] /\ w[n] # w[n + 1]
      BY <2>2, <2>4 DEF Wider
    <3>3. Cardinality(w[n]) < Cardinality(w[n + 1])
      BY <1>2, <2>1, <3>2, FS_Subset
    <3> QED
      BY <1>2, <2>1, <3>1, <3>3
  <2> QED
    BY <2>3, <2>4
<1>5. N \in S
  <2> HIDE DEF S
  <2> QED
    BY <1>1, <1>3, <1>4, NaturalInduction
<1>6. Cardinality(w[N]) <= N /\ Cardinality(w[N]) \in Nat
  BY <1>1, <1>2
<1> QED
  BY <1>1, <1>5, <1>6

LEMMA LeastFacts ==
    ASSUME NEW S \in SUBSET Nat, S # {}
    PROVE  Least(S) \in S /\ \A y \in S : Least(S) <= y
<1>1. \E x \in S : \A y \in S : x <= y
  BY LeastNatural
<1> QED
  BY <1>1 DEF Least

\* A router that is reached is at the number of its hops, and no nearer.
LEMMA HopsFacts ==
    ASSUME NEW o \in Routers, NEW r \in Routers, Reached(o, r)
    PROVE  /\ Hops[o][r] \in 0..Cardinality(Routers) /\ r \in Around(o)[Hops[o][r]]
           /\ \A n \in 0..Cardinality(Routers) : r \in Around(o)[n] => Hops[o][r] <= n
<1> DEFINE S == {n \in 0..Cardinality(Routers) : r \in Around(o)[n]}
<1>1. S \in SUBSET Nat /\ S # {}
  BY RoutersFinite DEF Reached
<1>2. Hops[o][r] = Least(S)
  BY DEF Hops
<1> HIDE DEF S
<1>3. Hops[o][r] \in S /\ \A n \in S : Hops[o][r] <= n
  BY <1>1, <1>2, LeastFacts
<1> QED
  BY <1>3 DEF S

\* Nothing is nearer to a router than itself, and its neighbours are next.
LEMMA HopsFromSelf ==
    ASSUME NEW o \in Routers
    PROVE  Reached(o, o) /\ Hops[o][o] = 0
<1>1. Widens(Around(o), o) /\ Cardinality(Routers) \in Nat
  BY AroundWidens, RoutersFinite
<1>2. 0 \in 0..Cardinality(Routers) /\ o \in Around(o)[0]
  BY <1>1 DEF Widens
<1>3. Reached(o, o)
  BY <1>2 DEF Reached
<1>4. Hops[o][o] \in 0..Cardinality(Routers) /\ Hops[o][o] <= 0
  BY <1>2, <1>3, HopsFacts
<1> QED
  BY <1>1, <1>3, <1>4

\* One more link is at most one more hop.
LEMMA HopsOfNeighbor ==
    ASSUME NEW o \in Routers, NEW s \in Routers, Reached(o, s), NEW r \in NeighborSet(s)
    PROVE  Reached(o, r) /\ Hops[o][r] <= Hops[o][s] + 1
<1> DEFINE N == Cardinality(Routers)
           w == Around(o)
           h == Hops[o][s]
<1>1. Widens(w, o) /\ N \in Nat
  BY AroundWidens, RoutersFinite
<1>2. h \in 0..N /\ s \in w[h] /\ r \in Routers
  BY HopsFacts, NeighborFacts
<1> HIDE DEF w, h
<1>3. r \in Wider(w[h])
  BY <1>2 DEF Wider
<1>4. CASE h < N
  <2>1. h + 1 \in 1..N /\ (h + 1) - 1 = h /\ h + 1 \in 0..N
    BY <1>1, <1>2, <1>4
  <2>2. w[h + 1] = Wider(w[(h + 1) - 1])
    BY <1>1, <2>1 DEF Widens
  <2>3. r \in w[h + 1]
    BY <1>3, <2>1, <2>2
  <2>4. Reached(o, r)
    BY <2>1, <2>3 DEF Reached, w
  <2> QED
    BY <1>2, <2>1, <2>3, <2>4, HopsFacts DEF w, h
<1>5. CASE h = N
  <2>1. Wider(w[N]) = w[N]
    BY <1>1, AroundStops
  <2>2. N \in 0..N /\ r \in w[N]
    BY <1>1, <1>3, <1>5, <2>1
  <2>3. Reached(o, r)
    BY <2>2 DEF Reached, w
  <2>4. Hops[o][r] <= N /\ Hops[o][r] \in 0..N
    BY <1>2, <2>2, <2>3, HopsFacts DEF w
  <2> QED
    BY <1>1, <1>5, <2>3, <2>4 DEF h
<1> QED
  BY <1>1, <1>2, <1>4, <1>5

-----------------------------------------------------------------------------
(* Where rows get to *)

\* A row has come from its origin, and has lost one from its TTL for every
\* hop.
RowInv(s, row) ==
    Reached(row.link[1], s) /\ Hops[row.link[1]][s] <= FirstTTL - row.ttl

\* s has sent such a row, or has it in its buffer.
Wrote(s, row) ==
    /\ row.link # JunkLink
    /\ \/ row \in ToSet(sendBuffer2[s])
       \/ \E r \in NeighborSet(s) : row \in RowsOn(s, r)

RouteInv == \A s \in Routers : \A row : Wrote(s, row) => RowInv(s, row)

\* A row that r has read from s, and aged.
AgedFrom(s, r, row) ==
    \E c \in Genuine(RowsOn(s, r)) :
        c.link = row.link /\ row.ttl = c.ttl - 1 /\ c.ttl \in Int /\ c.link \in Links

\* The rows of the aged packet are such.
LEMMA AgedRows ==
    ASSUME NEW r \in Routers, NEW s, NEW rows, ReadFrom(r, s, rows),
           NEW row \in Genuine(ToSet(Aged(rows)))
    PROVE  AgedFrom(s, r, row)
<1>1. rows \in Packet /\ ToSet(rows) \subseteq RowsOn(s, r)
  BY DEF ReadFrom
<1>2. row \in ToSet(Aged(rows)) /\ row.link # JunkLink
  BY DEF Genuine
<1>3. PICK c \in ToSet(rows) : row.link = c.link /\ row.ttl = c.ttl - 1
  BY <1>1, <1>2, AgedFacts
<1>4. c.link \in Links \cup {JunkLink} /\ c.ttl \in Int
  BY <1>1, RowType
<1>5. c \in Genuine(RowsOn(s, r)) /\ c.link \in Links
  BY <1>1, <1>2, <1>3, <1>4 DEF Genuine
<1> QED
  BY <1>3, <1>4, <1>5 DEF AgedFrom

\* What a router has in its buffer after a pass: what was there, or rows that
\* r has read from s and aged.
LEMMA BufferRows ==
    ASSUME FloodTypeOK, NEW r \in Routers, NEW s, NEW rows, Passed(r, s, rows),
           NEW a \in Routers, NEW row \in ToSet(sendBuffer2'[a]), row.link # JunkLink
    PROVE  Wrote(a, row) \/ (a = r /\ AgedFrom(s, r, row))
<1>1. CASE row \in ToSet(sendBuffer2[a])
  BY <1>1 DEF Wrote
<1>2. CASE a = r /\ sendBuffer2'[a] = Aged(rows)
  <2>1. row \in Genuine(ToSet(Aged(rows))) /\ ReadFrom(r, s, rows)
    BY <1>2 DEF Genuine, Passed
  <2> QED
    BY <1>2, <2>1, AgedRows
<1>3. sendBuffer2'[a] = sendBuffer2[a] \/ (a = r /\ sendBuffer2'[a] = Aged(rows))
  BY DEF Passed, Keeps, FloodTypeOK
<1> QED
  BY <1>1, <1>2, <1>3

\* ... and so what it has sent.
LEMMA PassRows ==
    ASSUME FloodTypeOK, FloodTypeOK', NEW r \in Routers, NEW s, NEW rows, Passed(r, s, rows),
           NEW a \in Routers, NEW row, Wrote(a, row)'
    PROVE  Wrote(a, row) \/ (a = r /\ AgedFrom(s, r, row))
<1>1. row.link # JunkLink
  BY DEF Wrote
<1>2. CASE row \in ToSet(sendBuffer2'[a])
  BY <1>1, <1>2, BufferRows
<1>3. CASE row \notin ToSet(sendBuffer2'[a])
  <2>1. PICK t \in NeighborSet(a) : row \in RowsOn(a, t)'
    BY <1>3 DEF Wrote
  <2>2. PICK p \in ToSet(stream'[a][t]) : row \in ToSet(p)
    BY <2>1 DEF RowsOn, ToSet
  <2>3. CASE p \in ToSet(stream[a][t])
    <3>1. row \in RowsOn(a, t)
      BY <2>2, <2>3 DEF RowsOn, ToSet
    <3> QED
      BY <1>1, <3>1 DEF Wrote
  <2>4. CASE a = r /\ p = Aged(rows)
    <3>1. row \in Genuine(ToSet(Aged(rows))) /\ ReadFrom(r, s, rows)
      BY <1>1, <2>2, <2>4 DEF Genuine, Passed
    <3> QED
      BY <2>4, <3>1, AgedRows
  <2>5. CASE a = r /\ \E n \in Nat \ {0} : p = Kill(sendBuffer2'[r], n)
    <3>1. PICK n \in Nat \ {0} : p = Kill(sendBuffer2'[r], n)
      BY <2>5
    <3>2. PICK left : left = sendBuffer2'[r] /\ left \in Seq(Row)
      BY DEF FloodTypeOK
    <3>3. p = Kill(left, n)
      BY <3>1, <3>2
    <3>4. row \in ToSet(left)
      BY <1>1, <2>2, <3>2, <3>3, KillFacts
    <3> QED
      BY <1>3, <2>5, <3>2, <3>4
  <2> QED
    BY <2>3, <2>4, <2>5 DEF Passed, Written
<1> QED
  BY <1>2, <1>3

\* ... and after a child's send: what was there, or its own rows.
LEMMA ChildRows ==
    ASSUME FloodTypeOK, NEW r \in Routers, ChildSend(r),
           NEW a \in Routers, NEW row, Wrote(a, row)'
    PROVE  Wrote(a, row) \/ (a = r /\ row.link[1] = r /\ row.ttl = FirstTTL)
<1>1. row.link # JunkLink
  BY DEF Wrote
<1>2. CASE row \in ToSet(sendBuffer2'[a])
  <2>1. row \in ToSet(sendBuffer2[a])
    BY <1>2 DEF ChildSend
  <2> QED
    BY <1>1, <2>1 DEF Wrote
<1>3. CASE row \notin ToSet(sendBuffer2'[a])
  <2>1. PICK t \in NeighborSet(a) : row \in RowsOn(a, t)'
    BY <1>3 DEF Wrote
  <2>2. PICK p \in ToSet(stream'[a][t]) : row \in ToSet(p)
    BY <2>1 DEF RowsOn, ToSet
  <2>3. CASE p \in ToSet(stream[a][t])
    <3>1. row \in RowsOn(a, t)
      BY <2>2, <2>3 DEF RowsOn, ToSet
    <3> QED
      BY <1>1, <3>1 DEF Wrote
  <2>4. CASE a = r /\ p = Lsp(r)
    BY <2>2, <2>4, LspFacts DEF ToSet
  <2> QED
    BY <2>3, <2>4, ChildPass DEF FloodTypeOK
<1> QED
  BY <1>2, <1>3

LEMMA RouteInit == Init => RouteInv
<1> SUFFICES ASSUME Init, NEW s \in Routers, NEW row, Wrote(s, row) PROVE FALSE
  BY DEF RouteInv
<1>1. \A r \in NeighborSet(s) : stream[s][r] = <<>>
  BY DEF Init
<1>2. sendBuffer2[s] = <<>>
  BY DEF Init
<1>3. \A r \in NeighborSet(s) : RowsOn(s, r) = {}
  BY <1>1 DEF RowsOn
<1>4. ToSet(sendBuffer2[s]) = {}
  BY <1>2 DEF ToSet
<1> QED
  BY <1>3, <1>4 DEF Wrote

LEMMA RouteStep == FloodTypeOK /\ FloodTypeOK' /\ RouteInv /\ [Next]_vars => RouteInv'
<1> SUFFICES ASSUME FloodTypeOK, FloodTypeOK', RouteInv, [Next]_vars,
                    NEW a \in Routers, NEW row, Wrote(a, row)'
             PROVE  RowInv(a, row)
  BY DEF RouteInv, RowInv
<1>1. Wrote(a, row) => RowInv(a, row)
  BY DEF RouteInv
<1>2. FirstTTL \in Int
  BY LinkStateAssumption
<1>3. ASSUME NEW r \in Routers, SetupStep(r) PROVE RowInv(a, row)
  BY <1>1, <1>3 DEF SetupStep, Wrote, RowsOn
<1>4. ASSUME NEW r \in Routers, ChildSend(r) PROVE RowInv(a, row)
  <2>1. CASE a = r /\ row.link[1] = r /\ row.ttl = FirstTTL
    <3>1. Reached(r, r) /\ Hops[r][r] = 0
      BY HopsFromSelf
    <3> QED
      BY <1>2, <2>1, <3>1 DEF RowInv
  <2> QED
    BY <1>1, <1>4, <2>1, ChildRows
<1>5. ASSUME NEW r \in Routers, Receive(r) PROVE RowInv(a, row)
  <2>1. \E s, rows : Passed(r, s, rows)
    BY <1>5, ReceivePass DEF FloodTypeOK
  <2>2. PICK s : \E rows : Passed(r, s, rows)
    BY <2>1
  <2>3. PICK rows : Passed(r, s, rows)
    BY <2>2
  <2>4. s \in Routers /\ r \in NeighborSet(s)
    BY <2>3, NeighborFacts DEF Passed
  <2>5. CASE a = r /\ AgedFrom(s, r, row)
    <3>1. PICK c \in Genuine(RowsOn(s, r)) :
              c.link = row.link /\ row.ttl = c.ttl - 1 /\ c.ttl \in Int /\ c.link \in Links
      BY <2>5 DEF AgedFrom
    <3> DEFINE o == row.link[1]
    <3>2. o \in Routers
      BY <3>1, LinkFacts
    <3>3. Wrote(s, c)
      BY <2>4 DEF Genuine, Wrote
    <3>4. Reached(o, s) /\ Hops[o][s] <= FirstTTL - c.ttl
      BY <2>4, <3>1, <3>3 DEF RouteInv, RowInv
    <3> HIDE DEF o
    <3>5. Reached(o, r) /\ Hops[o][r] <= Hops[o][s] + 1
      BY <2>4, <3>2, <3>4, HopsOfNeighbor
    <3>6. Hops[o][r] \in Int /\ Hops[o][s] \in Int
      BY <2>4, <3>2, <3>4, <3>5, HopsFacts, RoutersFinite
    <3>7. Hops[o][r] <= FirstTTL - row.ttl
      BY <1>2, <3>1, <3>4, <3>5, <3>6
    <3> QED
      BY <2>5, <3>5, <3>7 DEF RowInv, o
  <2> QED
    BY <1>1, <2>3, <2>5, PassRows
<1>6. UNCHANGED vars => RowInv(a, row)
  BY <1>1 DEF vars, Wrote, RowsOn
<1> QED
  BY <1>3, <1>4, <1>5, <1>6 DEF Next

LEMMA RouteInvariance == Spec => []RouteInv
BY RouteInit, RouteStep, FloodTypeInvariance, PTL DEF Spec

\* In any network a row has lost one from its TTL for every router it has
\* passed, also one that was read together with others or went out with an
\* 'X' (routed_LS.c:390-416, 451-454).
THEOREM TtlCountsHopsHolds == Spec => []TtlCountsHops
<1>1. RouteInv => TtlCountsHops
  <2> SUFFICES ASSUME RouteInv, NEW s \in Routers, NEW r \in NeighborSet(s),
                      NEW row \in Genuine(RowsOn(s, r))
               PROVE  Hops[row.link[1]][s] <= FirstTTL - row.ttl
    BY DEF TtlCountsHops
  <2>1. Wrote(s, row)
    BY DEF Genuine, Wrote
  <2> QED
    BY <2>1 DEF RouteInv, RowInv
<1> QED
  BY <1>1, RouteInvariance, PTL
=============================================================================
