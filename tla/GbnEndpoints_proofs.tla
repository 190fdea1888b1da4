------------------------ MODULE GbnEndpoints_proofs ------------------------
(***************************************************************************)
(* What each program of netSys/pa2 guarantees on its own, step by step:    *)
(* the lemmas that the proofs about Gbn and GbnFifo cite.                  *)
(***************************************************************************)
EXTENDS GbnEndpoints, SequenceLemmas

\* The numbers of packets and bytes fit: the size the server computes from
\* the final packet (GBNserver.c:160) is the size of the file that was read.
LEMMA SizeFacts ==
    /\ numberOfPackets \in Nat \ {0}
    /\ sizeOfFinalPacket \in 0..PayloadSize
    /\ (numberOfPackets - 1) * PayloadSize + sizeOfFinalPacket = SourceSize
  BY SizeAssumption, SMT DEF numberOfPackets, sizeOfFinalPacket

\* The scan for the first missing frame (GBNserver.c:118-124) always finds
\* one, at most one past the final packet.
LEMMA FirstMissingExists ==
    ASSUME NEW S \in SUBSET SeqNums
    PROVE  /\ FirstMissing(S) \in 0..(numberOfPackets + 1)
           /\ IsFirstMissing(S, FirstMissing(S))
<1>1. numberOfPackets \in Nat \ {0}
  BY SizeFacts
<1> DEFINE T == Nat \ S
<1>2. numberOfPackets + 1 \in T
  BY <1>1 DEF SeqNums
<1>3. PICK k \in T : \A j \in T : k <= j
  BY <1>2, LeastNatural
<1>4. k \in 0..(numberOfPackets + 1)
  BY <1>1, <1>2, <1>3
<1>5. IsFirstMissing(S, k)
  BY <1>3 DEF IsFirstMissing
<1>6. k \in 0..(WindowSlots - 1)
  BY <1>1, <1>4, SlotAssumption
<1>7. /\ FirstMissing(S) \in 0..(WindowSlots - 1)
      /\ IsFirstMissing(S, FirstMissing(S))
  BY <1>5, <1>6 DEF FirstMissing
<1>8. FirstMissing(S) <= k
  BY <1>5, <1>6, <1>7, SlotAssumption DEF IsFirstMissing
<1> QED
  BY <1>1, <1>4, <1>7, <1>8

\* Receiving more never brings the first missing frame back.
LEMMA FirstMissingMonotone ==
    ASSUME NEW S \in SUBSET SeqNums, NEW k \in Nat, IsFirstMissing(S, k),
           NEW U \in SUBSET SeqNums, S \subseteq U
    PROVE  k <= FirstMissing(U)
<1>1. /\ FirstMissing(U) \in Nat
      /\ FirstMissing(U) \notin U
  BY FirstMissingExists, SizeFacts DEF IsFirstMissing
<1> QED
  BY <1>1 DEF IsFirstMissing

\* Losing a digit never makes a cumulative ack larger (GBNclient.c:182).
LEMMA DecodeCumSmaller ==
    ASSUME NEW c \in Nat
    PROVE  DecodeCum(c) \in 0..c
  BY ModulusAssumption, SMT DEF DecodeCum

-----------------------------------------------------------------------------

\* Every packet the client sends is well-formed.
LEMMA PacketType == \A i \in SeqNums : Packet(i) \in Packets
<1> SUFFICES ASSUME NEW i \in SeqNums
             PROVE  Packet(i) \in Packets
  OBVIOUS
<1>1. sizeOfFinalPacket \in 0..PayloadSize /\ PayloadSize \in 0..PayloadSize
  BY SizeFacts, SizeAssumption
<1> QED
  BY <1>1 DEF Packet, Packets

\* Both programs start in their invariants.
LEMMA EndpointsInit ==
    ASSUME ClientInit, ServerInit
    PROVE  ClientTypeOK /\ ClientInv /\ ServerTypeOK /\ ServerInv
<1>1. numberOfPackets \in Nat \ {0} /\ 0 \in 0..ClosingLimit
  BY SizeFacts, LimitAssumption
<1>2. ClientTypeOK /\ ClientInv
  BY <1>1, LimitAssumption DEF ClientInit, ClientTypeOK, ClientInv
<1>3. ServerTypeOK
  BY <1>1, SizeAssumption DEF ServerInit, ServerTypeOK
<1>4. ServerInv
  BY <1>1 DEF ServerInit, ServerInv, IsFirstMissing
<1> QED
  BY <1>2, <1>3, <1>4

\* A step of the loop that sends the window keeps the client's invariant and
\* sends a packet of the window.
LEMMA SendNextStep ==
    ASSUME ClientTypeOK, ClientInv, SendNext
    PROVE  /\ ClientTypeOK' /\ ClientInv'
           /\ nextSeq \in SeqNums /\ nextSeq <= lar + SendWindowSize
  BY SizeFacts, LimitAssumption, WindowAssumption
     DEF ClientTypeOK, ClientInv, SendNext, InSendWindow, SeqNums

\* So does the end of the window; the client gives up at the limit only.
LEMMA EndWindowStep ==
    ASSUME ClientTypeOK, ClientInv, EndWindow
    PROVE  ClientTypeOK' /\ ClientInv' /\ client' # "done"
  BY LimitAssumption DEF ClientTypeOK, ClientInv, EndWindow

\* So does a timeout.
LEMMA AckTimeoutStep ==
    ASSUME ClientTypeOK, ClientInv, AckTimeout
    PROVE  ClientTypeOK' /\ ClientInv' /\ client' = "sending"
  BY SizeFacts DEF ClientTypeOK, ClientInv, AckTimeout

\* An ack, however old, keeps the client's invariant and leaves lar no further
\* than the ack allows.
LEMMA ReadAckStep ==
    ASSUME ClientTypeOK, ClientInv, NEW m \in Acks, SoundAck(m, lfr, server), ReadAck(m)
    PROVE  /\ ClientTypeOK' /\ ClientInv'
           /\ lar' <= m.cum - 1
           /\ client' # "gaveUp"
           /\ client' = "done" <=> m.ack = numberOfPackets
<1>1. m.cum \in 0..(numberOfPackets + 1) /\ numberOfPackets \in Nat \ {0}
  BY SizeFacts DEF Acks
<1>2. DecodeCum(m.cum) \in 0..m.cum
  BY <1>1, DecodeCumSmaller
<1>3. lar' = DecodeCum(m.cum) - 1
  BY DEF ReadAck
<1>4. lar' \in -1..numberOfPackets /\ lar' <= m.cum - 1
  BY <1>1, <1>2, <1>3
<1>5. client' = IF m.ack = numberOfPackets THEN "done" ELSE "waiting"
  BY DEF ReadAck
<1>6. client' = "waiting" => lar' < numberOfPackets
  BY <1>1, <1>4, <1>5 DEF SoundAck
<1> QED
  BY <1>4, <1>5, <1>6 DEF ReadAck, ClientTypeOK, ClientInv

-----------------------------------------------------------------------------

\* One pass of the server's loop keeps the server's invariant, never takes
\* anything back, and answers with a sound ack; the final packet ends it.
LEMMA HandlePacketStep ==
    ASSUME ServerTypeOK, ServerInv,
           NEW p \in Packets, SoundPacket(p, lfr), HandlePacket(p)
    PROVE  /\ ServerTypeOK' /\ ServerInv'
           /\ lfr <= lfr'
           /\ \A f \in cumAckWindow : f \in cumAckWindow' /\ file'[f] = file[f]
           /\ Reply(p) \in Acks
           /\ SoundAck(Reply(p), lfr', server')
           /\ (server' = "open") <=> (p.seq # numberOfPackets)
<1> DEFINE N == numberOfPackets
<1>1. /\ N \in Nat \ {0}
      /\ p.seq \in 0..N
      /\ lfr \in -1..N
      /\ p.payload = p.seq
      /\ p.final <=> p.seq = N
      /\ p.seq = N => p.size = sizeOfFinalPacket
  BY SizeFacts DEF Packets, SoundPacket, Packet, ServerTypeOK, SeqNums
<1>2. /\ server = "open"
      /\ IsFirstMissing(cumAckWindow, lfr + 1)
      /\ \A f \in cumAckWindow : file[f] = f
      /\ N \notin cumAckWindow
      /\ cumAckWindow \in SUBSET SeqNums
      /\ file \in [SeqNums -> SeqNums \cup {Garbage}]
  BY DEF ServerInv, HandlePacket, ServerTypeOK
<1>3. lfr < N
  BY <1>1, <1>2 DEF IsFirstMissing
<1>4. InRecvWindow(p.seq) \/ (p.seq < lfr /\ p.seq # N)
  BY <1>1, <1>3, WindowAssumption DEF InRecvWindow, SoundPacket
<1>5. /\ cumAckWindow' \in SUBSET SeqNums
      /\ cumAckWindow \subseteq cumAckWindow'
      /\ \A f \in cumAckWindow' : file'[f] = f
      /\ file' \in [SeqNums -> SeqNums \cup {Garbage}]
      /\ N \in cumAckWindow' <=> p.seq = N
  <2>1. CASE Accept(p)
    BY <1>1, <1>2, <2>1 DEF Accept, SeqNums
  <2>2. CASE Refuse(p)
    BY <1>1, <1>2, <1>4, <2>2 DEF Refuse
  <2> QED
    BY <2>1, <2>2 DEF HandlePacket
<1> DEFINE c == FirstMissing(cumAckWindow')
<1>6. /\ c \in 0..(N + 1)
      /\ IsFirstMissing(cumAckWindow', c)
  BY <1>5, FirstMissingExists
<1>7. lfr' = c - 1
  <2>1. CASE Accept(p)
    BY <2>1 DEF Accept
  <2>2. CASE Refuse(p)
    <3>1. cumAckWindow' = cumAckWindow /\ lfr' = lfr
      BY <2>2 DEF Refuse
    <3>2. lfr + 1 \in Nat
      BY <1>1
    <3> QED
      BY <1>1, <1>2, <1>6, <3>1, <3>2 DEF IsFirstMissing
  <2> QED
    BY <2>1, <2>2 DEF HandlePacket
<1>8. lfr <= lfr'
  <2>1. lfr + 1 \in Nat
    BY <1>1
  <2>2. lfr + 1 <= c
    BY <1>2, <1>5, <2>1, FirstMissingMonotone
  <2> HIDE DEF c
  <2> QED
    BY <1>1, <1>6, <1>7, <2>2
<1>9. /\ (server' = "open") <=> (p.seq # N)
      /\ server' \in {"open", "writing"}
      /\ fileSize' = IF p.seq = N THEN SourceSize ELSE -1
  <2>1. CASE p.seq = N
    BY <1>1, <2>1, SizeFacts DEF HandlePacket, Finish
  <2>2. CASE p.seq # N
    BY <1>1, <1>2, <2>2 DEF HandlePacket, Finish, ServerInv
  <2> QED
    BY <2>1, <2>2
<1>10. ServerTypeOK'
  <2>1. lfr' \in -1..N
    <3> HIDE DEF c
    <3> QED  BY <1>1, <1>6, <1>7
  <2> QED
    BY <1>5, <1>9, <2>1, SizeAssumption DEF ServerTypeOK
<1>11. ServerInv'
  <2>1. lfr' + 1 = c
    <3> HIDE DEF c
    <3> QED  BY <1>6, <1>7
  <2> QED
    BY <1>5, <1>6, <1>9, <2>1 DEF ServerInv
<1>12. Reply(p) \in Acks /\ SoundAck(Reply(p), lfr', server')
  <2> DEFINE a == IF InRecvWindow(p.seq) THEN p.seq ELSE lfr
  <2>1. Reply(p) = [ack |-> a, cum |-> c]
    BY Zenon DEF Reply
  <2>2. a \in -1..N /\ (a = N <=> p.seq = N)
    BY <1>1, <1>3, <1>4
  <2> HIDE DEF a, c
  <2>3. p.seq # N => c <= N
    BY <1>1, <1>5, <1>6 DEF IsFirstMissing
  <2>4. Reply(p) \in Acks
    BY <1>1, <1>6, <2>1, <2>2 DEF Acks
  <2>5. SoundAck(Reply(p), lfr', server')
    BY <1>1, <1>6, <1>7, <1>9, <2>1, <2>2, <2>3 DEF SoundAck
  <2> QED
    BY <2>4, <2>5
<1> QED
  BY <1>2, <1>5, <1>8, <1>9, <1>10, <1>11, <1>12

\* So does the write of the output file, whether it succeeds or not.
LEMMA WriteFileStep ==
    ASSUME ServerTypeOK, ServerInv, WriteFile
    PROVE  /\ ServerTypeOK' /\ ServerInv'
           /\ server # "open" /\ server' # "open"
           /\ UNCHANGED <<lfr, cumAckWindow, file, fileSize>>
  BY DEF ServerTypeOK, ServerInv, WriteFile, IsFirstMissing
=============================================================================
