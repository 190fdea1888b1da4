----------------------------- MODULE Gbn_proofs -----------------------------
(***************************************************************************)
(* The safety of the netSys/pa2 transfer over a network that loses,        *)
(* reorders and duplicates, for every file size, packet size, window sizes *)
(* with SendWindowSize <= RecvWindowSize + 1, and every number of digits   *)
(* lost from the cumulative ack.                                           *)
(***************************************************************************)
EXTENDS Gbn, GbnEndpoints_proofs

\* Packets and acks stay sound as the server moves on.
LEMMA SoundStaysSound ==
    ASSUME NEW l \in -1..numberOfPackets, NEW k \in -1..numberOfPackets, l <= k
    PROVE  /\ \A p \in Packets : SoundPacket(p, l) => SoundPacket(p, k)
           /\ \A m \in Acks : \A s, t :
                  SoundAck(m, l, s) /\ (s = "open" \/ t # "open") => SoundAck(m, k, t)
<1>1. numberOfPackets \in Nat
  BY SizeFacts
<1>2. \A p \in Packets : p.seq \in Int
  BY <1>1 DEF Packets, SeqNums
<1>3. \A m \in Acks : m.cum \in Int
  BY <1>1 DEF Acks
<1> QED
  BY <1>1, <1>2, <1>3, WindowAssumption DEF SoundPacket, SoundAck

\* The two programs start in the invariant.
LEMMA InitInv == Init => IInv
<1> SUFFICES ASSUME Init
             PROVE  IInv
  OBVIOUS
<1>1. ClientTypeOK /\ ClientInv /\ ServerTypeOK /\ ServerInv
  BY EndpointsInit DEF Init
<1>2. lar <= lfr /\ client # "done" /\ data = {} /\ acks = {}
  BY DEF Init, ClientInit, ServerInit
<1> QED
  BY <1>1, <1>2 DEF IInv, TypeOK

\* A step of the client alone keeps the invariant when what is in flight
\* afterwards was in flight before, or is a packet of the window, and an
\* exit empties the client's socket.
LEMMA ClientSendInv == IInv /\ ClientSend => IInv'
<1> SUFFICES ASSUME IInv, ClientSend
             PROVE  IInv'
  OBVIOUS
<1>1. /\ ClientTypeOK' /\ ClientInv'
      /\ nextSeq \in SeqNums /\ nextSeq <= lar + SendWindowSize
  BY SendNextStep DEF IInv, TypeOK, ClientSend
<1>2. /\ UNCHANGED <<server, lfr, cumAckWindow, file, fileSize, acks>>
      /\ UNCHANGED <<client, lar>>
  BY DEF ClientSend, SendNext, serverVars
<1>3. ServerTypeOK' /\ ServerInv'
  BY <1>2 DEF IInv, TypeOK, ServerTypeOK, ServerInv, IsFirstMissing
<1>4. Packet(nextSeq) \in Packets
  BY <1>1, PacketType
<1>5. SoundPacket(Packet(nextSeq), lfr)
  <2>1. Packet(nextSeq).seq = nextSeq
    BY DEF Packet
  <2>2. nextSeq <= lfr + SendWindowSize
    BY <1>1, SizeFacts, WindowAssumption
       DEF IInv, TypeOK, ClientTypeOK, ServerTypeOK, SeqNums
  <2> QED
    BY <2>1, <2>2 DEF SoundPacket
<1>6. data' = data \/ (server = "open" /\ data' = data \cup {Packet(nextSeq)})
  BY DEF ClientSend, SendTo
<1>7. data' \subseteq Packets /\ \A p \in data' : SoundPacket(p, lfr) /\ server = "open"
  BY <1>4, <1>5, <1>6 DEF IInv, TypeOK
<1> QED
  BY <1>1, <1>2, <1>3, <1>7 DEF IInv, TypeOK, ClientExited

LEMMA ClientEndWindowInv == IInv /\ ClientEndWindow => IInv'
<1> SUFFICES ASSUME IInv, ClientEndWindow
             PROVE  IInv'
  OBVIOUS
<1>1. ClientTypeOK' /\ ClientInv' /\ client' # "done"
  BY EndWindowStep DEF IInv, TypeOK, ClientEndWindow
<1>2. UNCHANGED <<server, lfr, cumAckWindow, file, fileSize, data, lar>>
  BY DEF ClientEndWindow, EndWindow, serverVars
<1>3. ServerTypeOK' /\ ServerInv'
  BY <1>2 DEF IInv, TypeOK, ServerTypeOK, ServerInv, IsFirstMissing
<1>4. acks' \subseteq acks /\ (client' = "gaveUp" => acks' = {})
  BY DEF ClientEndWindow
<1> QED
  BY <1>1, <1>2, <1>3, <1>4 DEF IInv, TypeOK, ClientExited

LEMMA ClientTimeoutInv == IInv /\ ClientTimeout => IInv'
<1> SUFFICES ASSUME IInv, ClientTimeout
             PROVE  IInv'
  OBVIOUS
<1>1. ClientTypeOK' /\ ClientInv' /\ client' = "sending"
  BY AckTimeoutStep DEF IInv, TypeOK, ClientTimeout
<1>2. UNCHANGED <<server, lfr, cumAckWindow, file, fileSize, data, acks, lar>>
  BY DEF ClientTimeout, AckTimeout, serverVars
<1>3. ServerTypeOK' /\ ServerInv'
  BY <1>2 DEF IInv, TypeOK, ServerTypeOK, ServerInv, IsFirstMissing
<1> QED
  BY <1>1, <1>2, <1>3 DEF IInv, TypeOK, ClientExited

LEMMA ClientReceiveInv ==
    ASSUME IInv, NEW m \in acks, ClientReceive(m)
    PROVE  IInv'
<1>1. m \in Acks /\ SoundAck(m, lfr, server)
  BY DEF IInv, TypeOK
<1>2. /\ ClientTypeOK' /\ ClientInv'
      /\ lar' <= m.cum - 1
      /\ client' # "gaveUp"
      /\ client' = "done" <=> m.ack = numberOfPackets
  BY <1>1, ReadAckStep DEF IInv, TypeOK, ClientReceive
<1>3. UNCHANGED <<server, lfr, cumAckWindow, file, fileSize, data>>
  BY DEF ClientReceive, serverVars
<1>4. ServerTypeOK' /\ ServerInv'
  BY <1>3 DEF IInv, TypeOK, ServerTypeOK, ServerInv, IsFirstMissing
<1>5. acks' \subseteq acks /\ (client' = "done" => acks' = {})
  BY DEF ClientReceive, AfterDelivery
<1>6. lar' <= lfr
  BY <1>1, <1>2, SizeFacts
     DEF SoundAck, Acks, IInv, TypeOK, ServerTypeOK, ClientTypeOK
<1>7. client' = "done" => server # "open"
  BY <1>1, <1>2 DEF SoundAck
<1> QED
  BY <1>2, <1>3, <1>4, <1>5, <1>6, <1>7 DEF IInv, TypeOK, ClientExited

LEMMA ServerReceiveInv ==
    ASSUME IInv, NEW p \in data, ServerReceive(p)
    PROVE  /\ IInv'
           /\ lfr <= lfr'
           /\ \A f \in cumAckWindow : f \in cumAckWindow' /\ file'[f] = file[f]
<1>1. p \in Packets /\ SoundPacket(p, lfr) /\ server = "open"
  BY DEF IInv, TypeOK
<1>2. /\ ServerTypeOK' /\ ServerInv'
      /\ lfr <= lfr'
      /\ \A f \in cumAckWindow : f \in cumAckWindow' /\ file'[f] = file[f]
      /\ Reply(p) \in Acks
      /\ SoundAck(Reply(p), lfr', server')
  BY <1>1, HandlePacketStep DEF IInv, TypeOK, ServerReceive
<1>3. UNCHANGED <<client, lar, nextSeq, closingCount>>
  BY DEF ServerReceive, clientVars
<1>4. ClientTypeOK' /\ ClientInv'
  BY <1>3 DEF IInv, TypeOK, ClientTypeOK, ClientInv
<1>5. /\ lar \in -1..numberOfPackets /\ lfr \in -1..numberOfPackets
      /\ lfr' \in -1..numberOfPackets
  BY <1>2 DEF IInv, TypeOK, ClientTypeOK, ServerTypeOK
<1>6. lar' <= lfr'
  BY <1>2, <1>3, <1>5, SizeFacts DEF IInv
<1>7. /\ data' \subseteq data
      /\ server' # "open" => data' = {}
  BY DEF ServerReceive, AfterDelivery
<1>8. \A q \in data' : SoundPacket(q, lfr') /\ server' = "open"
  BY <1>2, <1>5, <1>7, SoundStaysSound DEF IInv, TypeOK
<1>9. acks' = acks \/ (~ClientExited /\ acks' = acks \cup {Reply(p)})
  BY DEF ServerReceive, SendTo
<1>10. \A m \in acks : SoundAck(m, lfr', server')
  BY <1>1, <1>2, <1>5, SoundStaysSound DEF IInv, TypeOK
<1>11. /\ acks' \subseteq Acks
       /\ \A m \in acks' : SoundAck(m, lfr', server') /\ ~ClientExited'
  BY <1>2, <1>3, <1>9, <1>10 DEF IInv, TypeOK, ClientExited
<1>12. client' = "done" => server' # "open"
  BY <1>1, <1>3 DEF IInv
<1> QED
  BY <1>2, <1>4, <1>6, <1>7, <1>8, <1>11, <1>12 DEF IInv, TypeOK

\* The output file is written while acks are in flight or read: none of them
\* says anything of it.
LEMMA ServerWriteInv == IInv /\ ServerWrite => IInv'
<1> SUFFICES ASSUME IInv, ServerWrite
             PROVE  IInv'
  OBVIOUS
<1>1. /\ ServerTypeOK' /\ ServerInv'
      /\ server # "open" /\ server' # "open"
      /\ UNCHANGED <<lfr, cumAckWindow, file, fileSize>>
  BY WriteFileStep DEF IInv, TypeOK, ServerWrite
<1>2. UNCHANGED <<client, lar, nextSeq, closingCount, data, acks>>
  BY DEF ServerWrite, clientVars
<1>3. ClientTypeOK' /\ ClientInv'
  BY <1>2 DEF IInv, TypeOK, ClientTypeOK, ClientInv
<1>4. \A m \in acks : SoundAck(m, lfr, server') /\ ~ClientExited
  <2>1. lfr \in -1..numberOfPackets
    BY DEF IInv, TypeOK, ServerTypeOK
  <2> QED
    BY <1>1, <2>1, SoundStaysSound, SizeFacts DEF IInv, TypeOK
<1> QED
  BY <1>1, <1>2, <1>3, <1>4 DEF IInv, TypeOK, ClientExited

LEMMA NextInv == IInv /\ [Next]_vars => IInv'
<1> SUFFICES ASSUME IInv, [Next]_vars
             PROVE  IInv'
  OBVIOUS
<1>1. CASE ClientSend
  BY <1>1, ClientSendInv
<1>2. CASE ClientEndWindow
  BY <1>2, ClientEndWindowInv
<1>3. CASE \E m \in acks : ClientReceive(m)
  BY <1>3, ClientReceiveInv
<1>4. CASE ClientTimeout
  BY <1>4, ClientTimeoutInv
<1>5. CASE \E p \in data : ServerReceive(p)
  BY <1>5, ServerReceiveInv
<1>6. CASE ServerWrite
  BY <1>6, ServerWriteInv
<1>7. CASE UNCHANGED vars
  BY <1>7 DEF vars, clientVars, serverVars, IInv, TypeOK, ClientTypeOK,
              ServerTypeOK, ClientInv, ServerInv, IsFirstMissing, ClientExited
<1> QED
  BY <1>1, <1>2, <1>3, <1>4, <1>5, <1>6, <1>7 DEF Next

\* The invariant holds in every reachable state.
THEOREM Invariance == Spec => []IInv
<1> QED
  BY InitInv, NextInv, PTL DEF Spec

-----------------------------------------------------------------------------

\* Type correctness.
THEOREM TypeCorrect == Spec => []TypeOK
<1>1. IInv => TypeOK
  BY DEF IInv
<1> QED
  BY <1>1, Invariance, PTL

\* The client never believes more than the server has.
THEOREM SenderNeverAheadHolds == Spec => []SenderNeverAhead
<1>1. IInv => SenderNeverAhead
  BY DEF IInv, SoundAck, SenderNeverAhead
<1> QED
  BY <1>1, Invariance, PTL

\* No packet is ever refused for being too new.
THEOREM NoPacketAboveWindowHolds == Spec => []NoPacketAboveWindow
<1>1. IInv => NoPacketAboveWindow
  <2> SUFFICES ASSUME IInv, NEW p \in data
               PROVE  p.seq <= lfr + 1 + RecvWindowSize
    BY DEF NoPacketAboveWindow
  <2>1. p \in Packets /\ p.seq <= lfr + SendWindowSize
    BY DEF IInv, TypeOK, SoundPacket
  <2> QED
    BY <2>1, WindowAssumption, SizeFacts
       DEF IInv, TypeOK, ServerTypeOK, Packets, SeqNums
<1> QED
  BY <1>1, Invariance, PTL

\* What is received stays in the buffer as it was sent.
THEOREM PrefixIntactHolds == Spec => []PrefixIntact
<1>1. IInv => PrefixIntact
  <2> SUFFICES ASSUME IInv
               PROVE  PrefixIntact
    OBVIOUS
  <2>1. \A f \in cumAckWindow : file[f] = f
    BY DEF IInv, ServerInv
  <2>2. lfr \in Int /\ \A b \in 0..((lfr + 1) - 1) : b \in cumAckWindow
    BY SizeFacts
       DEF IInv, ServerInv, IsFirstMissing, TypeOK, ServerTypeOK
  <2>3. \A b \in 0..lfr : b \in cumAckWindow
    BY <2>2
  <2> QED
    BY <2>1, <2>3 DEF PrefixIntact
<1> QED
  BY <1>1, Invariance, PTL

\* Success is reported only once the server has left its loop to write a file
\* of the right size.
THEOREM DoneImpliesFinishedHolds == Spec => []DoneImpliesFinished
<1>1. IInv => DoneImpliesFinished
  BY DEF IInv, ServerInv, SoundAck, DoneImpliesFinished
<1> QED
  BY <1>1, Invariance, PTL

\* A timeout always has something to send again.
THEOREM WindowNeverEmptyHolds == Spec => []WindowNeverEmpty
<1>1. IInv => WindowNeverEmpty
  BY DEF IInv, TypeOK, ClientTypeOK, ClientInv, ClientExited, WindowNeverEmpty
<1> QED
  BY <1>1, Invariance, PTL

\* Nothing that was received is ever taken back or overwritten.
THEOREM ReceivedIsKeptHolds == Spec => ReceivedIsKept
<1> DEFINE Kept ==
      /\ lfr <= lfr'
      /\ \A f \in cumAckWindow : f \in cumAckWindow' /\ file'[f] = file[f]
<1>1. IInv /\ [Next]_vars => [Kept]_vars
  <2> SUFFICES ASSUME IInv, Next
               PROVE  Kept
    OBVIOUS
  <2>1. CASE \E p \in data : ServerReceive(p)
    BY <2>1, ServerReceiveInv
  <2>2. CASE UNCHANGED <<lfr, cumAckWindow, file>>
    BY <2>2, SizeFacts DEF IInv, TypeOK, ServerTypeOK
  <2> QED
    BY <2>1, <2>2
       DEF Next, ClientSend, ClientEndWindow, ClientReceive, ClientTimeout,
           ServerWrite, WriteFile, serverVars
<1> QED
  BY <1>1, Invariance, PTL DEF Spec, ReceivedIsKept
=============================================================================
