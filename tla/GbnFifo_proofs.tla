--------------------------- MODULE GbnFifo_proofs ---------------------------
(***************************************************************************)
(* GbnFifo implements Gbn: the queues, seen as sets of datagrams in        *)
(* flight, only do what a network that loses, reorders and duplicates may. *)
(* What Gbn_proofs shows is therefore also true of GbnFifo, for every      *)
(* file, window, loss budget and Cap.  And the two programs implement      *)
(* FileTransfer: as long as nothing is lost the packets in the queue never *)
(* leave a gap, whatever timeouts and repetitions do, so that the file the *)
(* server ends with is the one read; after a loss a block that has not     *)
(* arrived is Garbage.                                                     *)
(***************************************************************************)
EXTENDS GbnFifo, GbnEndpoints_proofs, SequenceTheorems

\* What the operations on a queue do to the set of datagrams in it.
LEMMA RangeOfAppend ==
    ASSUME NEW S, NEW q \in Seq(S), NEW m
    PROVE  /\ Append(q, m) \in Seq(S \cup {m})
           /\ Range(Append(q, m)) = Range(q) \cup {m}
<1>1. Append(q, m) \in Seq(S \cup {m})
  OBVIOUS
<1>2. /\ DOMAIN Append(q, m) = 1..(Len(q) + 1)
      /\ \A i \in 1..Len(q) : Append(q, m)[i] = q[i]
      /\ Append(q, m)[Len(q) + 1] = m
      /\ DOMAIN q = 1..Len(q) /\ Len(q) \in Nat
  OBVIOUS
<1> QED
  BY <1>1, <1>2 DEF Range

LEMMA RangeOfTail ==
    ASSUME NEW S, NEW q \in Seq(S), q # <<>>
    PROVE  /\ Tail(q) \in Seq(S)
           /\ Head(q) \in Range(q)
           /\ Range(Tail(q)) \in {Range(q), Range(q) \ {Head(q)}}
<1>1. /\ Tail(q) \in Seq(S)
      /\ DOMAIN Tail(q) = 1..(Len(q) - 1)
      /\ \A i \in 1..(Len(q) - 1) : Tail(q)[i] = q[i + 1]
      /\ DOMAIN q = 1..Len(q) /\ Len(q) \in Nat \ {0}
      /\ Head(q) = q[1]
  OBVIOUS
<1>2. Head(q) \in Range(q)
  BY <1>1 DEF Range
<1>3. Range(Tail(q)) \subseteq Range(q)
  BY <1>1 DEF Range
<1>4. Range(q) \subseteq Range(Tail(q)) \cup {Head(q)}
  <2> SUFFICES ASSUME NEW i \in 1..Len(q)
               PROVE  q[i] \in Range(Tail(q)) \cup {Head(q)}
    BY <1>1 DEF Range
  <2>1. CASE i = 1
    BY <2>1, <1>1
  <2>2. CASE i # 1
    <3>1. i - 1 \in 1..(Len(q) - 1) /\ Tail(q)[i - 1] = q[i]
      BY <2>2, <1>1
    <3> QED
      BY <3>1, <1>1 DEF Range
  <2> QED
    BY <2>1, <2>2
<1> QED
  BY <1>1, <1>2, <1>3, <1>4

LEMMA RangeOfEmpty == Range(<<>>) = {}
  BY DEF Range

-----------------------------------------------------------------------------

\* The two programs are the same in both compositions.
LEMMA SameClient ==
    /\ Network!ClientInit <=> ClientInit
    /\ Network!SendNext <=> SendNext
    /\ Network!EndWindow <=> EndWindow
    /\ Network!AckTimeout <=> AckTimeout
    /\ \A m : Network!ReadAck(m) <=> ReadAck(m)
    /\ Network!ClientExited <=> ClientExited
    /\ UNCHANGED Network!clientVars <=> UNCHANGED clientVars
    /\ \A i : Network!Packet(i) = Packet(i)
<1> USE DEF numberOfPackets, Network!numberOfPackets,
            InSendWindow, Network!InSendWindow, DecodeCum, Network!DecodeCum
<1>1. Network!ClientInit <=> ClientInit
  BY DEF ClientInit, Network!ClientInit
<1>2. Network!SendNext <=> SendNext
  BY DEF SendNext, Network!SendNext
<1>3. Network!EndWindow <=> EndWindow
  BY DEF EndWindow, Network!EndWindow
<1>4. Network!AckTimeout <=> AckTimeout
  BY DEF AckTimeout, Network!AckTimeout
<1>5. ASSUME NEW m PROVE Network!ReadAck(m) <=> ReadAck(m)
  BY DEF ReadAck, Network!ReadAck
<1>6. Network!ClientExited <=> ClientExited
  BY DEF ClientExited, Network!ClientExited
<1>7. UNCHANGED Network!clientVars <=> UNCHANGED clientVars
  BY DEF clientVars, Network!clientVars
<1>8. \A i : Network!Packet(i) = Packet(i)
  BY DEF Packet, Network!Packet, sizeOfFinalPacket, Network!sizeOfFinalPacket
<1> QED
  BY <1>1, <1>2, <1>3, <1>4, <1>5, <1>6, <1>7, <1>8

LEMMA SameServer ==
    /\ Network!ServerInit <=> ServerInit
    /\ \A p : Network!HandlePacket(p) <=> HandlePacket(p)
    /\ \A p : Network!Reply(p) = Reply(p)
    /\ Network!WriteFile <=> WriteFile
    /\ UNCHANGED Network!serverVars <=> UNCHANGED serverVars
<1> USE DEF InRecvWindow, Network!InRecvWindow
<1>1. Network!ServerInit <=> ServerInit
  BY DEF ServerInit, Network!ServerInit, SeqNums, Network!SeqNums,
         numberOfPackets, Network!numberOfPackets
<1>2. \A T : Network!FirstMissing(T) = FirstMissing(T)
  BY DEF FirstMissing, Network!FirstMissing, IsFirstMissing, Network!IsFirstMissing
<1>3. ASSUME NEW p PROVE Network!HandlePacket(p) <=> HandlePacket(p)
  BY <1>2 DEF HandlePacket, Network!HandlePacket, Accept, Network!Accept,
         Refuse, Network!Refuse, Finish, Network!Finish
<1>4. ASSUME NEW p PROVE Network!Reply(p) = Reply(p)
  BY <1>2 DEF Reply, Network!Reply
<1>5. UNCHANGED Network!serverVars <=> UNCHANGED serverVars
  BY DEF serverVars, Network!serverVars
<1>6. Network!WriteFile <=> WriteFile
  BY DEF WriteFile, Network!WriteFile
<1> QED
  BY <1>1, <1>3, <1>4, <1>5, <1>6

\* Nothing but sequences of datagrams is ever queued.
Queues == \E S : dataQ \in Seq(S) /\ ackQ \in Seq(S)

\* The initial states are Gbn's.
LEMMA InitRefines == Init => Network!Init /\ Queues
<1> SUFFICES ASSUME Init
             PROVE  Network!Init /\ Queues
  OBVIOUS
<1>1. dataQ \in Seq({}) /\ ackQ \in Seq({})
  BY DEF Init
<1> QED
  BY <1>1, RangeOfEmpty, SameClient, SameServer DEF Init, Network!Init, Queues

\* One more packet, or none: what sendto_ may do.
LEMMA ClientSendRefines ==
    ASSUME Queues, ClientSend
    PROVE  Network!ClientSend /\ Queues'
<1> DEFINE p == Packet(nextSeq)
<1>1. PICK S : dataQ \in Seq(S) /\ ackQ \in Seq(S)
  BY DEF Queues
<1>2. dataQ' = dataQ \/ (server = "open" /\ dataQ' = Append(dataQ, p))
  BY DEF ClientSend, SendTo
<1>3. ackQ' = ackQ /\ SendNext /\ UNCHANGED serverVars
  BY DEF ClientSend
<1> HIDE DEF p
<1>4. dataQ' \in Seq(S \cup {p}) /\ ackQ' \in Seq(S \cup {p})
  BY <1>1, <1>2, <1>3, RangeOfAppend, SeqMonotonic
<1>5. Range(dataQ') \in Network!SendTo(Range(dataQ), p, server = "open")
  BY <1>1, <1>2, RangeOfAppend DEF Network!SendTo
<1>6. Network!Packet(nextSeq) = p
  BY SameClient DEF p
<1>7. Network!ClientSend
  BY <1>3, <1>5, <1>6, SameClient, SameServer DEF Network!ClientSend, Range
<1>8. Queues'
  BY <1>4 DEF Queues
<1> QED
  BY <1>7, <1>8

\* A client that gives up closes its socket with the acks in it.
LEMMA ClientEndWindowRefines ==
    ASSUME Queues, ClientEndWindow
    PROVE  Network!ClientEndWindow /\ Queues'
<1>1. PICK S : dataQ \in Seq(S) /\ ackQ \in Seq(S)
  BY DEF Queues
<1>2. /\ EndWindow /\ UNCHANGED serverVars /\ dataQ' = dataQ
      /\ ackQ' = IF client' = "gaveUp" THEN <<>> ELSE ackQ
  BY DEF ClientEndWindow
<1>3. Range(ackQ') = IF client' = "gaveUp" THEN {} ELSE Range(ackQ)
  BY <1>2, RangeOfEmpty
<1>4. Network!ClientEndWindow
  BY <1>2, <1>3, SameClient, SameServer DEF Network!ClientEndWindow, Range
<1>5. dataQ' \in Seq(S) /\ ackQ' \in Seq(S)
  BY <1>1, <1>2
<1> QED
  BY <1>4, <1>5 DEF Queues

\* The ack at the head of its queue is one in flight.  Another copy further
\* behind makes the step a delivery of a duplicate.
LEMMA ClientReceiveRefines ==
    ASSUME Queues, ClientReceive
    PROVE  (\E m \in Range(ackQ) : Network!ClientReceive(m)) /\ Queues'
<1> DEFINE m == Head(ackQ)
<1>1. PICK S : dataQ \in Seq(S) /\ ackQ \in Seq(S)
  BY DEF Queues
<1>2. /\ ackQ # <<>> /\ ReadAck(m) /\ UNCHANGED serverVars /\ dataQ' = dataQ
      /\ ackQ' = IF client' = "done" THEN <<>> ELSE Tail(ackQ)
  BY DEF ClientReceive
<1> HIDE DEF m
<1>3. /\ Tail(ackQ) \in Seq(S)
      /\ m \in Range(ackQ)
      /\ Range(Tail(ackQ)) \in Network!AfterDelivery(Range(ackQ), m)
  BY <1>1, <1>2, RangeOfTail DEF m, Network!AfterDelivery
<1>4. IF client' = "done" THEN Range(ackQ') = {}
      ELSE Range(ackQ') \in Network!AfterDelivery(Range(ackQ), m)
  BY <1>2, <1>3, RangeOfEmpty
<1>5. Network!ClientReceive(m)
  BY <1>2, <1>3, <1>4, SameClient, SameServer DEF Network!ClientReceive, Range
<1>6. dataQ' \in Seq(S) /\ ackQ' \in Seq(S)
  BY <1>1, <1>2, <1>3
<1>7. Queues'
  BY <1>6 DEF Queues
<1> QED
  BY <1>3, <1>5, <1>7

LEMMA ClientTimeoutRefines ==
    ASSUME Queues, ClientTimeout
    PROVE  Network!ClientTimeout /\ Queues'
<1>1. AckTimeout /\ UNCHANGED <<serverVars, dataQ, ackQ>>
  BY DEF ClientTimeout
<1>2. Network!ClientTimeout
  BY <1>1, SameClient, SameServer DEF Network!ClientTimeout, Range
<1>3. Queues'
  BY <1>1 DEF Queues
<1> QED
  BY <1>2, <1>3

\* The same of a packet, and of the ack the server sends for it.
LEMMA ServerReceiveRefines ==
    ASSUME Queues, ServerReceive
    PROVE  (\E p \in Range(dataQ) : Network!ServerReceive(p)) /\ Queues'
<1> DEFINE p == Head(dataQ)
           a == Reply(p)
<1>1. PICK S : dataQ \in Seq(S) /\ ackQ \in Seq(S)
  BY DEF Queues
<1>2. /\ dataQ # <<>> /\ HandlePacket(p) /\ UNCHANGED clientVars
      /\ dataQ' = IF server' = "open" THEN Tail(dataQ) ELSE <<>>
      /\ ackQ' = ackQ \/ (~ClientExited /\ ackQ' = Append(ackQ, a))
  BY DEF ServerReceive, SendTo
<1>3. Network!Reply(p) = a /\ Network!HandlePacket(p)
  BY <1>2, SameServer
<1> HIDE DEF p, a
<1>4. /\ Tail(dataQ) \in Seq(S)
      /\ p \in Range(dataQ)
      /\ Range(Tail(dataQ)) \in Network!AfterDelivery(Range(dataQ), p)
  BY <1>1, <1>2, RangeOfTail DEF p, Network!AfterDelivery
<1>5. IF server' = "open"
      THEN Range(dataQ') \in Network!AfterDelivery(Range(dataQ), p)
      ELSE Range(dataQ') = {}
  BY <1>2, <1>4, RangeOfEmpty
<1>6. Range(ackQ') \in Network!SendTo(Range(ackQ), a, ~ClientExited)
  BY <1>1, <1>2, RangeOfAppend DEF Network!SendTo
<1>7. Network!ServerReceive(p)
  BY <1>2, <1>3, <1>4, <1>5, <1>6, SameClient, SameServer DEF Network!ServerReceive, Range
<1>8. dataQ' \in Seq(S \cup {a}) /\ ackQ' \in Seq(S \cup {a})
  <2>1. dataQ' \in Seq(S)
    BY <1>1, <1>2, <1>4
  <2>2. ackQ' \in Seq(S \cup {a})
    BY <1>1, <1>2, RangeOfAppend, SeqMonotonic
  <2> QED
    BY <2>1, <2>2, SeqMonotonic
<1>9. Queues'
  BY <1>8 DEF Queues
<1> QED
  BY <1>4, <1>7, <1>9

LEMMA ServerWriteRefines ==
    ASSUME Queues, ServerWrite
    PROVE  Network!ServerWrite /\ Queues'
<1>1. WriteFile /\ UNCHANGED <<clientVars, dataQ, ackQ>>
  BY DEF ServerWrite
<1>2. Network!ServerWrite
  BY <1>1, SameClient, SameServer DEF Network!ServerWrite, Range
<1>3. Queues'
  BY <1>1 DEF Queues
<1> QED
  BY <1>2, <1>3

\* Every step maps to one of Gbn, or to none.
LEMMA NextRefines ==
    ASSUME Queues, [Next]_vars
    PROVE  [Network!Next]_Network!vars /\ Queues'
<1>1. CASE ClientSend
  BY <1>1, ClientSendRefines DEF Network!Next
<1>2. CASE ClientEndWindow
  BY <1>2, ClientEndWindowRefines DEF Network!Next
<1>3. CASE ClientReceive
  BY <1>3, ClientReceiveRefines DEF Network!Next
<1>4. CASE ClientTimeout
  BY <1>4, ClientTimeoutRefines DEF Network!Next
<1>5. CASE ServerReceive
  BY <1>5, ServerReceiveRefines DEF Network!Next
<1>6. CASE ServerWrite
  BY <1>6, ServerWriteRefines DEF Network!Next
<1>7. CASE UNCHANGED vars
  BY <1>7, SameClient, SameServer DEF vars, Network!vars, Queues, Range
<1> QED
  BY <1>1, <1>2, <1>3, <1>4, <1>5, <1>6, <1>7 DEF Next

\* The transfer over a network that keeps the order and drops is one over a
\* network that may do anything (sendto_.h).
THEOREM ImplementsGbnHolds == Spec => ImplementsGbn
<1>1. Init => Network!Init /\ Queues
  BY InitRefines
<1>2. Queues /\ [Next]_vars => [Network!Next]_Network!vars /\ Queues'
  BY NextRefines
<1> QED
  BY <1>1, <1>2, PTL DEF Spec, ImplementsGbn, Network!Spec

-----------------------------------------------------------------------------

\* Gbn's network and its proofs, both seen through the queues.
Safety == INSTANCE Gbn_proofs WITH data <- Range(dataQ), acks <- Range(ackQ)

\* The assumptions Gbn_proofs makes of the constants are those made here.
LEMMA SafetyAssumptions ==
    /\ Safety!SizeAssumption /\ Safety!WindowAssumption /\ Safety!ModulusAssumption
    /\ Safety!LimitAssumption /\ Safety!SlotAssumption /\ Safety!GarbageAssumption
<1>1. Safety!SizeAssumption /\ Safety!WindowAssumption /\ Safety!ModulusAssumption
  BY SizeAssumption, WindowAssumption, ModulusAssumption
     DEF Safety!SizeAssumption, Safety!WindowAssumption, Safety!ModulusAssumption
<1>2. Safety!LimitAssumption /\ Safety!SlotAssumption /\ Safety!GarbageAssumption
  BY LimitAssumption, SlotAssumption, GarbageAssumption
     DEF Safety!LimitAssumption, Safety!SlotAssumption, Safety!GarbageAssumption,
         numberOfPackets, Safety!numberOfPackets, SeqNums, Safety!SeqNums
<1> QED
  BY <1>1, <1>2

LEMMA SameNetwork ==
    /\ Network!Init => Safety!Init
    /\ [Network!Next]_Network!vars => [Safety!Next]_Safety!vars
<1> USE DEF Network!numberOfPackets, Safety!numberOfPackets,
            Network!SeqNums, Safety!SeqNums
<1>1. Network!Init => Safety!Init
  BY Zenon DEF Network!Init, Safety!Init, Network!ClientInit, Safety!ClientInit,
         Network!ServerInit, Safety!ServerInit
<1>2. [Network!Next]_Network!vars => [Safety!Next]_Safety!vars
  BY Zenon DEF Network!Next, Safety!Next, Network!vars, Safety!vars,
         Network!clientVars, Safety!clientVars, Network!serverVars, Safety!serverVars,
         Network!ClientSend, Safety!ClientSend, Network!SendNext, Safety!SendNext,
         Network!ClientEndWindow, Safety!ClientEndWindow,
         Network!EndWindow, Safety!EndWindow,
         Network!ClientTimeout, Safety!ClientTimeout,
         Network!AckTimeout, Safety!AckTimeout,
         Network!ClientReceive, Safety!ClientReceive, Network!ReadAck, Safety!ReadAck,
         Network!ServerReceive, Safety!ServerReceive,
         Network!ServerWrite, Safety!ServerWrite,
         Network!WriteFile, Safety!WriteFile,
         Network!HandlePacket, Safety!HandlePacket, Network!Accept, Safety!Accept,
         Network!Refuse, Safety!Refuse, Network!Finish, Safety!Finish,
         Network!Reply, Safety!Reply, Network!Packet, Safety!Packet,
         Network!SendTo, Safety!SendTo, Network!AfterDelivery, Safety!AfterDelivery,
         Network!ClientExited, Safety!ClientExited, Network!DecodeCum, Safety!DecodeCum,
         Network!InSendWindow, Safety!InSendWindow,
         Network!InRecvWindow, Safety!InRecvWindow,
         Network!FirstMissing, Safety!FirstMissing,
         Network!IsFirstMissing, Safety!IsFirstMissing,
         Network!sizeOfFinalPacket, Safety!sizeOfFinalPacket
<1> QED
  BY <1>1, <1>2

\* Everything Gbn_proofs shows to be invariant is so here.
LEMMA SafetyInvariance == Spec => []Safety!IInv
<1>1. Safety!Spec => []Safety!IInv
  BY SafetyAssumptions, Safety!Invariance, PTL
<1>2. (Network!Init => Safety!Init) /\
      ([Network!Next]_Network!vars => [Safety!Next]_Safety!vars)
  BY SameNetwork
<1> QED
  BY <1>1, <1>2, ImplementsGbnHolds, PTL DEF ImplementsGbn, Network!Spec, Safety!Spec

\* ... that is, in the terms of this module:
LEMMA SafetyFacts ==
    ASSUME Safety!IInv
    PROVE  /\ ClientTypeOK /\ ClientInv /\ ServerTypeOK /\ ServerInv
           /\ lar <= lfr
           /\ \A p \in Range(dataQ) : p \in Packets /\ SoundPacket(p, lfr)
           /\ \A m \in Range(ackQ) : m \in Acks /\ SoundAck(m, lfr, server)
<1> USE DEF numberOfPackets, Safety!numberOfPackets, SeqNums, Safety!SeqNums
<1>1. ClientTypeOK /\ ClientInv
  BY DEF Safety!IInv, Safety!TypeOK, Safety!ClientTypeOK, ClientTypeOK,
         Safety!ClientInv, ClientInv
<1>2. ServerTypeOK /\ ServerInv
  BY DEF Safety!IInv, Safety!TypeOK, Safety!ServerTypeOK, ServerTypeOK,
         Safety!ServerInv, ServerInv, Safety!IsFirstMissing, IsFirstMissing
<1>3. \A p \in Range(dataQ) : p \in Packets /\ SoundPacket(p, lfr)
  BY DEF Safety!IInv, Safety!TypeOK, Safety!Packets, Packets,
         Safety!SoundPacket, SoundPacket, Safety!Packet, Packet,
         Safety!sizeOfFinalPacket, sizeOfFinalPacket
<1>4. lar <= lfr /\ \A m \in Range(ackQ) : m \in Acks /\ SoundAck(m, lfr, server)
  BY DEF Safety!IInv, Safety!TypeOK, Safety!Acks, Acks, Safety!SoundAck, SoundAck
<1> QED
  BY <1>1, <1>2, <1>3, <1>4

-----------------------------------------------------------------------------

\* AcksInOrder without the sequence it is stated with: the queued cumulative
\* acks do not decrease, and lie between what the client and the server know.
Ordered ==
    /\ \A j, k \in 1..Len(ackQ) : j <= k => ackQ[j].cum <= ackQ[k].cum
    /\ \A k \in 1..Len(ackQ) : lar + 1 <= ackQ[k].cum /\ ackQ[k].cum <= lfr + 1

\* The invariant of the steps: Gbn's, with acks in order.
OrderInv == Safety!IInv /\ Queues /\ Ordered

\* Every queued ack is one of Acks, at the place where it is queued.
LEMMA QueuedAcks ==
    ASSUME Safety!IInv, Queues
    PROVE  /\ Len(ackQ) \in Nat
           /\ \A k \in 1..Len(ackQ) : ackQ[k] \in Acks /\ ackQ[k].cum \in Nat
           /\ lar \in Int /\ lfr \in Int /\ lar <= lfr
<1>1. Len(ackQ) \in Nat /\ DOMAIN ackQ = 1..Len(ackQ)
  BY DEF Queues
<1>2. \A k \in 1..Len(ackQ) : ackQ[k] \in Acks
  BY <1>1, SafetyFacts DEF Range
<1>3. \A m \in Acks : m.cum \in Nat
  BY SizeFacts DEF Acks
<1>4. lar \in Int /\ lfr \in Int /\ lar <= lfr
  BY SafetyFacts, SizeFacts DEF ClientTypeOK, ServerTypeOK
<1> QED
  BY <1>1, <1>2, <1>3, <1>4

LEMMA OrderedImplies ==
    ASSUME OrderInv
    PROVE  AcksInOrder
<1> DEFINE n == Len(ackQ)
           mid == [k \in 1..n |-> ackQ[k].cum]
           cums == (<<lar + 1>> \o mid) \o <<lfr + 1>>
<1>1. /\ n \in Nat /\ lar + 1 \in Int /\ lfr + 1 \in Int /\ lar + 1 <= lfr + 1
      /\ \A k \in 1..n : ackQ[k].cum \in Int
  BY QueuedAcks DEF OrderInv
<1>2. mid \in Seq(Int) /\ Len(mid) = n
  BY <1>1
<1>3. \A k \in 1..n : mid[k] = ackQ[k].cum
  OBVIOUS
<1> HIDE DEF n, mid
<1>4. <<lar + 1>> \in Seq(Int) /\ <<lfr + 1>> \in Seq(Int)
  BY <1>1
<1>5. /\ Len(cums) = n + 2
      /\ \A k \in 1..(n + 2) :
             cums[k] = IF k = 1 THEN lar + 1
                       ELSE IF k = n + 2 THEN lfr + 1 ELSE mid[k - 1]
  BY <1>1, <1>2, <1>4
<1>6. \A j, k \in 1..(n + 2) : j <= k => cums[j] <= cums[k]
  <2> SUFFICES ASSUME NEW j \in 1..(n + 2), NEW k \in 1..(n + 2), j <= k
               PROVE  cums[j] <= cums[k]
    OBVIOUS
  <2>1. cums[j] = IF j = 1 THEN lar + 1 ELSE IF j = n + 2 THEN lfr + 1 ELSE mid[j - 1]
    BY <1>5
  <2>2. cums[k] = IF k = 1 THEN lar + 1 ELSE IF k = n + 2 THEN lfr + 1 ELSE mid[k - 1]
    BY <1>5
  <2>3. \A i \in 1..n : lar + 1 <= mid[i] /\ mid[i] <= lfr + 1 /\ mid[i] \in Int
    BY <1>1, <1>3 DEF OrderInv, Ordered, n
  <2>4. \A h, i \in 1..n : h <= i => mid[h] <= mid[i]
    BY <1>3 DEF OrderInv, Ordered, n
  <2> HIDE DEF cums
  <2>5. CASE j = 1 \/ k = n + 2
    BY <1>1, <2>1, <2>2, <2>3, <2>5
  <2>6. CASE j # 1 /\ k # n + 2
    <3>1. j - 1 \in 1..n /\ k - 1 \in 1..n /\ j - 1 <= k - 1
      BY <1>1, <2>6
    <3>2. cums[j] = mid[j - 1] /\ cums[k] = mid[k - 1]
      BY <1>1, <2>1, <2>2, <2>6
    <3> QED
      BY <2>4, <3>1, <3>2
  <2> QED
    BY <2>5, <2>6
<1> QED
  BY <1>5, <1>6 DEF AcksInOrder, n, mid

\* A client step that reads nothing leaves the queue, or empties it.
LEMMA ClientOrdered ==
    ASSUME Ordered, lar' = lar, lfr' = lfr, ackQ' \in {ackQ, <<>>}
    PROVE  Ordered'
<1>1. CASE ackQ' = ackQ
  BY <1>1 DEF Ordered
<1>2. CASE ackQ' = <<>>
  BY <1>2 DEF Ordered
<1> QED
  BY <1>1, <1>2

\* The ack that is read is the least; lar becomes one less, or, where a digit
\* is lost, less than that.
LEMMA ClientReceiveOrdered ==
    ASSUME OrderInv, ClientReceive
    PROVE  Ordered'
<1> DEFINE m == Head(ackQ)
<1>1. /\ ackQ # <<>> /\ ReadAck(m) /\ lfr' = lfr
      /\ ackQ' \in {<<>>, Tail(ackQ)}
  BY DEF ClientReceive, serverVars
<1>2. /\ Len(ackQ) \in Nat /\ lar \in Int /\ lfr \in Int
      /\ \A k \in 1..Len(ackQ) : ackQ[k].cum \in Nat
  BY QueuedAcks DEF OrderInv
<1>3. /\ 1 \in 1..Len(ackQ) /\ m = ackQ[1]
      /\ Len(Tail(ackQ)) = Len(ackQ) - 1
      /\ \A k \in 1..(Len(ackQ) - 1) : Tail(ackQ)[k] = ackQ[k + 1]
  BY <1>1 DEF OrderInv, Queues
<1>4. lar' \in Int /\ lar' + 1 <= m.cum
  <2>1. m.cum \in Nat
    BY <1>2, <1>3
  <2>2. DecodeCum(m.cum) \in 0..m.cum
    BY <2>1, DecodeCumSmaller
  <2>3. lar' = DecodeCum(m.cum) - 1
    BY <1>1 DEF ReadAck
  <2> QED
    BY <2>1, <2>2, <2>3
<1> HIDE DEF m
<1>5. CASE ackQ' = <<>>
  BY <1>5 DEF Ordered
<1>6. CASE ackQ' = Tail(ackQ)
  <2>1. Len(ackQ') = Len(ackQ) - 1
    BY <1>3, <1>6
  <2>2. \A k \in 1..Len(ackQ') :
            k + 1 \in 1..Len(ackQ) /\ ackQ'[k].cum = ackQ[k + 1].cum
    BY <1>2, <1>3, <1>6, <2>1
  <2>3. \A k \in 1..Len(ackQ') : m.cum <= ackQ'[k].cum /\ ackQ'[k].cum <= lfr + 1
    BY <1>3, <2>2 DEF OrderInv, Ordered
  <2>4. ASSUME NEW j \in 1..Len(ackQ'), NEW k \in 1..Len(ackQ'), j <= k
        PROVE  ackQ'[j].cum <= ackQ'[k].cum
    <3>1. j + 1 \in 1..Len(ackQ) /\ k + 1 \in 1..Len(ackQ) /\ j + 1 <= k + 1
      BY <1>2, <2>1, <2>4
    <3>2. ackQ'[j].cum = ackQ[j + 1].cum /\ ackQ'[k].cum = ackQ[k + 1].cum
      BY <2>2
    <3> QED
      BY <3>1, <3>2 DEF OrderInv, Ordered
  <2>5. \A k \in 1..Len(ackQ') : lar' + 1 <= ackQ'[k].cum
    BY <1>2, <1>3, <1>4, <2>2, <2>3
  <2> QED
    BY <1>1, <2>3, <2>4, <2>5 DEF Ordered
<1> QED
  BY <1>1, <1>5, <1>6

\* There is one first missing frame.
LEMMA FirstMissingUnique ==
    ASSUME NEW S \in SUBSET SeqNums, NEW k \in Nat, IsFirstMissing(S, k)
    PROVE  FirstMissing(S) = k
<1> DEFINE f == FirstMissing(S)
<1>1. f \in Nat /\ IsFirstMissing(S, f)
  BY FirstMissingExists, SizeFacts
<1> HIDE DEF f
<1>2. ~(f < k) /\ ~(k < f)
  BY <1>1 DEF IsFirstMissing
<1> QED
  BY <1>1, <1>2 DEF f

\* The server's acks carry one more than its lfr, which does not go back.
LEMMA ServerReceiveOrdered ==
    ASSUME OrderInv, ServerReceive
    PROVE  Ordered'
<1> DEFINE p == Head(dataQ)
           a == Reply(p)
<1>1. /\ dataQ # <<>> /\ HandlePacket(p) /\ lar' = lar
      /\ ackQ' \in {ackQ, Append(ackQ, a)}
  BY DEF ServerReceive, SendTo, clientVars
<1>2. /\ Len(ackQ) \in Nat /\ lar \in Int /\ lfr \in Int /\ lar <= lfr
      /\ \A k \in 1..Len(ackQ) : ackQ[k].cum \in Nat
  BY QueuedAcks DEF OrderInv
<1>3. p \in Range(dataQ)
  BY <1>1, RangeOfTail DEF OrderInv, Queues
<1>4. /\ ServerTypeOK' /\ ServerInv' /\ lfr <= lfr'
  <2>1. p \in Packets /\ SoundPacket(p, lfr) /\ ServerTypeOK /\ ServerInv
    BY <1>3, SafetyFacts DEF OrderInv
  <2> HIDE DEF p
  <2> QED
    BY <1>1, <2>1, HandlePacketStep
<1>5. a.cum = FirstMissing(cumAckWindow')
  BY DEF Reply
<1> HIDE DEF p, a
<1>6. lfr' \in Int /\ a.cum = lfr' + 1
  <2>1. lfr' \in -1..numberOfPackets /\ cumAckWindow' \in SUBSET SeqNums
    BY <1>4 DEF ServerTypeOK
  <2>2. PICK l : l = lfr'
    OBVIOUS
  <2>3. l \in Int /\ l + 1 \in Nat
    <3>1. l \in -1..numberOfPackets /\ numberOfPackets \in Int
      BY <2>1, <2>2, SizeFacts
    <3> QED
      BY <3>1
  <2>4. IsFirstMissing(cumAckWindow', l + 1)
    BY <1>4, <2>2 DEF ServerInv
  <2>5. FirstMissing(cumAckWindow') = l + 1
    BY <2>1, <2>3, <2>4, FirstMissingUnique
  <2> QED
    BY <1>5, <2>2, <2>3, <2>5
<1>7. \A k \in 1..Len(ackQ) : lar + 1 <= ackQ[k].cum /\ ackQ[k].cum <= lfr' + 1
  BY <1>2, <1>4, <1>6 DEF OrderInv, Ordered
<1>8. CASE ackQ' = ackQ
  BY <1>1, <1>7, <1>8 DEF OrderInv, Ordered
<1>9. CASE ackQ' = Append(ackQ, a)
  <2>1. /\ Len(ackQ') = Len(ackQ) + 1
        /\ \A k \in 1..Len(ackQ) : ackQ'[k] = ackQ[k]
        /\ ackQ'[Len(ackQ) + 1] = a
    BY <1>9 DEF OrderInv, Queues
  <2>2. lar + 1 <= lfr' + 1
    BY <1>2, <1>4, <1>6
  <2>3. ASSUME NEW k \in 1..Len(ackQ')
        PROVE  lar' + 1 <= ackQ'[k].cum /\ ackQ'[k].cum <= lfr' + 1
    <3>1. k \in 1..Len(ackQ) \/ k = Len(ackQ) + 1
      BY <1>2, <2>1
    <3> QED
      BY <1>1, <1>6, <1>7, <2>1, <2>2, <3>1
  <2>4. ASSUME NEW j \in 1..Len(ackQ'), NEW k \in 1..Len(ackQ'), j <= k
        PROVE  ackQ'[j].cum <= ackQ'[k].cum
    <3>1. CASE k \in 1..Len(ackQ)
      <4>1. j \in 1..Len(ackQ)
        BY <1>2, <2>1, <2>4, <3>1
      <4> QED
        BY <2>1, <2>4, <3>1, <4>1 DEF OrderInv, Ordered
    <3>2. CASE k = Len(ackQ) + 1
      BY <1>6, <2>1, <2>3, <3>2
    <3> QED
      BY <1>2, <2>1, <3>1, <3>2
  <2> QED
    BY <2>3, <2>4 DEF Ordered
<1> QED
  BY <1>1, <1>8, <1>9

LEMMA NextOrdered ==
    ASSUME OrderInv, [Next]_vars
    PROVE  Ordered'
<1>1. CASE ClientSend
  BY <1>1, ClientOrdered DEF ClientSend, SendNext, serverVars, OrderInv
<1>2. CASE ClientEndWindow
  BY <1>2, ClientOrdered DEF ClientEndWindow, EndWindow, serverVars, OrderInv
<1>3. CASE ClientReceive
  BY <1>3, ClientReceiveOrdered
<1>4. CASE ClientTimeout
  BY <1>4, ClientOrdered DEF ClientTimeout, AckTimeout, serverVars, OrderInv
<1>5. CASE ServerReceive
  BY <1>5, ServerReceiveOrdered
<1>6. CASE ServerWrite
  BY <1>6, ClientOrdered DEF ServerWrite, WriteFile, clientVars, OrderInv
<1>7. CASE UNCHANGED vars
  BY <1>7, ClientOrdered DEF vars, clientVars, serverVars, OrderInv
<1> QED
  BY <1>1, <1>2, <1>3, <1>4, <1>5, <1>6, <1>7 DEF Next

\* On a network that keeps the order of datagrams, the cumulative acks arrive
\* in order, and no later one is behind lar (GBNserver.c:118-126,
\* GBNclient.c:187).
THEOREM AcksInOrderHolds == Spec => []AcksInOrder
<1>1. Init => Queues /\ Ordered
  <2>1. Init => Ordered
    BY DEF Init, Ordered
  <2> QED
    BY <2>1, InitRefines
<1>2. OrderInv /\ [Next]_vars => Queues' /\ Ordered'
  BY NextRefines, NextOrdered DEF OrderInv
<1>3. OrderInv => AcksInOrder
  BY OrderedImplies
<1>4. Queues /\ Ordered /\ Safety!IInv => OrderInv
  BY DEF OrderInv
<1> QED
  BY <1>1, <1>2, <1>3, <1>4, SafetyInvariance, PTL DEF Spec

-----------------------------------------------------------------------------
(* FileTransfer *)

\* The packet before p, in the order they are numbered, is the j-th queued.
Follows(p, j) == dataQ[j].seq = p.seq - 1

\* A queued packet is one the server has, the next one, or comes after the
\* one before it.
QueueHasNoGap ==
    \A k \in 1..Len(dataQ) :
        dataQ[k].seq <= lfr + 1 \/ \E j \in 1..(k - 1) : Follows(dataQ[k], j)

\* So is the packet to be sent next.
SenderLeavesNoGap ==
    client = "sending" =>
        nextSeq <= lfr + 1 \/ \E j \in 1..Len(dataQ) : Follows(Packet(nextSeq), j)

NoGap ==
    /\ cumAckWindow = 0..lfr
    /\ server = "open" => QueueHasNoGap /\ SenderLeavesNoGap

\* A block that has not arrived is not in the buffer.
Blank == \A f \in SeqNums \ cumAckWindow : file[f] = Garbage

\* The invariant of the steps.
TransferInv ==
    /\ Safety!IInv
    /\ Queues
    /\ lost \in Nat
    /\ lost = 0 => NoGap
    /\ Blank

\* The part of the file whose blocks are in A.
Part(A) == [b \in SourceBlocks |-> IF b \in A THEN b ELSE Garbage]

\* What the server ends with is what has arrived; without a gap that is
\* everything.
Taken ==
    server # "open" =>
        /\ Held = Part(cumAckWindow)
        /\ NoGap => SourceBlocks \subseteq cumAckWindow

\* Every queued packet is one that the client sends, at its place.
LEMMA QueuedPackets ==
    ASSUME Safety!IInv, Queues
    PROVE  /\ Len(dataQ) \in Nat
           /\ \A k \in 1..Len(dataQ) :
                  /\ dataQ[k] \in Packets /\ SoundPacket(dataQ[k], lfr)
                  /\ dataQ[k].seq \in 0..numberOfPackets
           /\ lar \in Int /\ lfr \in -1..numberOfPackets /\ lar <= lfr
<1>1. Len(dataQ) \in Nat /\ DOMAIN dataQ = 1..Len(dataQ)
  BY DEF Queues
<1>2. \A k \in 1..Len(dataQ) : dataQ[k] \in Packets /\ SoundPacket(dataQ[k], lfr)
  BY <1>1, SafetyFacts DEF Range
<1>3. \A p \in Packets : p.seq \in 0..numberOfPackets
  BY DEF Packets, SeqNums
<1>4. lar \in Int /\ lfr \in -1..numberOfPackets /\ lar <= lfr
  BY SafetyFacts, SizeFacts DEF ClientTypeOK, ServerTypeOK
<1> QED
  BY <1>1, <1>2, <1>3, <1>4

\* The client numbers its packets one after the other.
LEMMA ClientSendReliable ==
    ASSUME TransferInv, lost = 0, lost' = 0, ClientSend
    PROVE  NoGap'
<1> DEFINE p == Packet(nextSeq)
           n == Len(dataQ)
<1>1. /\ NoGap /\ UNCHANGED <<lfr, cumAckWindow, server>>
      /\ nextSeq' = nextSeq + 1 /\ client = "sending"
      /\ server = "open" => dataQ' = Append(dataQ, p)
  BY DEF ClientSend, SendTo, SendNext, serverVars, TransferInv, NoGap
<1>2. p.seq = nextSeq
  BY DEF Packet
<1> HIDE DEF p
<1>3. CASE server # "open"
  BY <1>1, <1>3 DEF NoGap
<1>4. CASE server = "open"
  <2>1. nextSeq \in Int
    BY SafetyFacts, SizeFacts DEF TransferInv, ClientTypeOK
  <2>2. /\ n \in Nat /\ Len(dataQ') = n + 1
        /\ \A k \in 1..n : dataQ'[k] = dataQ[k]
        /\ dataQ'[n + 1] = p
    BY <1>1, <1>4 DEF TransferInv, Queues
  <2> HIDE DEF n
  <2>3. QueueHasNoGap'
    <3> SUFFICES ASSUME NEW k \in 1..(n + 1)
                 PROVE  dataQ'[k].seq <= lfr + 1
                        \/ \E j \in 1..(k - 1) : dataQ'[j].seq = dataQ'[k].seq - 1
      BY <1>1, <2>2 DEF QueueHasNoGap, Follows
    <3>1. CASE k = n + 1
      <4>1. nextSeq <= lfr + 1 \/ \E j \in 1..n : dataQ[j].seq = nextSeq - 1
        BY <1>1, <1>2, <1>4 DEF TransferInv, NoGap, SenderLeavesNoGap, Follows, n, p
      <4> QED
        BY <1>2, <2>2, <3>1, <4>1
    <3>2. CASE k \in 1..n
      <4>1. dataQ[k].seq <= lfr + 1 \/ \E j \in 1..(k - 1) : dataQ[j].seq = dataQ[k].seq - 1
        BY <1>4, <3>2 DEF TransferInv, NoGap, QueueHasNoGap, Follows, n
      <4>2. \A j \in 1..(k - 1) : dataQ'[j] = dataQ[j]
        BY <2>2, <3>2
      <4> QED
        BY <2>2, <3>2, <4>1, <4>2
    <3> QED
      BY <2>2, <3>1, <3>2
  <2>4. SenderLeavesNoGap'
    <3>1. Packet(nextSeq').seq = nextSeq + 1
      BY <1>1 DEF Packet
    <3>2. n + 1 \in 1..Len(dataQ') /\ dataQ'[n + 1].seq = (nextSeq + 1) - 1
      BY <1>2, <2>1, <2>2
    <3> QED
      BY <3>1, <3>2 DEF SenderLeavesNoGap, Follows
  <2> QED
    BY <1>1, <2>3, <2>4 DEF TransferInv, NoGap
<1> QED
  BY <1>3, <1>4

\* A client step that sends nothing leaves no gap unless it starts to send.
LEMMA ClientQuietReliable ==
    ASSUME NoGap, UNCHANGED <<lfr, cumAckWindow, server, dataQ>>,
           client' # "sending"
    PROVE  NoGap'
<1>1. QueueHasNoGap => QueueHasNoGap'
  BY DEF QueueHasNoGap, Follows
<1>2. SenderLeavesNoGap'
  BY DEF SenderLeavesNoGap
<1> QED
  BY <1>1, <1>2 DEF NoGap

\* The window is sent again from a packet that the server has or waits for.
LEMMA ClientTimeoutReliable ==
    ASSUME TransferInv, NoGap, ClientTimeout
    PROVE  NoGap'
<1>1. /\ UNCHANGED <<lfr, cumAckWindow, server, dataQ>>
      /\ nextSeq' = lar + 1
  BY DEF ClientTimeout, AckTimeout, serverVars
<1>2. lar + 1 <= lfr + 1
  BY QueuedPackets DEF TransferInv
<1>3. QueueHasNoGap => QueueHasNoGap'
  BY <1>1 DEF QueueHasNoGap, Follows
<1>4. SenderLeavesNoGap'
  BY <1>1, <1>2 DEF SenderLeavesNoGap
<1> QED
  BY <1>1, <1>3, <1>4 DEF TransferInv, NoGap

\* What the server has in order it keeps in order: a packet that comes next
\* extends it by one, any other is a repetition.
LEMMA NextInOrder ==
    ASSUME ServerTypeOK, cumAckWindow = 0..lfr, NEW s \in SeqNums, s <= lfr + 1,
           NEW p, p.seq = s, HandlePacket(p)
    PROVE  /\ cumAckWindow' = 0..lfr'
           /\ lfr' \in Int /\ lfr <= lfr' /\ s <= lfr'
<1>1. s \in Int /\ lfr \in Int /\ lfr + 1 \in Nat /\ lfr + 2 \in Nat
  BY SizeFacts DEF SeqNums, ServerTypeOK
<1>2. CASE s = lfr + 1
  <2>1. Accept(p)
    BY <1>1, <1>2, WindowAssumption DEF HandlePacket, Refuse, InRecvWindow
  <2>2. cumAckWindow' = 0..(lfr + 1)
    BY <1>1, <1>2, <2>1 DEF Accept
  <2>3. cumAckWindow' \in SUBSET SeqNums
    BY <2>1 DEF Accept, ServerTypeOK
  <2>4. IsFirstMissing(cumAckWindow', lfr + 2)
    BY <1>1, <2>2 DEF IsFirstMissing
  <2>5. FirstMissing(cumAckWindow') = lfr + 2
    BY <1>1, <2>3, <2>4, FirstMissingUnique
  <2>6. lfr' = lfr + 1
    BY <1>1, <2>1, <2>5 DEF Accept
  <2> QED
    BY <1>1, <1>2, <2>2, <2>6
<1>3. CASE s # lfr + 1
  <2>1. s <= lfr
    BY <1>1, <1>3
  <2>2. cumAckWindow' = cumAckWindow /\ lfr' = lfr
    <3>1. CASE Accept(p)
      <4>1. cumAckWindow' = cumAckWindow
        BY <1>1, <2>1, <3>1 DEF Accept, SeqNums
      <4>2. IsFirstMissing(cumAckWindow, lfr + 1)
        BY <1>1 DEF IsFirstMissing
      <4>3. FirstMissing(cumAckWindow) = lfr + 1
        BY <1>1, <4>2, FirstMissingUnique DEF ServerTypeOK
      <4>4. FirstMissing(cumAckWindow') = lfr + 1
        BY <4>1, <4>3, Zenon
      <4>5. lfr' = FirstMissing(cumAckWindow') - 1
        BY <3>1 DEF Accept
      <4> QED
        BY <1>1, <4>1, <4>4, <4>5
    <3>2. CASE Refuse(p)
      BY <3>2 DEF Refuse
    <3> QED
      BY <3>1, <3>2 DEF HandlePacket
  <2> QED
    BY <1>1, <2>1, <2>2
<1> QED
  BY <1>2, <1>3

\* The head of the queue follows nothing, so it is one the server can use, be
\* its ack lost or not.
LEMMA ServerReceiveReliable ==
    ASSUME TransferInv, NoGap, ServerReceive
    PROVE  NoGap'
<1> DEFINE p == Head(dataQ)
           n == Len(dataQ)
<1>1. /\ dataQ # <<>> /\ HandlePacket(p) /\ UNCHANGED <<client, nextSeq>>
      /\ server' # "open" \/ dataQ' = Tail(dataQ)
      /\ server = "open"
  BY DEF ServerReceive, clientVars, HandlePacket, TransferInv, NoGap
<1>2. /\ n \in Nat \ {0} /\ p = dataQ[1]
      /\ Len(Tail(dataQ)) = n - 1
      /\ \A k \in 1..(n - 1) : Tail(dataQ)[k] = dataQ[k + 1]
  BY <1>1 DEF TransferInv, Queues
<1>3. /\ \A k \in 1..n : dataQ[k].seq \in SeqNums
      /\ ServerTypeOK /\ cumAckWindow = 0..lfr
      /\ lfr \in Int
  BY QueuedPackets, SafetyFacts, SizeFacts DEF TransferInv, NoGap, SeqNums
<1>4. QueueHasNoGap /\ SenderLeavesNoGap
  BY <1>1 DEF TransferInv, NoGap
<1>5. p.seq \in SeqNums /\ p.seq <= lfr + 1
  BY <1>2, <1>3, <1>4 DEF QueueHasNoGap
<1> HIDE DEF p, n
<1>6. /\ cumAckWindow' = 0..lfr'
      /\ lfr' \in Int /\ lfr <= lfr' /\ p.seq <= lfr'
  BY <1>1, <1>3, <1>5, NextInOrder
<1>7. CASE server' = "open"
  <2>1. PICK l : l = lfr'
    OBVIOUS
  <2>2. l \in Int /\ lfr <= l /\ p.seq <= l /\ p.seq \in Int
    BY <1>5, <1>6, <2>1, SizeFacts DEF SeqNums
  <2>3. /\ Len(dataQ') = n - 1
        /\ \A k \in 1..(n - 1) : dataQ'[k] = dataQ[k + 1]
    BY <1>1, <1>2, <1>7
  <2>4. ASSUME NEW k \in 1..(n - 1), dataQ[k + 1].seq > l + 1
        PROVE  \E j \in 1..(k - 1) : dataQ'[j].seq = dataQ'[k].seq - 1
    <3>1. k + 1 \in 1..n /\ dataQ[k + 1].seq \in Int
      BY <1>2, <1>3, SizeFacts DEF SeqNums
    <3>2. PICK j \in 1..k : dataQ[j].seq = dataQ[k + 1].seq - 1
      BY <1>3, <1>4, <2>2, <2>4, <3>1 DEF QueueHasNoGap, Follows, n
    <3>3. j # 1
      BY <1>2, <2>2, <2>4, <3>1, <3>2
    <3>4. j - 1 \in 1..(k - 1) /\ dataQ'[j - 1] = dataQ[j]
      BY <1>2, <2>3, <3>2, <3>3
    <3> QED
      BY <2>3, <3>2, <3>4
  <2>5. QueueHasNoGap'
    <3> SUFFICES ASSUME NEW k \in 1..(n - 1)
                 PROVE  dataQ'[k].seq <= l + 1
                        \/ \E j \in 1..(k - 1) : dataQ'[j].seq = dataQ'[k].seq - 1
      BY <2>1, <2>3 DEF QueueHasNoGap, Follows
    <3>1. k + 1 \in 1..n /\ dataQ[k + 1].seq \in Int
      BY <1>2, <1>3, SizeFacts DEF SeqNums
    <3> QED
      BY <2>2, <2>3, <2>4, <3>1
  <2>6. SenderLeavesNoGap'
    <3> SUFFICES ASSUME client = "sending"
                 PROVE  nextSeq <= l + 1
                        \/ \E j \in 1..(n - 1) : dataQ'[j].seq = nextSeq - 1
      BY <1>1, <2>1, <2>3 DEF SenderLeavesNoGap, Follows, Packet
    <3>1. nextSeq <= lfr + 1 \/ \E j \in 1..n : dataQ[j].seq = nextSeq - 1
      BY <1>4 DEF SenderLeavesNoGap, Follows, Packet, n
    <3>2. nextSeq \in Int
      BY SafetyFacts, SizeFacts DEF TransferInv, ClientTypeOK
    <3>3. CASE nextSeq <= lfr + 1
      BY <1>3, <2>2, <3>2, <3>3
    <3>4. ASSUME NEW j \in 1..n, dataQ[j].seq = nextSeq - 1
          PROVE  nextSeq <= l + 1
                 \/ \E i \in 1..(n - 1) : dataQ'[i].seq = nextSeq - 1
      <4>1. CASE j = 1
        BY <1>2, <2>2, <3>2, <3>4, <4>1
      <4>2. CASE j # 1
        <5>1. j - 1 \in 1..(n - 1) /\ dataQ'[j - 1] = dataQ[j]
          BY <1>2, <2>3, <4>2
        <5> QED
          BY <3>4, <5>1
      <4> QED
        BY <4>1, <4>2
    <3> QED
      BY <3>1, <3>3, <3>4
  <2> QED
    BY <1>1, <1>6, <2>5, <2>6 DEF NoGap
<1> QED
  BY <1>1, <1>6, <1>7 DEF NoGap

LEMMA NextReliable ==
    ASSUME TransferInv, lost = 0, [Next]_vars
    PROVE  lost' = 0 => NoGap'
<1>1. NoGap
  BY DEF TransferInv
<1>2. CASE ClientSend
  BY <1>2, ClientSendReliable
<1>3. CASE ClientEndWindow
  BY <1>1, <1>3, ClientQuietReliable DEF ClientEndWindow, EndWindow, serverVars
<1>4. CASE ClientReceive
  BY <1>1, <1>4, ClientQuietReliable DEF ClientReceive, ReadAck, serverVars
<1>5. CASE ClientTimeout
  BY <1>1, <1>5, ClientTimeoutReliable
<1>6. CASE ServerReceive
  BY <1>1, <1>6, ServerReceiveReliable
<1>7. CASE ServerWrite
  <2>1. server # "open" /\ server' # "open" /\ UNCHANGED <<lfr, cumAckWindow>>
    BY <1>7 DEF ServerWrite, WriteFile
  <2> QED
    BY <1>1, <2>1 DEF NoGap
<1>8. CASE UNCHANGED vars
  <2>1. UNCHANGED <<client, nextSeq, lfr, cumAckWindow, server, dataQ>>
    BY <1>8 DEF vars, clientVars, serverVars
  <2>2. /\ QueueHasNoGap => QueueHasNoGap'
        /\ SenderLeavesNoGap => SenderLeavesNoGap'
    BY <2>1 DEF QueueHasNoGap, SenderLeavesNoGap, Follows, Packet
  <2> QED
    BY <1>1, <2>1, <2>2 DEF NoGap
<1> QED
  BY <1>2, <1>3, <1>4, <1>5, <1>6, <1>7, <1>8 DEF Next

\* Losses are only counted up.
LEMMA LossesStay ==
    ASSUME lost \in Nat, [Next]_vars
    PROVE  lost' \in {lost, lost + 1}
BY DEF Next, ClientSend, ClientEndWindow, ClientReceive, ClientTimeout, ServerReceive,
       ServerWrite, SendTo, vars

\* The server writes into its buffer what it marks as received.
LEMMA BlankStays ==
    ASSUME Safety!IInv, Blank, [Next]_vars
    PROVE  Blank'
<1>1. CASE UNCHANGED <<file, cumAckWindow>>
  BY <1>1 DEF Blank
<1>2. CASE ServerReceive
  <2> DEFINE p == Head(dataQ)
  <2>1. Accept(p) \/ Refuse(p)
    BY <1>2 DEF ServerReceive, HandlePacket
  <2> HIDE DEF p
  <2>2. CASE Refuse(p)
    BY <1>1, <2>2 DEF Refuse
  <2>3. CASE Accept(p)
    <3>1. file \in [SeqNums -> SeqNums \cup {Garbage}]
      BY SafetyFacts DEF ServerTypeOK
    <3>2. /\ cumAckWindow' = cumAckWindow \cup {p.seq}
          /\ file' = [file EXCEPT ![p.seq] = p.payload]
      BY <2>3 DEF Accept
    <3> QED
      BY <3>1, <3>2 DEF Blank
  <2> QED
    BY <2>1, <2>2, <2>3
<1> QED
  BY <1>1, <1>2 DEF Next, ClientSend, ClientEndWindow, ClientReceive, ClientTimeout,
         ServerWrite, WriteFile, serverVars, vars

LEMMA NextTransferInv ==
    ASSUME TransferInv, Safety!IInv', [Next]_vars
    PROVE  TransferInv'
<1>1. lost' \in Nat /\ (lost' = 0 => lost = 0)
  BY LossesStay DEF TransferInv
<1>2. lost' = 0 => NoGap'
  BY <1>1, NextReliable
<1>3. Queues' /\ Blank'
  BY NextRefines, BlankStays DEF TransferInv
<1> QED
  BY <1>1, <1>2, <1>3 DEF TransferInv

-----------------------------------------------------------------------------

\* A server that leaves its loop has what has arrived, and without a gap that
\* is everything up to the final packet.
LEMMA ServerTakes ==
    ASSUME TransferInv
    PROVE  Taken
<1> SUFFICES ASSUME server # "open"
             PROVE  /\ Held = Part(cumAckWindow)
                    /\ NoGap => SourceBlocks \subseteq cumAckWindow
  BY DEF Taken
<1>1. ServerInv /\ ServerTypeOK
  BY SafetyFacts DEF TransferInv
<1>2. /\ fileSize = SourceSize
      /\ numberOfPackets \in cumAckWindow
      /\ \A f \in cumAckWindow : file[f] = f
      /\ \A f \in SeqNums \ cumAckWindow : file[f] = Garbage
  BY <1>1 DEF ServerInv, TransferInv, Blank
<1>3. Held = [b \in SourceBlocks |-> file[b]]
  BY <1>2 DEF Held, SourceBlocks
<1>4. \A b \in SourceBlocks : file[b] = IF b \in cumAckWindow THEN b ELSE Garbage
  BY <1>2 DEF SourceBlocks
<1>5. NoGap => SeqNums \subseteq cumAckWindow
  BY <1>1, <1>2, SizeFacts DEF NoGap, SeqNums, ServerTypeOK
<1> QED
  BY <1>3, <1>4, <1>5 DEF Part, SourceBlocks

\* A part of the file is not NoFile.
LEMMA PartsAreFiles ==
    ASSUME NEW A
    PROVE  Part(A) # NoFile
<1>1. Part(A) \in [SourceBlocks -> SeqNums \cup {Garbage}]
  BY DEF Part, SourceBlocks
<1> QED
  BY <1>1, NoFileAssumption

\* A part of the file is what may be taken after a loss, all of it always.
LEMMA PartsAreVersions ==
    ASSUME NEW A, lost = 0 => SourceBlocks \subseteq A
    PROVE  Part(A) \in Transfer!Versions
<1> DEFINE src == [b \in SourceBlocks |-> b]
           got == A \cap SourceBlocks
<1>1. DOMAIN src = SourceBlocks /\ \A b \in SourceBlocks : src[b] = b
  OBVIOUS
<1>2. got \in IF lost = 0 THEN {DOMAIN src} ELSE SUBSET DOMAIN src
  <2>1. CASE lost = 0
    BY <1>1, <2>1
  <2>2. CASE lost # 0
    BY <1>1, <2>2
  <2> QED
    BY <2>1, <2>2
<1>3. Part(A) = [b \in DOMAIN src |-> IF b \in got THEN src[b] ELSE Garbage]
  BY <1>1 DEF Part
<1> HIDE DEF src, got
<1>4. Part(A) \in {[b \in DOMAIN src |-> IF b \in arrived THEN src[b] ELSE Garbage] :
                     arrived \in IF lost = 0 THEN {DOMAIN src} ELSE SUBSET DOMAIN src}
  BY <1>2, <1>3
<1> QED
  BY <1>4 DEF Transfer!Versions, src

\* A step takes the file, writes it, loses, reports, gives up, or shows
\* nothing of itself.
LEMMA StepTransfers ==
    ASSUME TransferInv, Taken, Taken', [Next]_vars
    PROVE  [Transfer!Next]_Transfer!vars
<1> DEFINE rep == IF ClientExited THEN client ELSE "running"
<1> USE DEF Transfer!Next, Transfer!vars
<1>1. server # "open" => Held # NoFile
  BY PartsAreFiles DEF Taken
<1>2. lost' \in {lost, lost + 1}
  BY LossesStay DEF TransferInv
<1>3. ASSUME Held' = Held, Output' = Output, rep' = rep
      PROVE  [Transfer!Next]_Transfer!vars
  BY <1>2, <1>3 DEF Transfer!Lose
<1>4. CASE UNCHANGED serverVars /\ lost' = lost
  <2>1. Held' = Held /\ Output' = Output
    BY <1>4 DEF Held, Output, serverVars
  <2>2. CASE rep' = rep
    BY <1>3, <2>1, <2>2
  <2>3. CASE ClientEndWindow
    <3>1. rep = "running" /\ rep' \in {"running", "gaveUp"}
      BY <2>3 DEF ClientEndWindow, EndWindow, ClientExited
    <3> QED
      BY <1>4, <2>1, <2>2, <3>1 DEF Transfer!GiveUp
  <2>4. CASE ClientReceive
    <3> DEFINE m == Head(ackQ)
    <3>1. ackQ # <<>> /\ ReadAck(m)
      BY <2>4 DEF ClientReceive
    <3>2. m \in Range(ackQ)
      BY <3>1, RangeOfTail DEF TransferInv, Queues
    <3>3. SoundAck(m, lfr, server)
      BY <3>2, SafetyFacts DEF TransferInv
    <3> HIDE DEF m
    <3>4. CASE m.ack = numberOfPackets
      <4>1. Held # NoFile
        BY <1>1, <3>3, <3>4 DEF SoundAck
      <4>2. rep = "running" /\ rep' = "done"
        BY <3>1, <3>4 DEF ReadAck, ClientExited
      <4> QED
        BY <1>4, <2>1, <4>1, <4>2 DEF Transfer!Succeed
    <3>5. CASE m.ack # numberOfPackets
      <4>1. rep' = rep
        BY <3>1, <3>5 DEF ReadAck, ClientExited
      <4> QED
        BY <2>2, <4>1
    <3> QED
      BY <3>4, <3>5
  <2>5. CASE ClientSend \/ ClientTimeout \/ UNCHANGED vars
    <3>1. rep' = rep
      BY <2>5 DEF ClientSend, SendNext, ClientTimeout, AckTimeout, vars,
             clientVars, ClientExited
    <3> QED
      BY <2>2, <3>1
  <2>6. CASE ServerReceive \/ ServerWrite
    <3>1. rep' = rep
      BY <2>6 DEF ServerReceive, ServerWrite, clientVars, ClientExited
    <3> QED
      BY <2>2, <3>1
  <2> QED
    BY <2>3, <2>4, <2>5, <2>6 DEF Next
<1>5. CASE ClientSend
  <2>1. UNCHANGED serverVars /\ rep' = rep
    BY <1>5 DEF ClientSend, SendNext, ClientExited
  <2>2. Held' = Held /\ Output' = Output
    BY <2>1 DEF Held, Output, serverVars
  <2> QED
    BY <1>3, <2>1, <2>2
<1>6. CASE ServerReceive
  <2>1. /\ server = "open" /\ server' \in {"open", "writing"}
        /\ UNCHANGED clientVars
    BY <1>6 DEF ServerReceive, HandlePacket, Finish
  <2>2. rep' = rep
    BY <2>1 DEF clientVars, ClientExited
  <2>3. Held = NoFile /\ Output = NoFile /\ Output' = NoFile
    BY <2>1 DEF Held, Output
  <2>4. CASE server' = "open"
    <3>1. Held' = NoFile
      BY <2>4 DEF Held
    <3> QED
      BY <1>3, <2>2, <2>3, <3>1
  <2>5. CASE server' = "writing"
    <3>1. lost = 0 => NoGap'
      BY <1>6, ServerReceiveReliable DEF TransferInv
    <3>2. PICK A : A = cumAckWindow'
      OBVIOUS
    <3>3. Held' = Part(A) /\ (NoGap' => SourceBlocks \subseteq A)
      BY <2>5, <3>2 DEF Taken, Part, SourceBlocks, SeqNums, numberOfPackets
    <3>4. Part(A) \in Transfer!Versions
      BY <3>1, <3>3, PartsAreVersions
    <3> QED
      BY <1>2, <2>2, <2>3, <3>3, <3>4 DEF Transfer!Take
  <2> QED
    BY <2>1, <2>4, <2>5
<1>7. CASE ServerWrite
  <2>1. /\ server = "writing" /\ server' \in {"written", "failed"}
        /\ UNCHANGED <<clientVars, file, fileSize, lost>>
    BY <1>7 DEF ServerWrite, WriteFile
  <2>2. rep' = rep
    BY <2>1 DEF clientVars, ClientExited
  <2>3. Held' = Held
    BY <2>1 DEF Held
  <2>4. Output = NoFile /\ Output' \in {Held, Failed}
    BY <2>1, <2>3 DEF Output
  <2> QED
    BY <1>1, <2>1, <2>2, <2>3, <2>4 DEF Transfer!Write
<1> QED
  BY <1>4, <1>5, <1>6, <1>7 DEF Next, ClientEndWindow, ClientReceive, ClientTimeout, vars

\* On a network that keeps the order, the transfer keeps its promise for a
\* file of any size, whatever is lost or repeated, and whether the write that
\* follows the last ack succeeds (GBNclient.c:191, GBNserver.c:155-171).
THEOREM ImplementsFileTransferHolds == Spec => ImplementsFileTransfer
<1>1. Init => Queues /\ lost \in Nat /\ NoGap /\ Blank
  <2>1. ASSUME Init PROVE lost \in Nat /\ NoGap /\ Blank
    <3>1. /\ lost = 0 /\ cumAckWindow = {} /\ lfr = -1 /\ dataQ = <<>>
          /\ nextSeq = 0 /\ file = [b \in SeqNums |-> Garbage]
      BY <2>1 DEF Init, ClientInit, ServerInit
    <3> QED
      BY <3>1 DEF NoGap, QueueHasNoGap, SenderLeavesNoGap, Blank
  <2> QED
    BY <2>1, InitRefines
<1>2. Init /\ Safety!IInv => TransferInv
  BY <1>1 DEF TransferInv
<1>3. TransferInv /\ Safety!IInv' /\ [Next]_vars => TransferInv'
  BY NextTransferInv
<1>4. TransferInv => Taken
  BY ServerTakes
<1>5. Init => Transfer!Init
  BY DEF Init, ClientInit, ServerInit, Transfer!Init, Held, Output, ClientExited
<1>6. TransferInv /\ Taken /\ Taken' /\ [Next]_vars
        => [Transfer!Next]_Transfer!vars
  BY StepTransfers
<1> QED
  BY <1>2, <1>3, <1>4, <1>5, <1>6, SafetyInvariance, PTL
     DEF Spec, ImplementsFileTransfer, Transfer!Spec
=============================================================================
