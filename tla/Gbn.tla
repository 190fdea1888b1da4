-------------------------------- MODULE Gbn --------------------------------
(***************************************************************************)
(* The file transfer of netSys/pa2 over a network that may lose, reorder   *)
(* and duplicate datagrams, which is all UDP promises.  data and acks are  *)
(* the datagrams in flight; a delivery may leave its datagram in flight.   *)
(* A datagram that is never delivered is lost, and sendto_ may also drop   *)
(* one before it is sent.                                                  *)
(***************************************************************************)
EXTENDS GbnEndpoints

VARIABLES data, acks

vars == <<clientVars, serverVars, data, acks>>

Init ==
    /\ ClientInit
    /\ ServerInit
    /\ data = {}
    /\ acks = {}

-----------------------------------------------------------------------------

\* sendto_ hands the datagram to the network or silently drops it; one sent
\* to a program that reads no more goes nowhere.
SendTo(net, m, open) == IF open THEN {net, net \cup {m}} ELSE {net}

\* Delivery of m: the network may or may not hold another copy of it.
AfterDelivery(net, m) == {net, net \ {m}}

ClientSend ==
    /\ SendNext
    /\ data' \in SendTo(data, Packet(nextSeq), server = "open")
    /\ UNCHANGED <<serverVars, acks>>

\* When the client exits, its socket is closed with what it had not read.
ClientEndWindow ==
    /\ EndWindow
    /\ acks' = IF client' = "gaveUp" THEN {} ELSE acks
    /\ UNCHANGED <<serverVars, data>>

ClientReceive(m) ==
    /\ m \in acks
    /\ ReadAck(m)
    /\ IF client' = "done" THEN acks' = {}
                           ELSE acks' \in AfterDelivery(acks, m)
    /\ UNCHANGED <<serverVars, data>>

ClientTimeout ==
    /\ AckTimeout
    /\ UNCHANGED <<serverVars, data, acks>>

ServerReceive(p) ==
    /\ p \in data
    /\ HandlePacket(p)
    /\ acks' \in SendTo(acks, Reply(p), ~ClientExited)
    /\ IF server' = "open" THEN data' \in AfterDelivery(data, p)
                           ELSE data' = {}
    /\ UNCHANGED clientVars

\* The client may have the ack of the final packet by now, or not.
ServerWrite ==
    /\ WriteFile
    /\ UNCHANGED <<clientVars, data, acks>>

Next ==
    \/ ClientSend
    \/ ClientEndWindow
    \/ \E m \in acks : ClientReceive(m)
    \/ ClientTimeout
    \/ \E p \in data : ServerReceive(p)
    \/ ServerWrite

Spec == Init /\ [][Next]_vars

-----------------------------------------------------------------------------

\* Every variable keeps its type.
TypeOK ==
    /\ ClientTypeOK
    /\ ServerTypeOK
    /\ data \subseteq Packets
    /\ acks \subseteq Acks

\* The inductive invariant: each program's own, and what the datagrams in
\* flight and the two programs' views of each other may be.
IInv ==
    /\ TypeOK
    /\ ClientInv
    /\ ServerInv
    /\ lar <= lfr
    /\ client = "done" => server # "open"
    /\ \A p \in data : SoundPacket(p, lfr) /\ server = "open"
    /\ \A m \in acks : SoundAck(m, lfr, server) /\ ~ClientExited

\* The client never believes more than the server has: neither lar nor an ack
\* still in flight, however old or damaged by the decoding (GBNclient.c:182),
\* is beyond the frames received in order.
SenderNeverAhead ==
    /\ lar <= lfr
    /\ \A m \in acks : m.cum <= lfr + 1

\* The send window fits the receive window whatever the two sides have missed:
\* no packet is ever refused for being too new (GBNserver.c:111).
NoPacketAboveWindow ==
    \A p \in data : p.seq <= lfr + 1 + RecvWindowSize

\* Everything up to lfr is in the buffer, at its place and undamaged by
\* duplicates, late copies or the order of arrival (GBNserver.c:113-126).
PrefixIntact ==
    /\ \A b \in 0..lfr : file[b] = b
    /\ \A f \in cumAckWindow : file[f] = f

\* The client reports success (GBNclient.c:191) only when the server has left
\* its loop to write a file of the right size, and so it is with every ack of
\* the final packet still in flight.  The file need not be written yet: the
\* ack goes out first (GBNserver.c:155-165), and the write may still fail.
DoneImpliesFinished ==
    (client = "done" \/ \E m \in acks : m.ack = numberOfPackets) =>
        server # "open" /\ fileSize = SourceSize

\* Until it exits the client always has something to send: its window is
\* never empty, so a timeout always retransmits (GBNclient.c:102).
WindowNeverEmpty == ~ClientExited => lar < numberOfPackets

\* No step takes back a frame the server has acknowledged, moves lfr back or
\* rewrites a block that was received (GBNserver.c:113-126).
ReceivedIsKept ==
    [][/\ lfr <= lfr'
       /\ \A f \in cumAckWindow : f \in cumAckWindow' /\ file'[f] = file[f]]_vars
=============================================================================
