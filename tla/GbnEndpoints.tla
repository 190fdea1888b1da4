---------------------------- MODULE GbnEndpoints ----------------------------
(***************************************************************************)
(* The two programs of netSys/pa2 without the network between them: the    *)
(* sliding-window sender GBNclient.c and the receiver GBNserver.c.  Their  *)
(* actions constrain only the variables of the program that takes them;    *)
(* Gbn and GbnFifo join them to a network.                                 *)
(*                                                                         *)
(* A packet's payload is the number of the 1024-byte block it carries, so  *)
(* the server's buffer is a function from block numbers to block numbers.  *)
(*                                                                         *)
(* A definition whose name starts with Bad is a plausible fault in the one *)
(* it precedes; nothing uses it except the mutation of a run.              *)
(***************************************************************************)
EXTENDS Integers

CONSTANTS
    SourceSize,       \* bytes read from the file to send ("result")
    PayloadSize,      \* PAYLOADSIZE, 1024
    SendWindowSize,   \* sws, 6
    RecvWindowSize,   \* rws, 9
    CumModulus,       \* what the client keeps of a cumulative ack, 100
    ClosingLimit,     \* sends of the final packet before giving up, 10
    WindowSlots,      \* length of cumAckWindow, 1000
    Garbage           \* a block of the server's buffer nothing was copied to

numberOfPackets == (SourceSize \div PayloadSize) + 1
sizeOfFinalPacket == SourceSize % PayloadSize

\* Packets are numbered 0..numberOfPackets: the last one carries no data of
\* the file, only its final flag and the size of the file's last block.
SeqNums == 0..numberOfPackets

ASSUME SizeAssumption == SourceSize \in Nat /\ PayloadSize \in Nat \ {0}
ASSUME WindowAssumption ==
    /\ SendWindowSize \in Nat \ {0}
    /\ RecvWindowSize \in Nat
    /\ SendWindowSize <= RecvWindowSize + 1
ASSUME ModulusAssumption == CumModulus \in Nat \ {0}
ASSUME LimitAssumption == ClosingLimit \in Nat \ {0}
ASSUME SlotAssumption == WindowSlots \in Nat /\ numberOfPackets + 1 < WindowSlots
ASSUME GarbageAssumption == Garbage \notin SeqNums

VARIABLES
    client,        \* "sending" a window, "waiting" in select, "done", "gaveUp"
    lar,           \* last ack received
    nextSeq,       \* i, the loop variable of the window being sent
    closingCount,  \* how often the final packet has been sent
    server,        \* "open" in its loop, "writing", then "written" or "failed"
    lfr,           \* last frame received in order
    cumAckWindow,  \* the frames marked as received
    file,          \* the receive buffer, block by block
    fileSize       \* bytes to write to the output file, -1 in the loop

clientVars == <<client, lar, nextSeq, closingCount>>
serverVars == <<server, lfr, cumAckWindow, file, fileSize>>

-----------------------------------------------------------------------------
(* Messages *)

Packets == [seq : SeqNums, size : 0..PayloadSize, final : BOOLEAN,
            payload : SeqNums]
Acks == [ack : -1..numberOfPackets, cum : 0..(numberOfPackets + 1)]

Packet(i) ==
    [seq     |-> i,
     size    |-> IF i = numberOfPackets THEN sizeOfFinalPacket ELSE PayloadSize,
     final   |-> i = numberOfPackets,
     payload |-> i]

\* The client copies the cumulative ack from &ack[4] although it starts at
\* &ack[3], so the first of its three digits is lost.
DecodeCum(c) == c % CumModulus

-----------------------------------------------------------------------------
(* The client *)

ClientInit ==
    /\ client = "sending"
    /\ lar = -1
    /\ nextSeq = 0
    /\ closingCount = 0

BadInSendWindowAll(i) == i <= lar + SendWindowSize
BadInSendWindowWide(i) ==
    i <= lar + SendWindowSize + 1 /\ i <= numberOfPackets

InSendWindow(i) == i <= lar + SendWindowSize /\ i <= numberOfPackets

\* One iteration of the loop that sends the window.
SendNext ==
    /\ client = "sending"
    /\ InSendWindow(nextSeq)
    /\ nextSeq' = nextSeq + 1
    /\ closingCount' = IF nextSeq = numberOfPackets THEN closingCount + 1
                                                    ELSE closingCount
    /\ UNCHANGED <<client, lar>>

BadEndWindowEarly ==
    /\ client = "sending"
    /\ ~InSendWindow(nextSeq)
    /\ client' = IF closingCount >= 1 THEN "gaveUp" ELSE "waiting"
    /\ UNCHANGED <<lar, nextSeq, closingCount>>

\* The loop ends: give up when the final packet was sent too often.
EndWindow ==
    /\ client = "sending"
    /\ ~InSendWindow(nextSeq)
    /\ client' = IF closingCount >= ClosingLimit THEN "gaveUp" ELSE "waiting"
    /\ UNCHANGED <<lar, nextSeq, closingCount>>

BadReadAckAhead(m) ==
    /\ client = "waiting"
    /\ lar' = DecodeCum(m.cum)
    /\ client' = IF m.ack = numberOfPackets THEN "done" ELSE "waiting"
    /\ UNCHANGED <<nextSeq, closingCount>>

BadReadAckSelective(m) ==
    /\ client = "waiting"
    /\ lar' = m.ack
    /\ client' = IF m.ack = numberOfPackets THEN "done" ELSE "waiting"
    /\ UNCHANGED <<nextSeq, closingCount>>

\* The two numbers of the ack, each used for what the other is for.
BadReadAckSwapped(m) ==
    /\ client = "waiting"
    /\ lar' = m.ack
    /\ client' = IF DecodeCum(m.cum) > numberOfPackets THEN "done" ELSE "waiting"
    /\ UNCHANGED <<nextSeq, closingCount>>

\* An ack moves lar wherever its cumulative part says, backwards too.
ReadAck(m) ==
    /\ client = "waiting"
    /\ lar' = DecodeCum(m.cum) - 1
    /\ client' = IF m.ack = numberOfPackets THEN "done" ELSE "waiting"
    /\ UNCHANGED <<nextSeq, closingCount>>

\* select returned with nothing to read: send the window again.
AckTimeout ==
    /\ client = "waiting"
    /\ client' = "sending"
    /\ nextSeq' = lar + 1
    /\ UNCHANGED <<lar, closingCount>>

ClientExited == client \in {"done", "gaveUp"}

-----------------------------------------------------------------------------
(* The server *)

ServerInit ==
    /\ server = "open"
    /\ lfr = -1
    /\ cumAckWindow = {}
    /\ file = [b \in SeqNums |-> Garbage]
    /\ fileSize = -1

InRecvWindow(f) == lfr <= f /\ f <= lfr + 1 + RecvWindowSize

IsFirstMissing(S, k) == k \notin S /\ \A j \in 0..(k - 1) : j \in S

\* The scan of cumAckWindow for the first frame not received.
FirstMissing(S) == CHOOSE k \in 0..(WindowSlots - 1) : IsFirstMissing(S, k)

BadAcceptNewest(p) ==
    /\ InRecvWindow(p.seq)
    /\ cumAckWindow' = cumAckWindow \cup {p.seq}
    /\ file' = [file EXCEPT ![p.seq] = p.payload]
    /\ lfr' = p.seq

BadAcceptForgets(p) ==
    /\ InRecvWindow(p.seq)
    /\ cumAckWindow' = {f \in cumAckWindow : f >= p.seq} \cup {p.seq}
    /\ file' = [file EXCEPT ![p.seq] = p.payload]
    /\ lfr' = FirstMissing(cumAckWindow') - 1

BadAcceptNext(p) ==
    /\ InRecvWindow(p.seq)
    /\ cumAckWindow' = cumAckWindow \cup {p.seq}
    /\ file' = [file EXCEPT ![p.seq] = p.payload]
    /\ lfr' = FirstMissing(cumAckWindow')

Accept(p) ==
    /\ InRecvWindow(p.seq)
    /\ cumAckWindow' = cumAckWindow \cup {p.seq}
    /\ file' = [file EXCEPT ![p.seq] = p.payload]
    /\ lfr' = FirstMissing(cumAckWindow') - 1

Refuse(p) ==
    /\ ~InRecvWindow(p.seq)
    /\ UNCHANGED <<cumAckWindow, file, lfr>>

BadFinishSize(p) ==
    IF p.final
    THEN /\ fileSize' = p.seq * PayloadSize + p.size
         /\ server' = "writing"
    ELSE UNCHANGED <<fileSize, server>>

\* The final packet, accepted or refused, ends the loop once its ack is sent.
Finish(p) ==
    IF p.final
    THEN /\ fileSize' = (p.seq - 1) * PayloadSize + p.size
         /\ server' = "writing"
    ELSE UNCHANGED <<fileSize, server>>

\* The body of the server's loop for one packet; Reply(p) is sent in it.
HandlePacket(p) ==
    /\ server = "open"
    /\ Accept(p) \/ Refuse(p)
    /\ Finish(p)

\* The ack the body sends; primed state is the state after HandlePacket(p).
Reply(p) == [ack |-> IF InRecvWindow(p.seq) THEN p.seq ELSE lfr,
             cum |-> FirstMissing(cumAckWindow')]

\* The output file is opened and written only after the ack has gone out.  A
\* file that cannot be opened is a null pointer, which crashes fwrite before
\* it is tested; a write that falls short is reported and the program ends.
WriteFile ==
    /\ server = "writing"
    /\ server' \in {"written", "failed"}
    /\ UNCHANGED <<lfr, cumAckWindow, file, fileSize>>

-----------------------------------------------------------------------------
(* What both compositions say of the endpoints *)

ClientTypeOK ==
    /\ client \in {"sending", "waiting", "done", "gaveUp"}
    /\ lar \in -1..numberOfPackets
    /\ nextSeq \in 0..(numberOfPackets + 1)
    /\ closingCount \in 0..ClosingLimit

ServerTypeOK ==
    /\ server \in {"open", "writing", "written", "failed"}
    /\ lfr \in -1..numberOfPackets
    /\ cumAckWindow \subseteq SeqNums
    /\ file \in [SeqNums -> SeqNums \cup {Garbage}]
    /\ fileSize \in -1..SourceSize

\* What is true of each program between any two of its steps: the parts of
\* the inductive invariants of the compositions.
ClientInv ==
    /\ client \in {"sending", "waiting"} => lar < numberOfPackets
    /\ client = "sending" => lar < nextSeq
    /\ client = "sending" /\ nextSeq <= numberOfPackets =>
           closingCount < ClosingLimit
    /\ client = "waiting" => closingCount < ClosingLimit
    /\ client = "gaveUp" => closingCount = ClosingLimit

ServerInv ==
    /\ IsFirstMissing(cumAckWindow, lfr + 1)
    /\ \A f \in cumAckWindow : file[f] = f
    /\ IF server = "open"
       THEN numberOfPackets \notin cumAckWindow /\ fileSize = -1
       ELSE numberOfPackets \in cumAckWindow /\ fileSize = SourceSize

\* An ack the server may have sent by the time it has l frames in order and
\* is in state s.
SoundAck(m, l, s) ==
    /\ m.cum <= l + 1
    /\ IF m.ack = numberOfPackets THEN s # "open"
                                  ELSE m.cum <= numberOfPackets

\* A packet the client may have sent by then.
SoundPacket(p, l) == p = Packet(p.seq) /\ p.seq <= l + SendWindowSize

\* The blocks the output file of SourceSize bytes consists of.
SourceBlocks == {b \in SeqNums : b * PayloadSize < SourceSize}

\* The blocks to be written are those of the source.
OutputExact ==
    /\ fileSize = SourceSize
    /\ \A b \in SourceBlocks : file[b] = b
=============================================================================
