------------------------------ MODULE GbnFifo ------------------------------
(***************************************************************************)
(* The file transfer of netSys/pa2 over a network that keeps the order of  *)
(* datagrams and loses at most MaxLoss of them: the loopback or the        *)
(* single-switch network the assignment is run on, where nearly all loss   *)
(* is made by sendto_.h.  Liveness and delivery are stated here; every     *)
(* behaviour is also one of Gbn.                                           *)
(***************************************************************************)
EXTENDS GbnEndpoints, Sequences, SequencesExt

CONSTANTS
    MaxLoss,   \* datagrams that sendto_ may drop in one behaviour
    Cap,       \* the client times out only while fewer are under way
    NoFile,    \* no output file yet
    Failed     \* an output file that could not be written

ASSUME BudgetAssumption == MaxLoss \in Nat /\ Cap \in Nat \ {0}
ASSUME NoFileAssumption ==
    /\ NoFile \notin [SourceBlocks -> SeqNums \cup {Garbage}]
    /\ NoFile # Failed

VARIABLES dataQ, ackQ, lost

vars == <<clientVars, serverVars, dataQ, ackQ, lost>>

Init ==
    /\ ClientInit
    /\ ServerInit
    /\ dataQ = <<>>
    /\ ackQ = <<>>
    /\ lost = 0

-----------------------------------------------------------------------------

\* One call of sendto_: the datagram is queued, or dropped at the cost of one
\* of MaxLoss, or sent to a program that reads no more.  next is the queue
\* after the call.
SendTo(q, m, open, next) ==
    \/ open /\ next = Append(q, m) /\ UNCHANGED lost
    \/ open /\ lost < MaxLoss /\ next = q /\ lost' = lost + 1
    \/ ~open /\ next = q /\ UNCHANGED lost

ClientSend ==
    /\ SendNext
    /\ SendTo(dataQ, Packet(nextSeq), server = "open", dataQ')
    /\ UNCHANGED <<serverVars, ackQ>>

BadClientEndWindow ==
    /\ EndWindow
    /\ UNCHANGED <<serverVars, dataQ, ackQ, lost>>

ClientEndWindow ==
    /\ EndWindow
    /\ ackQ' = IF client' = "gaveUp" THEN <<>> ELSE ackQ
    /\ UNCHANGED <<serverVars, dataQ, lost>>

ClientReceive ==
    /\ ackQ # <<>>
    /\ ReadAck(Head(ackQ))
    /\ ackQ' = IF client' = "done" THEN <<>> ELSE Tail(ackQ)
    /\ UNCHANGED <<serverVars, dataQ, lost>>

\* select reports a queued ack before it times out, so a timeout means that
\* no ack has arrived yet.
ClientTimeout ==
    /\ ackQ = <<>>
    /\ Len(dataQ) < Cap
    /\ AckTimeout
    /\ UNCHANGED <<serverVars, dataQ, ackQ, lost>>

ServerReceive ==
    /\ dataQ # <<>>
    /\ HandlePacket(Head(dataQ))
    /\ SendTo(ackQ, Reply(Head(dataQ)), ~ClientExited, ackQ')
    /\ dataQ' = IF server' = "open" THEN Tail(dataQ) ELSE <<>>
    /\ UNCHANGED clientVars

ServerWrite ==
    /\ WriteFile
    /\ UNCHANGED <<clientVars, dataQ, ackQ, lost>>

Next ==
    \/ ClientSend
    \/ ClientEndWindow
    \/ ClientReceive
    \/ ClientTimeout
    \/ ServerReceive
    \/ ServerWrite

\* Neither program ever waits for anything but the network, select returns
\* after 50 ms at the latest and a queued datagram is delivered, so no step
\* that stays possible is put off for ever.
Fairness ==
    /\ WF_vars(ClientSend)
    /\ WF_vars(ClientEndWindow)
    /\ WF_vars(ClientTimeout)
    /\ WF_vars(ClientReceive)
    /\ WF_vars(ServerReceive)
    /\ WF_vars(ServerWrite)

Spec == Init /\ [][Next]_vars
FairSpec == Spec /\ Fairness

-----------------------------------------------------------------------------

\* Every variable keeps its type.
TypeOK ==
    /\ ClientTypeOK
    /\ ServerTypeOK
    /\ dataQ \in Seq(Packets)
    /\ ackQ \in Seq(Acks)
    /\ lost \in 0..MaxLoss

\* The queues, seen as the sets of datagrams in flight, behave as Gbn's
\* network does: what Gbn shows of any network holds of this one.
Network == INSTANCE Gbn WITH data <- Range(dataQ), acks <- Range(ackQ)
ImplementsGbn == Network!Spec

\* In order of arrival the cumulative acks never go back, nor behind the lar
\* the client already has, so without the decoding fault lar never regresses
\* (GBNserver.c:118-126, GBNclient.c:187).
AcksInOrder ==
    LET cums == <<lar + 1>> \o [k \in 1..Len(ackQ) |-> ackQ[k].cum]
                            \o <<lfr + 1>>
    IN  \A j, k \in 1..Len(cums) : j <= k => cums[j] <= cums[k]

\* The client always comes to an end, by the ack of the final packet or by
\* giving up, however the losses fall (GBNclient.c:145,191).
ClientTerminates == <>ClientExited

\* The buffer the server leaves its loop with: the blocks of fileSize bytes.
Held ==
    IF server = "open" THEN NoFile
    ELSE [b \in {c \in SeqNums : c * PayloadSize < fileSize} |-> file[b]]

Output ==
    CASE server = "written" -> Held
      [] server = "failed" -> Failed
      [] OTHER -> NoFile

Transfer == INSTANCE FileTransfer WITH
    Source <- [b \in SourceBlocks |-> b],
    Missing <- Garbage,
    Patience <- ClosingLimit,
    held <- Held,
    output <- Output,
    report <- IF ClientExited THEN client ELSE "running",
    losses <- lost

\* The two programs do what a file transfer promises: as long as sendto_ has
\* dropped nothing the file the server ends with is the file that was read,
\* after that it is made of blocks of that file at their places; success is
\* reported only when the server has all it will write, and is not taken back
\* when the write fails (GBNclient.c:191, GBNserver.c:155-171).
ImplementsFileTransfer == Transfer!Spec

\* ... and both programs come to an end, however the losses fall; only a
\* server whose client has lost as many datagrams as it repeats its final
\* packet may wait for ever (GBNclient.c:145, GBNserver.c:85).
CompletesFileTransfer == Transfer!FairSpec

\* What the transfer is for: when a client reports success and the server has
\* written its file, the file is the one that was sent (ReadMe:6-7).
DoneMeansDelivered == client = "done" /\ server = "written" => OutputExact
=============================================================================
