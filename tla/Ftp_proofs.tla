----------------------------- MODULE Ftp_proofs -----------------------------
(***************************************************************************)
(* What holds of the file transfer of netSys/pa1 whatever clients, files   *)
(* and contents there are, and however many datagrams are lost.            *)
(***************************************************************************)
EXTENDS Ftp, SequenceLemmas, FiniteSetTheorems

-----------------------------------------------------------------------------
(* Types *)

Datagram == [from : Clients, text : Texts]

\* A datagram for the server that is sent or lost leaves its queue one.
LEMMA ToServerType ==
    ASSUME TypeOK, FtpAssumption, NEW c \in Clients, NEW t \in Texts, ToServer(c, t)
    PROVE  toServer' \in Seq(Datagram) /\ lost' \in 0..MaxLoss
<1>1. toServer \in Seq(Datagram) /\ lost \in 0..MaxLoss /\ MaxLoss \in Nat
  BY DEF TypeOK, Datagram, FtpAssumption
<1>2. [from |-> c, text |-> t] \in Datagram
  BY DEF Datagram
<1> HIDE DEF Datagram
<1> QED
  BY <1>1, <1>2 DEF ToServer

\* The same of one for a client.
LEMMA ToClientType ==
    ASSUME TypeOK, FtpAssumption, NEW c \in Clients, NEW t \in Texts, ToClient(c, t)
    PROVE  toClient' \in [Clients -> Seq(Texts)] /\ lost' \in 0..MaxLoss
<1>1. lost' \in 0..MaxLoss
  BY DEF ToClient, TypeOK, FtpAssumption
<1>2. toClient \in [Clients -> Seq(Texts)]
  BY DEF TypeOK
<1>3. Append(toClient[c], t) \in Seq(Texts)
  BY <1>2
<1>4. toClient' = toClient \/ toClient' = [toClient EXCEPT ![c] = Append(toClient[c], t)]
  BY DEF ToClient
<1> QED
  BY <1>1, <1>2, <1>3, <1>4

\* The texts of the protocol are texts.
LEMMA ProtocolTexts ==
    /\ {Ls, ExitText, Listing, Bye, Error, Request, Success, Failure} \subseteq Texts
    /\ \A f \in Files : f \in Texts /\ GetText[f] \in Texts
BY DEF Texts

\* What the server answers is a text, on disk or of the protocol.
LEMMA ResponseType ==
    ASSUME TypeOK, NEW t \in Texts
    PROVE  Response(t) \in Texts
<1>1. CASE \E f \in Files : t = GetText[f]
  <2> DEFINE f == CHOOSE g \in Files : t = GetText[g]
  <2>1. f \in Files
    BY <1>1
  <2> HIDE DEF f
  <2>2. serverDisk[f] \in Texts \cup {None}
    BY <2>1, ProtocolTexts DEF TypeOK
  <2>3. FileOnServer(f) \in Texts
    BY <2>2, ProtocolTexts DEF FileOnServer
  <2> QED
    BY <1>1, <2>3, ProtocolTexts DEF Response, f
<1> QED
  BY <1>1, ProtocolTexts DEF Response

\* The head of the server's queue, and what is left of it.
LEMMA ServerHead ==
    ASSUME TypeOK, toServer # <<>>
    PROVE  /\ Head(toServer).from \in Clients /\ Head(toServer).text \in Texts
           /\ Tail(toServer) \in Seq(Datagram)
           /\ <<>> \in Seq(Datagram)
<1>1. toServer \in Seq(Datagram)
  BY DEF TypeOK, Datagram
<1>2. Head(toServer) \in Datagram /\ Tail(toServer) \in Seq(Datagram)
  <2> HIDE DEF Datagram
  <2> QED
    BY <1>1
<1> QED
  BY <1>2 DEF Datagram

\* The same of a client's queue.
LEMMA ClientHead ==
    ASSUME TypeOK, NEW c \in Clients, toClient[c] # <<>>
    PROVE  Head(toClient[c]) \in Texts /\ Tail(toClient[c]) \in Seq(Texts)
<1>1. toClient[c] \in Seq(Texts)
  BY DEF TypeOK
<1> QED
  BY <1>1

LEMMA TypeInit == FtpAssumption /\ Init => TypeOK
<1> SUFFICES ASSUME FtpAssumption, Init PROVE TypeOK
  OBVIOUS
<1>1. \A f \in Files : \A x \in Contents : x \in Texts
  BY DEF Texts
<1>2. disk \in [Clients -> [Files -> Texts \cup {None}]]
  <2>1. Contents \cup {None} \subseteq Texts \cup {None}
    BY DEF Texts
  <2> QED
    BY <2>1 DEF Init
<1>3. 0 \in 0..MaxLoss /\ 0 \in 0..MaxCommands
  BY DEF FtpAssumption
<1>4. serverDisk \in [Texts -> Texts \cup {None}]
  <2>1. PICK d \in [Files -> Contents \cup {None}] :
           serverDisk = [t \in Texts |-> IF t \in Files THEN d[t] ELSE None]
    BY DEF Init
  <2>2. \A f \in Files : d[f] \in Texts \cup {None}
    BY <1>1
  <2> QED
    BY <2>1, <2>2
<1>5. <<>> \in Seq([from : Clients, text : Texts])
  OBVIOUS
<1>6. toClient \in [Clients -> Seq(Texts)]
  BY DEF Init
<1> QED
  BY <1>2, <1>3, <1>4, <1>5, <1>6 DEF Init, TypeOK

\* A command that is typed.
LEMMA TypeOfType ==
    ASSUME TypeOK, FtpAssumption, NEW c \in Clients, NEW what \in {"get", "put", "ls", "exit"},
           NEW f \in Files, NEW t \in Texts, Type(c, what, f, t)
    PROVE  TypeOK'
<1>1. toServer' \in Seq(Datagram) /\ lost' \in 0..MaxLoss
  BY ToServerType DEF Type
<1>2. typed' \in 0..MaxCommands
  BY DEF Type, TypeOK, FtpAssumption
<1>3. /\ client' \in [Clients -> {"idle", "sent", "named", "ended"}]
      /\ command' \in [Clients -> {"none", "get", "put", "ls", "exit"}]
      /\ file' \in [Clients -> Files]
  BY DEF Type, TypeOK
<1> QED
  BY <1>1, <1>2, <1>3 DEF Type, TypeOK, serverVars, Datagram

\* A command that ends.
LEMMA TypeOfFinish ==
    ASSUME TypeOK, FtpAssumption, NEW c \in Clients, NEW t \in Texts, Finish(c, t)
    PROVE  /\ client' \in [Clients -> {"idle", "sent", "named", "ended"}]
           /\ disk' \in [Clients -> [Files -> Texts \cup {None}]]
           /\ toServer' = toServer /\ lost' = lost
<1>1. client' \in [Clients -> {"idle", "sent", "named", "ended"}]
  BY DEF Finish, TypeOK
<1>2. disk' \in [Clients -> [Files -> Texts \cup {None}]]
  <2>1. \A x \in Texts : [disk EXCEPT ![c][file[c]] = x] \in [Clients -> [Files -> Texts \cup {None}]]
    BY DEF TypeOK
  <2>2. Cut \in Texts
    BY DEF FtpAssumption, Texts
  <2>3. \/ disk' = disk
        \/ disk' = [disk EXCEPT ![c][file[c]] = t]
        \/ disk' = [disk EXCEPT ![c][file[c]] = Cut]
    BY DEF Finish
  <2> QED
    BY <2>1, <2>2, <2>3 DEF TypeOK
<1> QED
  BY <1>1, <1>2 DEF Finish

LEMMA TypeStep == FtpAssumption /\ TypeOK /\ [Next]_vars => TypeOK'
<1> SUFFICES ASSUME FtpAssumption, TypeOK, [Next]_vars PROVE TypeOK'
  OBVIOUS
<1>1. CASE UNCHANGED vars
  BY <1>1 DEF vars, serverVars, clientVars, TypeOK
<1>2. CASE ServeCommand
  <2>1. /\ toServer # <<>>
        /\ ToClient(Head(toServer).from, Response(Head(toServer).text))
        /\ toServer' = <<>> \/ toServer' = Tail(toServer)
        /\ server' \in {"command", "name", "ended"}
        /\ buffer' = buffer \/ buffer' = Head(toServer).text
        /\ UNCHANGED <<serverDisk, clientVars, typed>>
    BY <1>2 DEF ServeCommand
  <2>2. /\ Head(toServer).from \in Clients /\ Head(toServer).text \in Texts
        /\ toServer' \in Seq(Datagram)
    BY <2>1, ServerHead
  <2>3. toClient' \in [Clients -> Seq(Texts)] /\ lost' \in 0..MaxLoss
    BY <2>1, <2>2, ResponseType, ToClientType
  <2> QED
    BY <2>1, <2>2, <2>3 DEF TypeOK, clientVars, Datagram
<1>3. CASE ServeName
  <2>1. PICK text \in {Success, Failure} :
           /\ WriteFile(Head(toServer).text, buffer, text)
           /\ ToClient(Head(toServer).from, text)
    BY <1>3 DEF ServeName
  <2>2. /\ toServer # <<>>
        /\ toServer' = Tail(toServer)
        /\ server' = "command"
        /\ UNCHANGED <<buffer, clientVars, typed>>
    BY <1>3 DEF ServeName
  <2>3. /\ Head(toServer).from \in Clients /\ Head(toServer).text \in Texts
        /\ toServer' \in Seq(Datagram)
    BY <2>2, ServerHead
  <2>4. toClient' \in [Clients -> Seq(Texts)] /\ lost' \in 0..MaxLoss
    BY <2>1, <2>3, ProtocolTexts, ToClientType
  <2>5. serverDisk' \in [Texts -> Texts \cup {None}]
    <3>1. Cut \in Texts
      BY DEF FtpAssumption, Texts
    <3> QED
      BY <2>1, <2>3, <3>1 DEF TypeOK, WriteFile
  <2> QED
    BY <2>2, <2>3, <2>4, <2>5 DEF TypeOK, clientVars, Datagram
<1>10. CASE Fall
  <2>1. toServer' = <<>> /\ <<>> \in Seq(Datagram)
    BY <1>10, ServerHead DEF Fall
  <2> QED
    BY <1>10, <2>1 DEF Fall, TypeOK, clientVars, Datagram
<1>4. ASSUME NEW c \in Clients, Hear(c) PROVE TypeOK'
  <2>1. /\ Head(toClient[c]) \in Texts
        /\ toClient' \in [Clients -> Seq(Texts)]
    <3>1. toClient[c] # <<>> /\ toClient' = [toClient EXCEPT ![c] = Tail(@)]
      BY <1>4 DEF Hear
    <3> QED
      BY <3>1, ClientHead DEF TypeOK
  <2>2. UNCHANGED <<serverVars, command, file, typed>>
    BY <1>4 DEF Hear
  <2>3. CASE Head(toClient[c]) = Request
    <3>1. ToServer(c, file[c]) /\ client' = [client EXCEPT ![c] = "named"] /\ UNCHANGED disk
      BY <1>4, <2>3 DEF Hear
    <3>2. file[c] \in Texts
      BY ProtocolTexts DEF TypeOK
    <3>3. toServer' \in Seq(Datagram) /\ lost' \in 0..MaxLoss
      BY <3>1, <3>2, ToServerType
    <3> QED
      BY <2>1, <2>2, <3>1, <3>3 DEF TypeOK, serverVars, Datagram
  <2>4. CASE Head(toClient[c]) # Request
    <3>1. Finish(c, Head(toClient[c]))
      BY <1>4, <2>4 DEF Hear
    <3> QED
      BY <2>1, <2>2, <3>1, TypeOfFinish DEF TypeOK, serverVars
  <2> QED
    BY <2>3, <2>4
<1>5. ASSUME NEW c \in Clients, HearResult(c) PROVE TypeOK'
  <2>1. /\ toClient[c] # <<>> /\ toClient' = [toClient EXCEPT ![c] = Tail(@)]
        /\ Finish(c, Head(toClient[c]))
        /\ UNCHANGED <<serverVars, command, file, typed>>
    BY <1>5 DEF HearResult
  <2>2. Head(toClient[c]) \in Texts /\ toClient' \in [Clients -> Seq(Texts)]
    BY <2>1, ClientHead DEF TypeOK
  <2> QED
    BY <2>1, <2>2, TypeOfFinish DEF TypeOK, serverVars
<1>6. ASSUME NEW c \in Clients, LsCommand(c) PROVE TypeOK'
  BY <1>6, TypeOfType, ProtocolTexts DEF LsCommand, TypeOK
<1>7. ASSUME NEW c \in Clients, ExitCommand(c) PROVE TypeOK'
  BY <1>7, TypeOfType, ProtocolTexts DEF ExitCommand, TypeOK
<1>8. ASSUME NEW c \in Clients, NEW f \in Files, Get(c, f) PROVE TypeOK'
  BY <1>8, TypeOfType, ProtocolTexts DEF Get
<1>9. ASSUME NEW c \in Clients, NEW f \in Files, Put(c, f) PROVE TypeOK'
  <2>1. disk[c][f] \in Texts /\ Type(c, "put", f, disk[c][f])
    BY <1>9 DEF Put, TypeOK
  <2> QED
    BY <2>1, TypeOfType
<1> QED
  BY <1>1, <1>2, <1>3, <1>4, <1>5, <1>6, <1>7, <1>8, <1>9, <1>10 DEF Next

\* Every variable keeps its type: no datagram, file or response is anything
\* but a text of the protocol, a name or a content, whatever it is taken for
\* (udp_client.c, udp_server.c).
THEOREM TypeCorrect == Spec => []TypeOK
<1>1. Init => TypeOK
  BY TypeInit, FtpAssumption
<1>2. TypeOK /\ [Next]_vars => TypeOK'
  BY TypeStep, FtpAssumption
<1> QED
  BY <1>1, <1>2, PTL DEF Spec

-----------------------------------------------------------------------------
(* LockStep *)

Waits(c) == client[c] \in {"sent", "named"}

Answered(c) == toClient[c] # <<>>

\* A client has at most one datagram under way, its own or the response, and
\* only while it waits; without loss it has one then.
OneUnderWay(c) ==
    /\ \A i, j \in Sent(c) : i = j
    /\ Answered(c) => Tail(toClient[c]) = <<>> /\ Sent(c) = {}
    /\ Answered(c) \/ Sent(c) # {} => Waits(c)
    /\ Waits(c) /\ lost = 0 /\ server # "ended" => Answered(c) \/ Sent(c) # {}

AllLockStep == \A c \in Clients : OneUnderWay(c)



\* With its queues, a client's datagrams are counted as LockStep counts them.
LEMMA LockStepFromOne ==
    TypeOK /\ AllLockStep => LockStep
<1> SUFFICES ASSUME TypeOK, AllLockStep, NEW c \in Clients
             PROVE  /\ UnderWay(c) <= IF client[c] \in {"sent", "named"} THEN 1 ELSE 0
                    /\ client[c] \in {"sent", "named"} /\ lost = 0 /\ server # "ended" => UnderWay(c) = 1
  BY DEF LockStep
<1>1. OneUnderWay(c) /\ toClient[c] \in Seq(Texts)
  BY DEF AllLockStep, TypeOK
<1>2. Len(toClient[c]) = IF Answered(c) THEN 1 ELSE 0
  <2>1. CASE Answered(c)
    <3>1. Len(Tail(toClient[c])) = Len(toClient[c]) - 1 /\ Len(toClient[c]) \in Nat
      BY <1>1, <2>1 DEF Answered
    <3>2. Tail(toClient[c]) = <<>> /\ Len(<<>>) = 0
      BY <1>1, <2>1 DEF OneUnderWay
    <3>3. Len(Tail(toClient[c])) = 0
      BY <3>2
    <3>4. Len(toClient[c]) = 1
      BY <3>1, <3>3
    <3> QED
      BY <2>1, <3>4
  <2>2. CASE ~Answered(c)
    BY <2>2 DEF Answered
  <2> QED
    BY <2>1, <2>2
<1>3. CASE Sent(c) = {}
  <2>1. Cardinality(Sent(c)) = 0
    BY <1>3, FS_EmptySet, Zenon
  <2>2. UnderWay(c) = IF Answered(c) THEN 1 ELSE 0
    BY <1>2, <2>1 DEF UnderWay
  <2> QED
    BY <1>1, <1>3, <2>2 DEF OneUnderWay, Waits
<1>4. CASE Sent(c) # {}
  <2>1. PICK i \in Sent(c) : TRUE
    BY <1>4
  <2>2. Sent(c) = {i}
    BY <1>1, <2>1 DEF OneUnderWay
  <2>3. Cardinality(Sent(c)) = 1
    BY <2>2, FS_Singleton, Zenon
  <2>4. ~Answered(c) /\ Waits(c)
    BY <1>1, <1>4 DEF OneUnderWay
  <2>5. UnderWay(c) = 1
    BY <1>2, <2>3, <2>4 DEF UnderWay
  <2> QED
    BY <2>4, <2>5 DEF Waits
<1> QED
  BY <1>3, <1>4

\* A datagram that is queued at the server is its sender's; the others keep
\* theirs.
LEMMA SentAppended ==
    ASSUME TypeOK, NEW c \in Clients, NEW t \in Texts, ToServer(c, t)
    PROVE  /\ \A d \in Clients \ {c} : Sent(d)' = Sent(d)
           /\ \/ Sent(c)' = Sent(c) /\ (server = "ended" \/ lost' = lost + 1)
              \/ Sent(c)' = Sent(c) \cup {Len(toServer) + 1} /\ lost' = lost
<1>1. CASE toServer' = toServer /\ (server = "ended" \/ lost' = lost + 1)
  BY <1>1 DEF Sent
<1>2. CASE toServer' = Append(toServer, [from |-> c, text |-> t]) /\ lost' = lost
  <2> DEFINE new == [from |-> c, text |-> t]
             n == Len(toServer)
  <2>1. toServer \in Seq(Datagram) /\ new \in Datagram /\ new.from = c
    BY DEF TypeOK, Datagram
  <2> HIDE DEF Datagram, new
  <2>2. /\ DOMAIN toServer' = DOMAIN toServer \cup {n + 1}
        /\ \A i \in DOMAIN toServer : toServer'[i] = toServer[i]
        /\ toServer'[n + 1] = new
        /\ n + 1 \notin DOMAIN toServer
    BY <1>2, <2>1 DEF new
  <2> HIDE DEF n
  <2>3. \A d \in Clients \ {c} : Sent(d)' = Sent(d)
    BY <2>1, <2>2 DEF Sent
  <2>4. Sent(c)' = Sent(c) \cup {n + 1}
    BY <2>1, <2>2 DEF Sent
  <2> QED
    BY <1>2, <2>3, <2>4 DEF n
<1> QED
  BY <1>1, <1>2 DEF ToServer

\* When the server takes its next datagram, the others move up one place.
LEMMA SentTaken ==
    ASSUME TypeOK, toServer # <<>>, toServer' = Tail(toServer)
    PROVE  /\ 1 \in Sent(Head(toServer).from)
           /\ \A d \in Clients : /\ \A i \in Sent(d)' : i + 1 \in Sent(d) /\ i + 1 # 1 /\ i \in Nat
                                 /\ \A i \in Sent(d) : i = 1 \/ i - 1 \in Sent(d)'
                                 /\ d # Head(toServer).from => 1 \notin Sent(d)
<1>1. toServer \in Seq(Datagram)
  BY DEF TypeOK, Datagram
<1>2. /\ DOMAIN toServer' = 1..(Len(toServer) - 1) /\ DOMAIN toServer = 1..Len(toServer)
      /\ Len(toServer) \in Nat \ {0}
      /\ \A i \in 1..(Len(toServer) - 1) : toServer'[i] = toServer[i + 1]
      /\ Head(toServer) = toServer[1]
  BY <1>1
<1> DEFINE n == Len(toServer)
<1> HIDE DEF n
<1>3. 1 \in DOMAIN toServer
  BY <1>2 DEF n
<1>4. ASSUME NEW d \in Clients, NEW i \in Sent(d)' PROVE i + 1 \in Sent(d) /\ i + 1 # 1 /\ i \in Nat
  BY <1>2, <1>4 DEF Sent, n
<1>5. ASSUME NEW d \in Clients, NEW i \in Sent(d), i # 1 PROVE i - 1 \in Sent(d)'
  <2>1. i \in 1..n /\ i - 1 \in 1..(n - 1) /\ (i - 1) + 1 = i
    BY <1>2, <1>5 DEF Sent, n
  <2>2. toServer'[i - 1] = toServer[i]
    BY <1>2, <2>1 DEF n
  <2> QED
    BY <1>2, <1>5, <2>1, <2>2 DEF Sent, n
<1> QED
  BY <1>2, <1>3, <1>4, <1>5 DEF Sent

\* A client about which nothing changes, while losses only grow and the
\* server may end.
LEMMA OthersKeep ==
    ASSUME NEW c \in Clients, OneUnderWay(c), Sent(c)' = Sent(c),
           toClient'[c] = toClient[c], client'[c] = client[c],
           lost' = 0 => lost = 0, server' # "ended" => server # "ended"
    PROVE  OneUnderWay(c)'
BY DEF OneUnderWay, Answered, Waits

\* A client that had nothing under way sends, and waits.
LEMMA SendsOne ==
    ASSUME TypeOK, NEW c \in Clients, NEW t \in Texts, ToServer(c, t), Sent(c) = {},
           toClient'[c] = <<>>, client'[c] \in {"sent", "named"}, server' = server
    PROVE  OneUnderWay(c)'
<1>1. lost \in Nat
  BY DEF TypeOK
<1>2. CASE Sent(c)' = {} /\ (server = "ended" \/ lost' = lost + 1)
  <2>1. server = "ended" \/ lost' # 0
    BY <1>1, <1>2
  <2> QED
    BY <1>2, <2>1 DEF OneUnderWay, Answered, Waits
<1>3. CASE Sent(c)' = {Len(toServer) + 1}
  BY <1>3 DEF OneUnderWay, Answered, Waits
<1> QED
  BY <1>2, <1>3, SentAppended

\* ToServer does not lower the count of losses.
LEMMA LostOnlyGrows ==
    ASSUME TypeOK, lost' = lost \/ lost' = lost + 1
    PROVE  lost' = 0 => lost = 0
<1>1. lost \in Nat
  BY DEF TypeOK
<1> QED
  BY <1>1

\* A client that hears the response ends its command, or sends the name.
LEMMA HearStep ==
    ASSUME TypeOK, AllLockStep, NEW c \in Clients, Hear(c) \/ HearResult(c)
    PROVE  AllLockStep'
<1>1. /\ toClient[c] # <<>> /\ toClient' = [toClient EXCEPT ![c] = Tail(@)]
      /\ server' = server
  BY DEF Hear, HearResult, serverVars
<1>2. toClient \in [Clients -> Seq(Texts)] /\ client \in [Clients -> {"idle", "sent", "named", "ended"}]
  BY DEF TypeOK
<1>3. OneUnderWay(c) /\ Sent(c) = {} /\ toClient'[c] = <<>>
  BY <1>1, <1>2 DEF AllLockStep, OneUnderWay, Answered
<1>4. \A d \in Clients \ {c} : toClient'[d] = toClient[d]
  BY <1>1, <1>2
<1>5. CASE ToServer(c, file[c]) /\ client' = [client EXCEPT ![c] = "named"]
  <2>1. file[c] \in Texts
    BY ProtocolTexts DEF TypeOK
  <2>2. OneUnderWay(c)'
    BY <1>1, <1>2, <1>3, <1>5, <2>1, SendsOne
  <2>3. ASSUME NEW d \in Clients \ {c} PROVE OneUnderWay(d)'
    <3>1. Sent(d)' = Sent(d) /\ client'[d] = client[d]
      BY <1>2, <1>5, <2>1, SentAppended
    <3>2. lost' = 0 => lost = 0
      BY <1>5, LostOnlyGrows DEF ToServer
    <3>3. OneUnderWay(d)
      BY DEF AllLockStep
    <3> QED
      BY <1>1, <1>4, <3>1, <3>2, <3>3, OthersKeep
  <2> QED
    BY <2>2, <2>3 DEF AllLockStep
<1>6. CASE Finish(c, Head(toClient[c]))
  <2>1. /\ client'[c] \in {"idle", "ended"} /\ toServer' = toServer /\ lost' = lost
        /\ \A d \in Clients \ {c} : client'[d] = client[d]
    BY <1>2, <1>6 DEF Finish
  <2>2. \A d \in Clients : Sent(d)' = Sent(d)
    BY <2>1 DEF Sent
  <2>3. OneUnderWay(c)'
    BY <1>3, <2>1, <2>2 DEF OneUnderWay, Answered, Waits
  <2>4. ASSUME NEW d \in Clients \ {c} PROVE OneUnderWay(d)'
    <3>1. OneUnderWay(d)
      BY DEF AllLockStep
    <3> QED
      BY <1>1, <1>4, <2>1, <2>2, <3>1, OthersKeep
  <2> QED
    BY <2>3, <2>4 DEF AllLockStep
<1> QED
  BY <1>5, <1>6 DEF Hear, HearResult

\* A command is typed by a client that waits for nothing.
LEMMA TypeLockStep ==
    ASSUME TypeOK, AllLockStep, NEW c \in Clients, NEW what, NEW f, NEW t \in Texts,
           Type(c, what, f, t)
    PROVE  AllLockStep'
<1>1. /\ client[c] = "idle" /\ ToServer(c, t) /\ client' = [client EXCEPT ![c] = "sent"]
      /\ toClient' = toClient /\ server' = server
  BY DEF Type, serverVars
<1>2. client \in [Clients -> {"idle", "sent", "named", "ended"}]
  BY DEF TypeOK
<1>3. OneUnderWay(c) /\ Sent(c) = {} /\ toClient'[c] = <<>> /\ client'[c] = "sent"
  BY <1>1, <1>2 DEF AllLockStep, OneUnderWay, Answered, Waits
<1>4. OneUnderWay(c)'
  BY <1>1, <1>3, SendsOne
<1>5. ASSUME NEW d \in Clients \ {c} PROVE OneUnderWay(d)'
  <2>1. Sent(d)' = Sent(d) /\ client'[d] = client[d]
    BY <1>1, <1>2, SentAppended
  <2>2. lost' = 0 => lost = 0
    BY <1>1, LostOnlyGrows DEF ToServer
  <2>3. OneUnderWay(d)
    BY DEF AllLockStep
  <2> QED
    BY <1>1, <2>1, <2>2, <2>3, OthersKeep
<1> QED
  BY <1>4, <1>5 DEF AllLockStep

\* The server answers the sender of the datagram that it takes.
LEMMA ServeLockStep ==
    ASSUME TypeOK, AllLockStep, NEW c \in Clients, NEW t, toServer # <<>>,
           c = Head(toServer).from, toServer' = Tail(toServer), ToClient(c, t),
           client' = client, server # "ended"
    PROVE  AllLockStep'
<1>1. toClient \in [Clients -> Seq(Texts)] /\ lost \in Nat
  BY DEF TypeOK
<1>2. /\ 1 \in Sent(c) /\ OneUnderWay(c) /\ toClient[c] = <<>>
      /\ \A i \in Sent(c) : i = 1
  BY SentTaken DEF AllLockStep, OneUnderWay, Answered
<1>3. Sent(c)' = {}
  BY <1>2, SentTaken
<1>4. OneUnderWay(c)'
  <2>1. CASE toClient' = [toClient EXCEPT ![c] = Append(@, t)]
    <3>1. toClient'[c] = <<t>>
      BY <1>1, <1>2, <2>1
    <3>2. Tail(<<t>>) = <<>> /\ <<t>> # <<>>
      OBVIOUS
    <3> QED
      BY <1>2, <1>3, <3>1, <3>2 DEF OneUnderWay, Answered, Waits
  <2>2. CASE toClient' = toClient /\ lost' = lost + 1
    <3>1. lost' # 0
      BY <1>1, <2>2
    <3> QED
      BY <1>2, <1>3, <2>2, <3>1 DEF OneUnderWay, Answered, Waits
  <2> QED
    BY <2>1, <2>2 DEF ToClient
<1>5. ASSUME NEW d \in Clients \ {c} PROVE OneUnderWay(d)'
  <2>1. OneUnderWay(d) /\ 1 \notin Sent(d)
    BY SentTaken DEF AllLockStep
  <2>2. /\ \A i \in Sent(d)' : i + 1 \in Sent(d) /\ i \in Nat
        /\ \A i \in Sent(d) : i - 1 \in Sent(d)'
    BY <2>1, SentTaken
  <2>3. \A i, j \in Sent(d)' : i = j
    <3> SUFFICES ASSUME NEW i \in Sent(d)', NEW j \in Sent(d)' PROVE i = j
      OBVIOUS
    <3>1. i + 1 = j + 1 /\ i \in Nat /\ j \in Nat
      BY <2>1, <2>2 DEF OneUnderWay
    <3> QED
      BY <3>1
  <2>4. Sent(d)' = {} <=> Sent(d) = {}
    BY <2>2
  <2>5. toClient'[d] = toClient[d]
    BY <1>1 DEF ToClient
  <2>6. lost' = 0 => lost = 0
    BY LostOnlyGrows DEF ToClient
  <2> QED
    BY <2>1, <2>3, <2>4, <2>5, <2>6 DEF OneUnderWay, Answered, Waits
<1> QED
  BY <1>4, <1>5 DEF AllLockStep

\* The server ends: it answers, and every other client waits in vain.
LEMMA EndLockStep ==
    ASSUME TypeOK, AllLockStep, NEW c \in Clients, NEW t, toServer # <<>>,
           c = Head(toServer).from, toServer' = <<>>, ToClient(c, t),
           client' = client, server' = "ended"
    PROVE  AllLockStep'
<1>1. toClient \in [Clients -> Seq(Texts)]
  BY DEF TypeOK
<1>2. 1 \in Sent(c) /\ OneUnderWay(c)
  <2>1. toServer \in Seq(Datagram)
    BY DEF TypeOK, Datagram
  <2>2. 1 \in DOMAIN toServer /\ Head(toServer) = toServer[1]
    BY <2>1
  <2> QED
    BY <2>2 DEF Sent, AllLockStep
<1>3. toClient[c] = <<>> /\ Waits(c)
  BY <1>2 DEF OneUnderWay, Answered
<1>4. \A d \in Clients : Sent(d)' = {}
  BY DEF Sent
<1>5. OneUnderWay(c)'
  <2>1. toClient'[c] = <<>> \/ toClient'[c] = <<t>>
    BY <1>1, <1>3 DEF ToClient
  <2>2. Tail(<<t>>) = <<>>
    OBVIOUS
  <2> QED
    BY <1>3, <1>4, <2>1, <2>2 DEF OneUnderWay, Answered, Waits
<1>6. ASSUME NEW d \in Clients \ {c} PROVE OneUnderWay(d)'
  <2>1. toClient'[d] = toClient[d] /\ OneUnderWay(d)
    BY <1>1 DEF ToClient, AllLockStep
  <2> QED
    BY <1>4, <2>1 DEF OneUnderWay, Answered, Waits
<1> QED
  BY <1>5, <1>6 DEF AllLockStep

LEMMA LockStepInit == Init => AllLockStep
<1> SUFFICES ASSUME Init, NEW c \in Clients PROVE OneUnderWay(c)
  BY DEF AllLockStep
<1>1. Sent(c) = {} /\ toClient[c] = <<>> /\ client[c] = "idle"
  BY DEF Init, Sent
<1> QED
  BY <1>1 DEF OneUnderWay, Answered, Waits

LEMMA LockStepStep == TypeOK /\ AllLockStep /\ [Next]_vars => AllLockStep'
<1> SUFFICES ASSUME TypeOK, AllLockStep, [Next]_vars PROVE AllLockStep'
  OBVIOUS
<1>1. CASE UNCHANGED vars
  BY <1>1 DEF vars, serverVars, clientVars, AllLockStep, OneUnderWay, Answered, Waits, Sent
<1>2. CASE ServeCommand
  <2> DEFINE d == Head(toServer)
  <2>1. /\ toServer # <<>> /\ server = "command" /\ d.from \in Clients
        /\ ToClient(d.from, Response(d.text)) /\ client' = client
    BY <1>2, ServerHead DEF ServeCommand, clientVars
  <2>2. CASE d.text = ExitText
    <3>1. toServer' = <<>> /\ server' = "ended"
      BY <1>2, <2>2 DEF ServeCommand
    <3> QED
      BY <2>1, <3>1, EndLockStep
  <2>3. CASE d.text # ExitText
    <3>1. toServer' = Tail(toServer) /\ server # "ended"
      BY <1>2, <2>3 DEF ServeCommand
    <3> QED
      BY <2>1, <3>1, ServeLockStep
  <2> QED
    BY <2>2, <2>3
<1>3. CASE ServeName
  <2> DEFINE d == Head(toServer)
  <2>1. PICK text \in {Success, Failure} : ToClient(d.from, text)
    BY <1>3 DEF ServeName
  <2>2. /\ toServer # <<>> /\ server = "name" /\ d.from \in Clients
        /\ client' = client /\ toServer' = Tail(toServer)
    BY <1>3, ServerHead DEF ServeName, clientVars
  <2>3. server # "ended"
    BY <2>2
  <2> QED
    BY <2>1, <2>2, <2>3, ServeLockStep
<1>8. CASE Fall
  BY <1>8 DEF Fall, AllLockStep, OneUnderWay, Answered, Waits, Sent, clientVars
<1>4. ASSUME NEW c \in Clients, Hear(c) \/ HearResult(c) PROVE AllLockStep'
  BY <1>4, HearStep
<1>5. ASSUME NEW c \in Clients, LsCommand(c) \/ ExitCommand(c) PROVE AllLockStep'
  BY <1>5, TypeLockStep, ProtocolTexts DEF LsCommand, ExitCommand
<1>6. ASSUME NEW c \in Clients, NEW f \in Files, Get(c, f) PROVE AllLockStep'
  BY <1>6, TypeLockStep, ProtocolTexts DEF Get
<1>7. ASSUME NEW c \in Clients, NEW f \in Files, Put(c, f) PROVE AllLockStep'
  <2>1. disk[c][f] \in Texts /\ Type(c, "put", f, disk[c][f])
    BY <1>7 DEF Put, TypeOK
  <2> QED
    BY <2>1, TypeLockStep
<1> QED
  BY <1>1, <1>2, <1>3, <1>4, <1>5, <1>6, <1>7, <1>8 DEF Next

\* One datagram is under way for a client that waits, and none for any
\* other, however many clients there are, however their commands mix at the
\* server, and wherever a datagram is lost (udp_client.c:131-163,
\* udp_server.c:67-174).
THEOREM LockStepHolds == Spec => []LockStep
<1>1. Init => TypeOK /\ AllLockStep
  BY TypeInit, LockStepInit, FtpAssumption
<1>2. TypeOK /\ AllLockStep /\ [Next]_vars => (TypeOK /\ AllLockStep)'
  BY TypeStep, LockStepStep, FtpAssumption
<1>3. TypeOK /\ AllLockStep => LockStep
  BY LockStepFromOne
<1> QED
  BY <1>1, <1>2, <1>3, PTL DEF Spec

-----------------------------------------------------------------------------
(* Transfers *)

\* What the command of a client sent first.
CommandText(c) ==
    CASE command[c] = "get" -> GetText[file[c]]
      [] command[c] = "put" -> disk[c][file[c]]
      [] command[c] = "ls" -> Ls
      [] OTHER -> ExitText

\* What is on disk is a whole content.
WholeFiles(c) ==
    /\ serverDisk \in [Texts -> Contents \cup {None}]
    /\ disk[c] \in [Files -> Contents \cup {None}]

\* The server waits for a name only in the middle of this client's put.
NameIsAwaited(c) ==
    /\ server = "name" => /\ command[c] = "put" /\ buffer = disk[c][file[c]]
                          /\ client[c] \in {"sent", "named"}
    /\ client[c] = "named" => command[c] = "put"
    /\ client[c] = "sent" => command[c] \in {"get", "put", "ls", "exit"}

\* What the client has sent is what the server expects.
SentIsExpected(c) ==
    \A i \in Sent(c) :
        \/ client[c] = "sent" /\ toServer[i].text = CommandText(c) /\ server # "name"
        \/ client[c] = "named" /\ toServer[i].text = file[c] /\ server = "name"

\* The response is to what it sent: a name is asked for when the server waits
\* for one, a file that does not read like a command is asked for its name, a
\* get is answered with the file as it still is, and a put with what is stored.
AnswerIsMeant(c) ==
    Answered(c) =>
        \/ /\ client[c] = "sent"
           /\ Head(toClient[c]) = Request <=> server = "name"
           /\ command[c] = "get" => Head(toClient[c]) = FileOnServer(file[c])
           /\ command[c] = "put" /\ IsPut(disk[c][file[c]]) => Head(toClient[c]) = Request
        \/ /\ client[c] = "named" /\ server # "name"
           /\ serverDisk[file[c]] = disk[c][file[c]] \/ Head(toClient[c]) = Failure

Conversation(c) ==
    /\ WholeFiles(c)
    /\ NameIsAwaited(c)
    /\ SentIsExpected(c)
    /\ AnswerIsMeant(c)

\* A client that has typed nothing is idle; one that types alone is served
\* step by step.
Conversations ==
    \A c \in Clients :
        /\ command[c] = "none" => client[c] = "idle"
        /\ Alone(c) => Conversation(c)

\* While one client types alone, no other has anything under way.
LEMMA OthersAreSilent ==
    ASSUME AllLockStep, Conversations, NEW c \in Clients, Alone(c), NEW d \in Clients \ {c}
    PROVE  client[d] = "idle" /\ Sent(d) = {} /\ ~Answered(d)
<1>1. client[d] = "idle" /\ OneUnderWay(d)
  BY DEF Alone, Conversations, AllLockStep
<1> QED
  BY <1>1 DEF OneUnderWay, Waits

\* ... and whatever the server takes is this client's.
LEMMA HeadIsItsOwn ==
    ASSUME TypeOK, AllLockStep, Conversations, NEW c \in Clients, Alone(c), toServer # <<>>
    PROVE  /\ Head(toServer).from = c /\ Head(toServer) = toServer[1]
           /\ 1 \in Sent(c) /\ \A i \in Sent(c) : i = 1
           /\ toClient[c] = <<>>
<1>1. /\ Head(toServer) = toServer[1] /\ 1 \in DOMAIN toServer
      /\ Head(toServer).from \in Clients
  <2>1. toServer \in Seq(Datagram)
    BY DEF TypeOK, Datagram
  <2>2. Head(toServer) = toServer[1] /\ 1 \in DOMAIN toServer
    BY <2>1
  <2> QED
    BY <2>2, ServerHead
<1>2. 1 \in Sent(Head(toServer).from)
  BY <1>1 DEF Sent
<1>3. Head(toServer).from = c
  BY <1>1, <1>2, OthersAreSilent
<1>4. OneUnderWay(c)
  BY DEF AllLockStep
<1> QED
  BY <1>1, <1>2, <1>3, <1>4 DEF OneUnderWay, Answered

\* A client that had nothing under way has sent what it has sent.
LEMMA SentText ==
    ASSUME TypeOK, NEW c \in Clients, NEW t \in Texts, ToServer(c, t), Sent(c) = {}
    PROVE  \A i \in Sent(c)' : toServer'[i].text = t
<1>1. CASE toServer' = toServer
  BY <1>1 DEF Sent
<1>2. CASE toServer' = Append(toServer, [from |-> c, text |-> t])
  <2> DEFINE new == [from |-> c, text |-> t]
             n == Len(toServer)
  <2>1. toServer \in Seq(Datagram) /\ new \in Datagram /\ new.text = t
    BY DEF TypeOK, Datagram
  <2> HIDE DEF Datagram, new
  <2>2. /\ DOMAIN toServer' = DOMAIN toServer \cup {n + 1}
        /\ \A i \in DOMAIN toServer : toServer'[i] = toServer[i]
        /\ toServer'[n + 1] = new
    BY <1>2, <2>1 DEF new
  <2> HIDE DEF n
  <2> QED
    BY <2>1, <2>2 DEF Sent
<1> QED
  BY <1>1, <1>2 DEF ToServer

\* Nothing but a content that is stored is answered with a request.
LEMMA OnlyAPutIsAsked ==
    ASSUME FtpAssumption, TypeOK, Request \notin Contents,
           serverDisk \in [Texts -> Contents \cup {None}], NEW t \in Texts
    PROVE  /\ Response(t) = Request <=> IsPut(t)
           /\ \A f \in Files : t = GetText[f] => Response(t) = FileOnServer(f)
<1>1. ASSUME NEW f \in Files PROVE FileOnServer(f) \in Contents \cup {Error}
  <2>1. serverDisk[f] \in Contents \cup {None}
    BY ProtocolTexts
  <2> QED
    BY <2>1 DEF FileOnServer
<1>2. ASSUME NEW f \in Files, t = GetText[f] PROVE Response(t) = FileOnServer(f)
  <2> DEFINE g == CHOOSE h \in Files : t = GetText[h]
  <2>1. g \in Files /\ t = GetText[g]
    BY <1>2
  <2>2. g = f
    BY <1>2, <2>1 DEF FtpAssumption
  <2>3. t # Ls /\ t # ExitText
    BY <1>2 DEF FtpAssumption
  <2>4. Response(t) = FileOnServer(g)
    BY <2>1, <2>3 DEF Response
  <2> QED
    BY <2>2, <2>4
<1>3. CASE IsPut(t)
  BY <1>2, <1>3 DEF IsPut, Response
<1>4. CASE t = Ls \/ t = ExitText
  BY <1>2, <1>4 DEF IsPut, Response, FtpAssumption
<1>5. ASSUME NEW f \in Files, t = GetText[f] PROVE Response(t) # Request /\ ~IsPut(t)
  BY <1>1, <1>2, <1>5 DEF IsPut, FtpAssumption
<1> QED
  BY <1>2, <1>3, <1>4, <1>5 DEF IsPut

\* A client that types its command.
LEMMA ConversationTyped ==
    ASSUME TypeOK, AllLockStep, NEW c \in Clients, Conversation(c),
           NEW what \in {"get", "put", "ls", "exit"}, NEW f \in Files, NEW t \in Texts,
           Type(c, what, f, t),
           t = CASE what = "get" -> GetText[f] [] what = "put" -> disk[c][f]
                 [] what = "ls" -> Ls [] OTHER -> ExitText
    PROVE  Conversation(c)'
<1>1. /\ client[c] = "idle" /\ client'[c] = "sent" /\ command'[c] = what /\ file'[c] = f
      /\ UNCHANGED <<toClient, serverVars, disk>> /\ ToServer(c, t)
  BY DEF Type, TypeOK
<1>2. Sent(c) = {} /\ ~Answered(c) /\ server # "name"
  <2>1. OneUnderWay(c) /\ NameIsAwaited(c)
    BY DEF AllLockStep, Conversation
  <2> QED
    BY <1>1, <2>1 DEF OneUnderWay, Waits, NameIsAwaited
<1>3. \A i \in Sent(c)' : toServer'[i].text = t
  BY <1>1, <1>2, SentText
<1>4. CommandText(c)' = t
  BY <1>1 DEF CommandText
<1>5. WholeFiles(c)'
  BY <1>1 DEF WholeFiles, Conversation, serverVars
<1>6. NameIsAwaited(c)'
  BY <1>1, <1>2 DEF NameIsAwaited, serverVars
<1>7. SentIsExpected(c)'
  BY <1>1, <1>2, <1>3, <1>4 DEF SentIsExpected, serverVars
<1>8. AnswerIsMeant(c)'
  BY <1>1, <1>2 DEF AnswerIsMeant, Answered
<1> QED
  BY <1>5, <1>6, <1>7, <1>8 DEF Conversation

\* A get writes what the server holds, or less.
Got(c) ==
    /\ command[c] = "get" /\ serverDisk[file[c]] # None
    /\ disk' \in {[disk EXCEPT ![c][file[c]] = t] : t \in {serverDisk[file[c]], Cut}}

\* The end of its command.
LEMMA ConversationFinished ==
    ASSUME FtpAssumption, TypeOK, AllLockStep, NEW c \in Clients, Conversation(c),
           Answered(c), server # "name", client[c] = "named" \/ client[c] = "sent",
           toClient' = [toClient EXCEPT ![c] = Tail(@)],
           Finish(c, Head(toClient[c])), UNCHANGED <<serverVars, command, file>>
    PROVE  /\ Conversation(c)'
           /\ disk' = disk \/ Got(c)
           /\ command[c] = "put" => StoredAtItsEnd(c)
<1>1. /\ Sent(c) = {} /\ toClient'[c] = <<>> /\ toServer' = toServer
      /\ client'[c] \in {"idle", "ended"} /\ file[c] \in Files
  BY DEF AllLockStep, OneUnderWay, TypeOK, Finish
<1>2. Sent(c)' = {}
  BY <1>1 DEF Sent
<1>3. ASSUME disk' # disk PROVE Got(c)
  <2>1. /\ command[c] = "get" /\ Head(toClient[c]) # Error
        /\ \/ disk' = [disk EXCEPT ![c][file[c]] = Head(toClient[c])]
           \/ disk' = [disk EXCEPT ![c][file[c]] = Cut]
    BY <1>3 DEF Finish
  <2>2. client[c] = "sent"
    BY <2>1 DEF Conversation, NameIsAwaited
  <2>3. Head(toClient[c]) = FileOnServer(file[c])
    BY <2>1, <2>2 DEF Conversation, AnswerIsMeant
  <2> QED
    BY <2>1, <2>3 DEF FileOnServer, Got
<1>4. WholeFiles(c)'
  <2>1. disk[c] \in [Files -> Contents \cup {None}] /\ serverDisk' \in [Texts -> Contents \cup {None}]
    BY DEF Conversation, WholeFiles, serverVars
  <2>2. CASE disk' = disk
    BY <2>1, <2>2 DEF WholeFiles
  <2>3. CASE disk' # disk
    <3>1. PICK t \in {serverDisk[file[c]], Cut} : disk' = [disk EXCEPT ![c][file[c]] = t]
      BY <1>3, <2>3 DEF Got
    <3>2. disk'[c] = [disk[c] EXCEPT ![file[c]] = t]
      BY <3>1 DEF TypeOK
    <3>3. t \in Contents \cup {None}
      BY <1>1, ProtocolTexts DEF Conversation, WholeFiles, FtpAssumption
    <3> QED
      BY <2>1, <3>2, <3>3 DEF WholeFiles
  <2> QED
    BY <2>2, <2>3
<1>5. NameIsAwaited(c)'
  BY <1>1 DEF NameIsAwaited, serverVars
<1>6. SentIsExpected(c)' /\ AnswerIsMeant(c)'
  BY <1>1, <1>2 DEF SentIsExpected, AnswerIsMeant, Answered
<1>7. command[c] = "put" => StoredAtItsEnd(c)
  BY DEF Conversation, AnswerIsMeant, StoredAtItsEnd
<1> QED
  BY <1>3, <1>4, <1>5, <1>6, <1>7 DEF Conversation

\* What a client does with a response.
LEMMA ConversationHeard ==
    ASSUME FtpAssumption, TypeOK, AllLockStep, NEW c \in Clients, Conversation(c),
           Hear(c) \/ HearResult(c)
    PROVE  /\ Conversation(c)'
           /\ disk' = disk \/ Got(c)
           /\ command[c] = "put" => StoredAtItsEnd(c)
<1>1. /\ Answered(c) /\ toClient' = [toClient EXCEPT ![c] = Tail(@)]
      /\ UNCHANGED <<serverVars, command, file>>
  BY DEF Hear, HearResult, Answered
<1>2. AnswerIsMeant(c) /\ NameIsAwaited(c)
  BY DEF Conversation
<1>3. CASE Hear(c) /\ Head(toClient[c]) = Request
  <2>1. /\ client[c] = "sent" /\ ToServer(c, file[c]) /\ client'[c] = "named" /\ disk' = disk
    BY <1>3 DEF Hear, TypeOK
  <2>2. server = "name"
    BY <1>1, <1>2, <1>3, <2>1 DEF AnswerIsMeant
  <2>3. Sent(c) = {} /\ toClient'[c] = <<>> /\ file[c] \in Texts
    BY <1>1, ProtocolTexts DEF AllLockStep, OneUnderWay, TypeOK
  <2>4. \A i \in Sent(c)' : toServer'[i].text = file[c]
    BY <2>1, <2>3, SentText
  <2>5. NameIsAwaited(c)'
    BY <1>1, <1>2, <2>1, <2>2 DEF NameIsAwaited, serverVars
  <2>6. SentIsExpected(c)'
    BY <1>1, <2>1, <2>2, <2>4 DEF SentIsExpected, serverVars
  <2>7. AnswerIsMeant(c)'
    BY <2>3 DEF AnswerIsMeant, Answered
  <2>8. WholeFiles(c)'
    BY <1>1, <2>1 DEF Conversation, WholeFiles, serverVars
  <2> QED
    BY <2>1, <2>5, <2>6, <2>7, <2>8 DEF Conversation, StoredAtItsEnd
<1>4. CASE Hear(c) /\ Head(toClient[c]) # Request
  <2>1. client[c] = "sent" /\ Finish(c, Head(toClient[c]))
    BY <1>4 DEF Hear
  <2>2. server # "name"
    BY <1>1, <1>2, <1>4, <2>1 DEF AnswerIsMeant
  <2> QED
    BY <1>1, <2>1, <2>2, ConversationFinished
<1>5. CASE HearResult(c)
  <2>1. client[c] = "named" /\ Finish(c, Head(toClient[c]))
    BY <1>5 DEF HearResult
  <2>2. server # "name"
    BY <1>1, <1>2, <2>1 DEF AnswerIsMeant
  <2> QED
    BY <1>1, <2>1, <2>2, ConversationFinished
<1> QED
  BY <1>3, <1>4, <1>5

\* The server answers the only client that has typed commands.
LEMMA ConversationServed ==
    ASSUME FtpAssumption, Request \notin Contents, TypeOK, AllLockStep, Conversations,
           NEW c \in Clients, Alone(c), ServeCommand
    PROVE  Conversation(c)'
<1> DEFINE t == Head(toServer).text
<1>1. Conversation(c) /\ toServer # <<>> /\ server = "command" /\ t \in Texts
  BY ServerHead DEF Conversations, ServeCommand
<1>2. /\ Head(toServer).from = c /\ 1 \in Sent(c) /\ \A i \in Sent(c) : i = 1
      /\ toServer[1].text = t /\ toClient[c] = <<>>
  BY <1>1, HeadIsItsOwn
<1>3. client[c] = "sent" /\ t = CommandText(c)
  BY <1>1, <1>2 DEF Conversation, SentIsExpected
<1>4. /\ ToClient(c, Response(t))
      /\ server' = IF t = ExitText THEN "ended" ELSE IF IsPut(t) THEN "name" ELSE "command"
      /\ buffer' = IF IsPut(t) THEN t ELSE buffer
      /\ toServer' = <<>> \/ toServer' = Tail(toServer)
      /\ UNCHANGED <<serverDisk, client, command, file, disk>>
  BY <1>2 DEF ServeCommand, clientVars
<1>5. Sent(c)' = {}
  <2>1. CASE toServer' = <<>>
    BY <2>1 DEF Sent
  <2>2. CASE toServer' = Tail(toServer)
    BY <1>1, <1>2, <2>2, SentTaken
  <2> QED
    BY <1>4, <2>1, <2>2
<1>6. server' = "name" <=> IsPut(t)
  BY <1>4 DEF IsPut
<1>7. command[c] \in {"get", "put", "ls", "exit"} /\ file[c] \in Files
  BY <1>1, <1>3 DEF Conversation, NameIsAwaited, TypeOK
<1>8. IsPut(t) => command[c] = "put" /\ t = disk[c][file[c]]
  BY <1>3, <1>7 DEF IsPut, CommandText
<1>9. /\ command[c] = "get" => t = GetText[file[c]]
      /\ command[c] = "put" => t = disk[c][file[c]]
  BY <1>3 DEF CommandText
<1> HIDE DEF t
<1>10. /\ Response(t) = Request <=> IsPut(t)
       /\ command[c] = "get" => Response(t) = FileOnServer(file[c])
  BY <1>1, <1>7, <1>9, OnlyAPutIsAsked DEF Conversation, WholeFiles
<1>11. toClient'[c] = <<>> \/ toClient'[c] = <<Response(t)>>
  BY <1>2, <1>4 DEF ToClient, TypeOK
<1>12. AnswerIsMeant(c)'
  <2>1. Head(<<Response(t)>>) = Response(t)
    OBVIOUS
  <2>2. FileOnServer(file[c])' = FileOnServer(file[c])
    BY <1>4 DEF FileOnServer
  <2>3. command[c] = "put" /\ IsPut(disk[c][file[c]]) => Response(t) = Request
    BY <1>9, <1>10
  <2>4. IsPut(disk[c][file[c]])' = IsPut(disk[c][file[c]])
    BY <1>4 DEF IsPut
  <2> QED
    BY <1>3, <1>4, <1>6, <1>10, <1>11, <2>1, <2>2, <2>3, <2>4 DEF AnswerIsMeant, Answered
<1>13. NameIsAwaited(c)'
  BY <1>1, <1>3, <1>4, <1>6, <1>8 DEF Conversation, NameIsAwaited
<1>14. WholeFiles(c)' /\ SentIsExpected(c)'
  BY <1>1, <1>4, <1>5 DEF Conversation, WholeFiles, SentIsExpected
<1> QED
  BY <1>12, <1>13, <1>14 DEF Conversation

\* A put stores what the client has, or falls short and does not say success.
Stored(c) ==
    /\ command[c] = "put" /\ client[c] = "named" /\ UNCHANGED disk
    /\ \/ serverDisk' = [serverDisk EXCEPT ![file[c]] = disk[c][file[c]]]
       \/ serverDisk' = [serverDisk EXCEPT ![file[c]] = Cut] /\ toClient'[c] # <<Success>>

\* The name of its file ends its put.
LEMMA ConversationNamed ==
    ASSUME FtpAssumption, TypeOK, AllLockStep, Conversations,
           NEW c \in Clients, Alone(c), ServeName
    PROVE  Conversation(c)' /\ Stored(c)
<1>1. Conversation(c) /\ toServer # <<>> /\ server = "name"
  BY DEF Conversations, ServeName
<1>2. /\ Head(toServer).from = c /\ 1 \in Sent(c) /\ \A i \in Sent(c) : i = 1
      /\ toServer[1] = Head(toServer) /\ toClient[c] = <<>>
  BY <1>1, HeadIsItsOwn
<1>3. client[c] = "named" /\ Head(toServer).text = file[c]
  BY <1>1, <1>2 DEF Conversation, SentIsExpected
<1>4. command[c] = "put" /\ buffer = disk[c][file[c]]
  BY <1>1 DEF Conversation, NameIsAwaited
<1>5. /\ toServer' = Tail(toServer) /\ server' = "command"
      /\ UNCHANGED <<client, command, file, disk>>
  BY DEF ServeName, clientVars
<1>6. PICK text \in {Success, Failure} :
         WriteFile(file[c], disk[c][file[c]], text) /\ ToClient(c, text)
  BY <1>2, <1>3, <1>4 DEF ServeName
<1>7. Sent(c)' = {}
  BY <1>1, <1>2, <1>5, SentTaken
<1>8. disk[c][file[c]] \in Contents \cup {None} /\ file[c] \in Texts
  BY <1>1, ProtocolTexts DEF Conversation, WholeFiles, TypeOK
<1>9. WholeFiles(c)'
  BY <1>1, <1>5, <1>6, <1>8 DEF Conversation, WholeFiles, WriteFile, FtpAssumption
<1>10. toClient'[c] = <<>> \/ toClient'[c] = <<text>>
  BY <1>2, <1>6 DEF ToClient, TypeOK
<1>11. Head(<<text>>) = text /\ (<<text>> = <<Success>> => text = Success) /\ <<>> # <<Success>>
  OBVIOUS
<1>12. \/ /\ text = Success
          /\ serverDisk' = [serverDisk EXCEPT ![file[c]] = disk[c][file[c]]]
       \/ /\ text = Failure /\ text # Success
          /\ serverDisk' = [serverDisk EXCEPT ![file[c]] = Cut]
  BY <1>6 DEF WriteFile, FtpAssumption
<1>13. Stored(c)
  BY <1>3, <1>4, <1>5, <1>10, <1>11, <1>12 DEF Stored
<1>14. AnswerIsMeant(c)'
  <2>1. text = Failure \/ serverDisk'[file[c]] = disk[c][file[c]]
    BY <1>1, <1>8, <1>12 DEF Conversation, WholeFiles
  <2> QED
    BY <1>3, <1>5, <1>10, <1>11, <2>1 DEF AnswerIsMeant, Answered
<1>15. NameIsAwaited(c)' /\ SentIsExpected(c)'
  BY <1>3, <1>4, <1>5, <1>7 DEF NameIsAwaited, SentIsExpected
<1> QED
  BY <1>9, <1>13, <1>14, <1>15 DEF Conversation

\* The server that falls leaves the client without an answer.
LEMMA ConversationFallen ==
    ASSUME TypeOK, AllLockStep, Conversations, NEW c \in Clients, Alone(c), Fall
    PROVE  Conversation(c)'
<1>1. Conversation(c) /\ toServer # <<>> /\ server = "name" /\ Sent(c)' = {}
  BY DEF Conversations, Fall, Sent
<1>2. toClient[c] = <<>>
  BY <1>1, HeadIsItsOwn
<1>3. /\ server' = "ended"
      /\ UNCHANGED <<toClient, buffer, serverDisk, client, command, file, disk>>
  BY DEF Fall, clientVars
<1>4. NameIsAwaited(c)' /\ SentIsExpected(c)' /\ AnswerIsMeant(c)'
  BY <1>1, <1>2, <1>3 DEF Conversation, NameIsAwaited, SentIsExpected, AnswerIsMeant, Answered
<1> QED
  BY <1>1, <1>3, <1>4 DEF Conversation, WholeFiles

\* Typing is what ends that a client has typed nothing, and that another is
\* alone.
LEMMA TypedByOne ==
    ASSUME TypeOK, NEW e \in Clients, NEW what \in {"get", "put", "ls", "exit"}, NEW f, NEW t,
           Type(e, what, f, t), NEW c \in Clients, Alone(c)'
    PROVE  c = e /\ Alone(c)
<1>1. command' = [command EXCEPT ![e] = what]
  BY DEF Type
<1>2. command'[e] # "none" /\ \A d \in Clients \ {e} : command'[d] = command[d]
  BY <1>1 DEF TypeOK
<1> QED
  BY <1>2 DEF Alone

\* A typed command preserves the conversations.
LEMMA ConversationsTyped ==
    ASSUME TypeOK, AllLockStep, Conversations, NEW e \in Clients,
           NEW what \in {"get", "put", "ls", "exit"}, NEW f \in Files, NEW t \in Texts,
           Type(e, what, f, t),
           t = CASE what = "get" -> GetText[f] [] what = "put" -> disk[e][f]
                 [] what = "ls" -> Ls [] OTHER -> ExitText
    PROVE  Conversations'
<1> SUFFICES ASSUME NEW c \in Clients
             PROVE  /\ command'[c] = "none" => client'[c] = "idle"
                    /\ Alone(c)' => Conversation(c)'
  BY DEF Conversations
<1>1. command'[c] = "none" => client'[c] = "idle"
  BY DEF Type, TypeOK, Conversations
<1>2. ASSUME Alone(c)' PROVE Conversation(c)'
  <2>1. c = e /\ Alone(c)
    BY <1>2, TypedByOne
  <2>2. Conversation(c)
    BY <2>1 DEF Conversations
  <2> QED
    BY <2>1, <2>2, ConversationTyped
<1> QED
  BY <1>1, <1>2

\* A heard response is for the one that has typed.
LEMMA HeardByOne ==
    ASSUME AllLockStep, Conversations, NEW e \in Clients, Hear(e) \/ HearResult(e)
    PROVE  /\ command[e] # "none"
           /\ \A c \in Clients : Alone(c) => c = e
<1>1. Answered(e)
  BY DEF Hear, HearResult, Answered
<1>2. client[e] # "idle"
  BY <1>1 DEF AllLockStep, OneUnderWay, Waits
<1> QED
  BY <1>2 DEF Conversations, Alone

LEMMA ConversationsInit == FtpAssumption /\ Init => Conversations
<1> SUFFICES ASSUME FtpAssumption, Init, NEW c \in Clients
             PROVE  client[c] = "idle" /\ Conversation(c)
  BY DEF Conversations
<1>1. client[c] = "idle" /\ Sent(c) = {} /\ ~Answered(c) /\ server = "command"
  BY DEF Init, Sent, Answered
<1>2. WholeFiles(c)
  <2>1. PICK d \in [Files -> Contents \cup {None}] :
           serverDisk = [t \in Texts |-> IF t \in Files THEN d[t] ELSE None]
    BY DEF Init
  <2>2. serverDisk \in [Texts -> Contents \cup {None}]
    BY <2>1
  <2> QED
    BY <2>2 DEF Init, WholeFiles
<1> QED
  BY <1>1, <1>2 DEF Conversation, NameIsAwaited, SentIsExpected, AnswerIsMeant

\* What a step does to the disks and to a put while one client types alone.
Lone ==
    \A c \in Clients : Alone(c) =>
        /\ WholeTransfer(c)
        /\ command[c] = "put" => StoredAtItsEnd(c)

\* A step that neither touches the disks nor ends a command.
LEMMA NothingEnds ==
    ASSUME UNCHANGED <<serverDisk, disk>>,
           \A c \in Clients : client'[c] = "idle" => client[c] = "idle"
    PROVE  Lone
BY DEF Lone, WholeTransfer, StoredAtItsEnd

\* Every step keeps the conversations, and transfers a whole file or nothing.
LEMMA ConversationsStep ==
    ASSUME FtpAssumption, Request \notin Contents,
           TypeOK, AllLockStep, Conversations, [Next]_vars
    PROVE  Conversations' /\ Lone
<1>1. CASE UNCHANGED vars
  <2>1. Conversations'
    BY <1>1 DEF vars, serverVars, clientVars, Conversations, Alone, Conversation, WholeFiles,
                NameIsAwaited, SentIsExpected, AnswerIsMeant, Answered, Sent, CommandText, FileOnServer
  <2> QED
    BY <1>1, <2>1, NothingEnds DEF vars, serverVars, clientVars
<1>2. CASE ServeCommand
  <2>1. UNCHANGED <<serverDisk, clientVars>>
    BY <1>2 DEF ServeCommand
  <2>2. ASSUME NEW c \in Clients, Alone(c)' PROVE Conversation(c)'
    BY <1>2, <2>1, <2>2, ConversationServed DEF Alone, clientVars
  <2>3. Conversations'
    BY <2>1, <2>2 DEF Conversations, clientVars
  <2> QED
    BY <2>1, <2>3, NothingEnds DEF clientVars
<1>3. CASE ServeName
  <2>1. UNCHANGED clientVars
    BY <1>3 DEF ServeName
  <2>2. ASSUME NEW c \in Clients, Alone(c)' PROVE Conversation(c)'
    BY <1>3, <2>1, <2>2, ConversationNamed DEF Alone, clientVars
  <2>3. Conversations'
    BY <2>1, <2>2 DEF Conversations, clientVars
  <2>4. ASSUME NEW c \in Clients, Alone(c) PROVE WholeTransfer(c) /\ StoredAtItsEnd(c)
    <3>1. Stored(c) /\ client' = client
      BY <1>3, <2>1, <2>4, ConversationNamed DEF clientVars
    <3> QED
      BY <3>1 DEF Stored, WholeTransfer, StoredAtItsEnd
  <2> QED
    BY <2>3, <2>4 DEF Lone
<1>10. CASE Fall
  <2>1. UNCHANGED <<serverDisk, clientVars>>
    BY <1>10 DEF Fall
  <2>2. ASSUME NEW c \in Clients, Alone(c)' PROVE Conversation(c)'
    BY <1>10, <2>1, <2>2, ConversationFallen DEF Alone, clientVars
  <2>3. Conversations'
    BY <2>1, <2>2 DEF Conversations, clientVars
  <2> QED
    BY <2>1, <2>3, NothingEnds DEF clientVars
<1>4. ASSUME NEW e \in Clients, Hear(e) \/ HearResult(e)
      PROVE  Conversations' /\ Lone
  <2>1. command[e] # "none" /\ \A c \in Clients : Alone(c) => c = e
    BY <1>4, HeardByOne
  <2>2. UNCHANGED <<serverVars, command>>
    BY <1>4 DEF Hear, HearResult
  <2>3. \A c \in Clients \ {e} : client'[c] = client[c]
    BY <1>4 DEF Hear, HearResult, Finish, TypeOK
  <2>4. ASSUME Alone(e)
        PROVE  /\ Conversation(e)'
               /\ disk' = disk \/ Got(e)
               /\ command[e] = "put" => StoredAtItsEnd(e)
    <3>1. Conversation(e)
      BY <2>4 DEF Conversations
    <3> QED
      BY <1>4, <3>1, ConversationHeard
  <2>5. \A c \in Clients : Alone(c)' = Alone(c)
    BY <2>2 DEF Alone
  <2>6. Conversations'
    BY <2>1, <2>2, <2>3, <2>4, <2>5 DEF Conversations
  <2>7. client[e] # "idle"
    BY <1>4 DEF Hear, HearResult
  <2> QED
    BY <2>1, <2>2, <2>4, <2>6, <2>7 DEF Lone, WholeTransfer, Got, serverVars
<1>5. ASSUME NEW e \in Clients, NEW what \in {"get", "put", "ls", "exit"}, NEW f \in Files,
             NEW t \in Texts, Type(e, what, f, t),
             t = CASE what = "get" -> GetText[f] [] what = "put" -> disk[e][f]
                   [] what = "ls" -> Ls [] OTHER -> ExitText
      PROVE  Conversations' /\ Lone
  <2>1. Conversations'
    BY <1>5, ConversationsTyped
  <2>2. UNCHANGED <<serverDisk, disk>>
    BY <1>5 DEF Type, serverVars
  <2>3. \A c \in Clients : client'[c] = "idle" => client[c] = "idle"
    BY <1>5 DEF Type, TypeOK
  <2> QED
    BY <2>1, <2>2, <2>3, NothingEnds
<1>6. ASSUME NEW e \in Clients, LsCommand(e)
      PROVE  Conversations' /\ Lone
  <2>1. Type(e, "ls", file[e], Ls) /\ file[e] \in Files /\ Ls \in Texts
    BY <1>6, ProtocolTexts DEF LsCommand, TypeOK
  <2> QED
    BY <1>5, <2>1
<1>7. ASSUME NEW e \in Clients, ExitCommand(e)
      PROVE  Conversations' /\ Lone
  <2>1. Type(e, "exit", file[e], ExitText) /\ file[e] \in Files /\ ExitText \in Texts
    BY <1>7, ProtocolTexts DEF ExitCommand, TypeOK
  <2> QED
    BY <1>5, <2>1
<1>8. ASSUME NEW e \in Clients, NEW f \in Files, Get(e, f)
      PROVE  Conversations' /\ Lone
  <2>1. Type(e, "get", f, GetText[f]) /\ GetText[f] \in Texts
    BY <1>8, ProtocolTexts DEF Get
  <2> QED
    BY <1>5, <2>1
<1>9. ASSUME NEW e \in Clients, NEW f \in Files, Put(e, f)
      PROVE  Conversations' /\ Lone
  <2>1. Type(e, "put", f, disk[e][f]) /\ disk[e][f] \in Texts
    BY <1>9 DEF Put, TypeOK
  <2> QED
    BY <1>5, <2>1
<1> QED
  BY <1>1, <1>2, <1>3, <1>4, <1>6, <1>7, <1>8, <1>9, <1>10 DEF Next

\* Every step of the specification is one of these.
LEMMA LoneSteps ==
    ASSUME Request \notin Contents
    PROVE  Spec => [][Lone]_vars
<1>1. Init => TypeOK /\ AllLockStep /\ Conversations
  BY TypeInit, LockStepInit, ConversationsInit, FtpAssumption
<1>2. TypeOK /\ AllLockStep /\ Conversations /\ [Next]_vars
          => (TypeOK /\ AllLockStep /\ Conversations)'
  BY TypeStep, LockStepStep, ConversationsStep, FtpAssumption
<1>3. TypeOK /\ AllLockStep /\ Conversations /\ [Next]_vars => [Lone]_vars
  BY ConversationsStep, FtpAssumption
<1> QED
  BY <1>1, <1>2, <1>3, PTL DEF Spec

\* As long as one client only has typed commands, and no file reads like the
\* server's request for a name, the disks change by a get or a put of one
\* whole file, or of one that fell short, whatever is lost and whatever else
\* the files read like (udp_client.c:73-106, 165-183, udp_server.c:108-168).
THEOREM TransfersHold ==
    ASSUME Request \notin Contents
    PROVE  Spec => Transfers
<1>1. [Lone]_vars => [\A c \in Clients : Alone(c) /\ command[c] # "none" => WholeTransfer(c)]_vars
  BY DEF Lone
<1> QED
  BY <1>1, LoneSteps, PTL DEF Transfers

\* Under the same condition a put comes to its end only when the server holds
\* the file as it was, or has reported the failure, unless the file reads like
\* a command (udp_client.c:137-163, udp_server.c:136-168).
THEOREM PutStoresHolds ==
    ASSUME Request \notin Contents
    PROVE  Spec => PutStores
<1>1. [Lone]_vars => [\A c \in Clients : Alone(c) /\ command[c] = "put" => StoredAtItsEnd(c)]_vars
  BY DEF Lone
<1> QED
  BY <1>1, LoneSteps, PTL DEF PutStores
=============================================================================
