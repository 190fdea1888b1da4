-------------------------------- MODULE Ftp --------------------------------
(***************************************************************************)
(* udp_client.c and udp_server.c of netSys/pa1.  Commands, file contents,  *)
(* file names and responses are all datagrams of text: what one is taken   *)
(* for depends on where its receiver is.  A put sends the content first    *)
(* and the name when the server asks for it; nothing is ever sent twice,   *)
(* and no recvfrom times out.                                              *)
(***************************************************************************)
EXTENDS Integers, Sequences, FiniteSets

CONSTANTS
    Clients,
    Files,          \* file names
    Contents,       \* what a file may hold; may include texts of the protocol
    None,           \* no such file
    Ls, ExitText,   \* "ls" and "exit"
    GetText,        \* GetText[f]: "get f"
    Listing, Bye,   \* the responses to them
    Error,          \* "Error opening file on server!"
    Request,        \* "FilenameRequest"
    Success,        \* "File reception success!"
    Failure,        \* "File reception failure!"
    Cut,            \* what a write that falls short leaves of a file
    MaxLoss,        \* bound: datagrams that the network may lose
    MaxCommands     \* bound: commands typed

\* Two texts of "get" differ where their files do, none is another command,
\* and of the fixed responses only the name request reads as one.  A file cut
\* short is a file like any other.
ASSUME FtpAssumption ==
    /\ DOMAIN GetText = Files /\ MaxLoss \in Nat /\ MaxCommands \in Nat
    /\ \A f, g \in Files : GetText[f] = GetText[g] => f = g
    /\ \A f \in Files : GetText[f] \notin {Ls, ExitText}
    /\ Request \notin {Listing, Bye, Error} /\ Success # Failure
    /\ Cut \in Contents

Texts == Files \cup Contents \cup {GetText[f] : f \in Files} \cup
         {Ls, ExitText, Listing, Bye, Error, Request, Success, Failure}

VARIABLES
    toServer,     \* datagrams for the server, with their senders
    toClient,
    server,       \* "command", "name": waits for a file name, or "ended"
    buffer,       \* what it will write under that name
    serverDisk,
    client,       \* "idle", "sent", "named" or "ended"
    command,      \* each client's last command
    file,         \* ... and its file
    disk,
    typed,
    lost

serverVars == <<server, buffer, serverDisk>>
clientVars == <<client, command, file, disk>>
vars == <<toServer, toClient, serverVars, clientVars, typed, lost>>

\* Both programs start in a directory with any files.
Init ==
    /\ toServer = <<>>
    /\ toClient = [c \in Clients |-> <<>>]
    /\ server = "command"
    /\ buffer = None
    /\ \E d \in [Files -> Contents \cup {None}] :
           serverDisk = [t \in Texts |-> IF t \in Files THEN d[t] ELSE None]
    /\ client = [c \in Clients |-> "idle"]
    /\ command = [c \in Clients |-> "none"]
    /\ file \in [Clients -> Files]
    /\ disk \in [Clients -> [Files -> Contents \cup {None}]]
    /\ typed = 0
    /\ lost = 0

-----------------------------------------------------------------------------

\* sendto: the datagram is queued or lost; one for a server that has ended
\* goes nowhere.
ToServer(c, text) ==
    \/ toServer' = (IF server = "ended" THEN toServer
                    ELSE Append(toServer, [from |-> c, text |-> text])) /\ UNCHANGED lost
    \/ lost < MaxLoss /\ lost' = lost + 1 /\ UNCHANGED toServer

ToClient(c, text) ==
    \/ toClient' = [toClient EXCEPT ![c] = Append(@, text)] /\ UNCHANGED lost
    \/ lost < MaxLoss /\ lost' = lost + 1 /\ UNCHANGED toClient

\* A command is typed: the datagram that goes out for it.
Type(c, what, f, text) ==
    /\ client[c] = "idle"
    /\ typed < MaxCommands
    /\ typed' = typed + 1
    /\ ToServer(c, text)
    /\ client' = [client EXCEPT ![c] = "sent"]
    /\ command' = [command EXCEPT ![c] = what]
    /\ file' = [file EXCEPT ![c] = f]
    /\ UNCHANGED <<toClient, serverVars, disk>>

Get(c, f) == Type(c, "get", f, GetText[f])

\* put sends the content; a file that cannot be opened sends nothing.
Put(c, f) == disk[c][f] # None /\ Type(c, "put", f, disk[c][f])

LsCommand(c) == Type(c, "ls", file[c], Ls)

ExitCommand(c) == Type(c, "exit", file[c], ExitText)

\* The end of a command, with the response received last: get writes it,
\* unless it reads as the server's error, and the write may fall short; a file
\* that cannot be opened ends the client, in fwrite.
Finish(c, text) ==
    /\ \/ /\ disk' = IF command[c] = "get" /\ text # Error
                     THEN [disk EXCEPT ![c][file[c]] = text] ELSE disk
          /\ client' = [client EXCEPT ![c] = IF command[c] = "exit" THEN "ended" ELSE "idle"]
       \/ /\ command[c] = "get" /\ text # Error
          /\ \/ disk' = [disk EXCEPT ![c][file[c]] = Cut] /\ client' = [client EXCEPT ![c] = "idle"]
             \/ client' = [client EXCEPT ![c] = "ended"] /\ UNCHANGED disk
    /\ UNCHANGED <<toServer, lost>>

BadHear(c) ==
    /\ client[c] = "sent" /\ toClient[c] # <<>>
    /\ toClient' = [toClient EXCEPT ![c] = Tail(@)]
    /\ IF Head(toClient[c]) = Request
       THEN /\ ToServer(c, file[c])
            /\ client' = [client EXCEPT ![c] = "idle"]
            /\ UNCHANGED disk
       ELSE Finish(c, Head(toClient[c]))
    /\ UNCHANGED <<serverVars, command, file, typed>>

\* The first response: whatever the command was, a request is answered with
\* the file name.
Hear(c) ==
    /\ client[c] = "sent" /\ toClient[c] # <<>>
    /\ toClient' = [toClient EXCEPT ![c] = Tail(@)]
    /\ IF Head(toClient[c]) = Request
       THEN /\ ToServer(c, file[c])
            /\ client' = [client EXCEPT ![c] = "named"]
            /\ UNCHANGED disk
       ELSE Finish(c, Head(toClient[c]))
    /\ UNCHANGED <<serverVars, command, file, typed>>

\* The second one, to a file name.
HearResult(c) ==
    /\ client[c] = "named" /\ toClient[c] # <<>>
    /\ toClient' = [toClient EXCEPT ![c] = Tail(@)]
    /\ Finish(c, Head(toClient[c]))
    /\ UNCHANGED <<serverVars, command, file, typed>>

-----------------------------------------------------------------------------

FileOnServer(f) == IF serverDisk[f] = None THEN Error ELSE serverDisk[f]

BadResponse(text) ==
    IF text = Ls THEN Listing
    ELSE IF \E f \in Files : text = GetText[f]
         THEN serverDisk[CHOOSE f \in Files : text = GetText[f]]
         ELSE Request

\* What the server answers to a text where it expects a command: text that is
\* none is the content of a put.
Response(text) ==
    IF text = Ls THEN Listing
    ELSE IF text = ExitText THEN Bye
    ELSE IF \E f \in Files : text = GetText[f]
         THEN FileOnServer(CHOOSE f \in Files : text = GetText[f])
         ELSE Request

IsPut(text) == text \notin {Ls, ExitText} \cup {GetText[f] : f \in Files}

ServeCommand ==
    /\ server = "command" /\ toServer # <<>>
    /\ LET d == Head(toServer)
       IN  /\ ToClient(d.from, Response(d.text))
           /\ server' = IF d.text = ExitText THEN "ended"
                        ELSE IF IsPut(d.text) THEN "name" ELSE "command"
           /\ buffer' = IF IsPut(d.text) THEN d.text ELSE buffer
           /\ toServer' = IF d.text = ExitText THEN <<>> ELSE Tail(toServer)
    /\ UNCHANGED <<serverDisk, clientVars, typed>>

BadWriteFile(name, content, text) ==
    \/ serverDisk' = [serverDisk EXCEPT ![name] = name] /\ text = Success
    \/ serverDisk' = [serverDisk EXCEPT ![name] = Cut] /\ text = Failure

BadWriteFileReport(name, content, text) ==
    /\ text = Success
    /\ \E c \in {content, Cut} : serverDisk' = [serverDisk EXCEPT ![name] = c]

\* The file is written as a whole, or falls short.
WriteFile(name, content, text) ==
    \/ serverDisk' = [serverDisk EXCEPT ![name] = content] /\ text = Success
    \/ serverDisk' = [serverDisk EXCEPT ![name] = Cut] /\ text = Failure

BadServeName ==
    /\ server = "name" /\ toServer # <<>>
    /\ \E text \in {Success, Failure} : WriteFile(Head(toServer).text, buffer, text)
    /\ toServer' = Tail(toServer)
    /\ server' = "command"
    /\ UNCHANGED <<toClient, lost, buffer, clientVars, typed>>

\* The next datagram is the file name, whoever sent it; the response goes to
\* its sender.
ServeName ==
    /\ server = "name" /\ toServer # <<>>
    /\ LET d == Head(toServer)
       IN  \E text \in {Success, Failure} :
               WriteFile(d.text, buffer, text) /\ ToClient(d.from, text)
    /\ toServer' = Tail(toServer)
    /\ server' = "command"
    /\ UNCHANGED <<buffer, clientVars, typed>>

\* A name that cannot be opened: fwrite is given no stream before fp is
\* compared with NULL, and the server falls.
Fall ==
    /\ server = "name" /\ toServer # <<>>
    /\ server' = "ended"
    /\ toServer' = <<>>
    /\ UNCHANGED <<toClient, lost, buffer, serverDisk, clientVars, typed>>

Next ==
    \/ ServeCommand \/ ServeName \/ Fall
    \/ \E c \in Clients :
        \/ Hear(c) \/ HearResult(c) \/ LsCommand(c) \/ ExitCommand(c)
        \/ \E f \in Files : Get(c, f) \/ Put(c, f)

Spec == Init /\ [][Next]_vars

\* Both programs run; nobody has to type anything.
FairSpec ==
    /\ Spec
    /\ WF_vars(ServeCommand \/ ServeName \/ Fall)
    /\ \A c \in Clients : WF_vars(Hear(c) \/ HearResult(c))

-----------------------------------------------------------------------------

\* Every variable keeps its type.
TypeOK ==
    /\ toServer \in Seq([from : Clients, text : Texts])
    /\ toClient \in [Clients -> Seq(Texts)]
    /\ server \in {"command", "name", "ended"}
    /\ buffer \in Texts \cup {None}
    /\ serverDisk \in [Texts -> Texts \cup {None}]
    /\ client \in [Clients -> {"idle", "sent", "named", "ended"}]
    /\ command \in [Clients -> {"none", "get", "put", "ls", "exit"}]
    /\ file \in [Clients -> Files]
    /\ disk \in [Clients -> [Files -> Texts \cup {None}]]
    /\ typed \in 0..MaxCommands
    /\ lost \in 0..MaxLoss

\* The places of its own datagrams at the server.
Sent(c) == {i \in DOMAIN toServer : toServer[i].from = c}

UnderWay(c) == Cardinality(Sent(c)) + Len(toClient[c])

\* One datagram is under way for a client that waits, its own or the
\* response, and none for any other, however the clients' commands mix at
\* the server; losses and the server's end only take away
\* (udp_client.c:131-163, udp_server.c:67-174).
LockStep ==
    \A c \in Clients :
        /\ UnderWay(c) <= IF client[c] \in {"sent", "named"} THEN 1 ELSE 0
        /\ client[c] \in {"sent", "named"} /\ lost = 0 /\ server # "ended" => UnderWay(c) = 1

\* Without loss, every command comes to an end, or the server has ended
\* (udp_client.c:141, 158).
EveryCommandEnds ==
    \A c \in Clients :
        client[c] = "sent" ~> client[c] \in {"idle", "ended"} \/ server = "ended" \/ lost > 0

\* The others have typed nothing.
Alone(c) == \A d \in Clients \ {c} : command[d] = "none"

\* A step that transfers nothing, or the file of the command as a whole; a
\* put that falls short is not reported as a success.
WholeTransfer(c) ==
    LET f == file[c]
    IN  \/ UNCHANGED <<serverDisk, disk>>
        \/ /\ command[c] = "put" /\ client[c] # "idle"
           /\ \/ serverDisk' = [serverDisk EXCEPT ![f] = disk[c][f]]
              \/ serverDisk' = [serverDisk EXCEPT ![f] = Cut] /\ toClient'[c] # <<Success>>
           /\ UNCHANGED disk
        \/ /\ command[c] = "get" /\ client[c] # "idle" /\ serverDisk[f] # None
           /\ disk' \in {[disk EXCEPT ![c][f] = t] : t \in {serverDisk[f], Cut}}
           /\ UNCHANGED serverDisk

\* As long as one client only has typed commands, the disks change by a get
\* or a put of one whole file, as it was typed, also when a file reads like
\* a command (udp_client.c:73-106, 165-183, udp_server.c:108-168).
Transfers ==
    [][\A c \in Clients : Alone(c) /\ command[c] # "none" => WholeTransfer(c)]_vars

\* When a put comes to an end, its file is on the server as it was, or the
\* failure was reported; only a file that reads like a command is not stored
\* (udp_client.c:102-106, 137-163, udp_server.c:136-168).
StoredAtItsEnd(c) ==
    client[c] # "idle" /\ client'[c] = "idle" /\ IsPut(disk[c][file[c]])
        => serverDisk[file[c]] = disk[c][file[c]] \/ Head(toClient[c]) = Failure

PutStores ==
    [][\A c \in Clients : Alone(c) /\ command[c] = "put" => StoredAtItsEnd(c)]_vars
=============================================================================
