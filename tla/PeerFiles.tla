----------------------------- MODULE PeerFiles -----------------------------
(***************************************************************************)
(* The peer file system of netSys/pa4: the processes of client_PFS.c with  *)
(* the server of FileServer.  A client asks the server for names only;     *)
(* files go from client to client, and get waits for its file in a recv    *)
(* during which the client does nothing else.                              *)
(***************************************************************************)
EXTENDS FileServer, FiniteSets

CONSTANTS
    Port,          \* Port[p]: the port p gets if it gets one nobody has had
    Long,          \* files that do not fit one segment of a TCP stream
    Unset,         \* no list received: masterListSize is not initialised
    MaxCommands,   \* bound: ls and get commands typed in all
    MaxKills       \* bound: clients that end without 'exit'

ASSUME PortAssumption ==
    /\ DOMAIN Port = Procs
    /\ \A p, q \in Procs : Port[p] = Port[q] => p = q

VARIABLES
    port,       \* where each process listens, or did
    view,       \* each client's masterFileList
    getQ,       \* the connections to each client's getSock that it has not
                \* answered, with the file each is for and whether it is named
    getting,    \* the port and the file of the get a client is in
    reply,      \* what came back on that connection
    dir,        \* what each client's directory holds for a file
    commands,   \* commands typed so far
    kills

clientVars == <<port, view, getQ, getting, reply, dir, commands, kills>>
vars == <<serverVars, toServer, toClient, pc, clientVars>>

Files == UNION {ToSet(Shared[p]) : p \in Procs}
NoPort == Unset
NoGet == [port |-> NoPort, file |-> NoFile]

Init ==
    /\ ServerInit
    /\ pc = [p \in Procs |-> "off"]
    /\ port = [p \in Procs |-> NoPort]
    /\ view = [p \in Procs |-> Unset]
    /\ getQ = [p \in Procs |-> <<>>]
    /\ getting = [p \in Procs |-> NoGet]
    /\ reply = [p \in Procs |-> "none"]
    /\ dir = [p \in Procs |-> [f \in Files |->
                 IF f \in ToSet(Shared[p]) THEN "whole" ELSE "none"]]
    /\ commands = 0
    /\ kills = 0

-----------------------------------------------------------------------------

\* q has a connection to p that p has not answered.
Reaches(q, p) ==
    /\ pc[q] \in {"naming", "getting"}
    /\ reply[q] = "none"
    /\ \E i \in DOMAIN getQ[p] : getQ[p][i].from = q

\* q waits in a get that p has not answered.
WaitsFor(q, p) == pc[q] = "getting" /\ Reaches(q, p)

\* p's process ends.  Its sockets close: what is not read of its stream is
\* gone, the connections that p has not answered are reset, and those that
\* have no data it has not read, closed, end with nothing.  Its variables are
\* gone with it.
EndIn(p, how, closed) ==
    /\ pc' = [pc EXCEPT ![p] = how]
    /\ view' = [view EXCEPT ![p] = Unset]
    /\ getQ' = [getQ EXCEPT ![p] = <<>>]
    /\ getting' = [getting EXCEPT ![p] = NoGet]
    /\ reply' = [q \in Procs |->
           CASE q = p -> "none"
             [] q # p /\ Reaches(q, p) -> IF q \in closed THEN "empty" ELSE "reset"
             [] OTHER -> reply[q]]
    /\ toClient' = [toClient EXCEPT ![p] = <<>>]

\* The clients that p has accepted and that have not sent a name.
Unnamed(p) ==
    {q \in Procs : /\ pc[p] = "serving" /\ pc[q] = "naming"
                   /\ getQ[p] # <<>> /\ Head(getQ[p]).from = q}

EndAs(p, how) == EndIn(p, how, Unnamed(p))

Send(p, command, rows) ==
    toServer' = [toServer EXCEPT ![p] =
        IF conn[p] \in {"backlog", "open", "reset"}
        THEN Append(@, [command |-> command, rows |-> rows]) ELSE @]

\* fillList: one row for each file; without files the name in the only row is
\* whatever the array holds.
FillList(p, n) ==
    IF Shared[p] # <<>>
    THEN {[i \in DOMAIN Shared[p] |-> Entry(Shared[p][i], Name[p], n)]}
    ELSE {<<Entry(f, Name[p], n)>> : f \in {NoFile, Junk}}

Listens(p, n) == Alive(p) /\ port[p] = n

\* The system may give p a new port, or one whose process has ended.
FreePorts(p) ==
    {Port[p]} \cup {n \in {port[q] : q \in Procs} \ {NoPort} : \A q \in Procs : ~Listens(q, n)}

\* connect, listen on any free port, send 'a'.
Start(p) ==
    /\ pc[p] = "off"
    /\ server = "up"
    /\ pc' = [pc EXCEPT ![p] = "idle"]
    /\ conn' = [conn EXCEPT ![p] = "backlog"]
    /\ \E n \in FreePorts(p) :
        /\ port' = [port EXCEPT ![p] = n]
        /\ \E rows \in FillList(p, n) :
               toServer' = [toServer EXCEPT ![p] = <<[command |-> "a", rows |-> rows]>>]
    /\ UNCHANGED <<list, server, toClient, view, getQ, getting, reply, dir, commands, kills>>

Rows(m) == IF m = Rejection THEN <<>> ELSE m

\* The first n messages from the server as one: a single byte is a
\* rejection, anything else is taken for the list.
Hear(p) ==
    /\ pc[p] = "idle"
    /\ \E n \in 1..Min({MaxCoalesce, Len(toClient[p])}) :
        IF n = 1 /\ toClient[p][1] = Rejection
        THEN EndAs(p, "rejected")
        ELSE /\ view' = [view EXCEPT ![p] =
                    FlattenSeq([i \in 1..n |-> Rows(toClient[p][i])])]
             /\ toClient' = [toClient EXCEPT ![p] = SubSeq(@, n + 1, Len(@))]
             /\ UNCHANGED <<pc, getQ, getting, reply>>
    /\ UNCHANGED <<port, serverVars, toServer, dir, commands, kills>>

ServerClosed(p) == server = "killed" \/ conn[p] \in {"byReject", "byExit", "byEof"}

\* recv returns 0.
LoseServer(p) ==
    /\ pc[p] = "idle"
    /\ toClient[p] = <<>>
    /\ ServerClosed(p)
    /\ EndAs(p, "lost")
    /\ UNCHANGED <<port, serverVars, toServer, dir, commands, kills>>

ServerQuiet(p) == pc[p] = "idle" /\ toClient[p] = <<>> /\ ~ServerClosed(p)

\* Another client's connection, accepted when the server is silent; the recv
\* that follows waits for the name.
AcceptGet(p) ==
    /\ ServerQuiet(p)
    /\ getQ[p] # <<>>
    /\ pc' = [pc EXCEPT ![p] = "serving"]
    /\ UNCHANGED <<port, serverVars, toServer, toClient, view, getQ, getting, reply, dir, commands, kills>>

\* The file that is opened: the one named, or, when the client has ended
\* without a name and recv returns 0, what the array holds, any file or none.
Opened(p, r) ==
    IF r.named THEN {r.file}
    ELSE IF pc[r.from] = "naming" THEN {} ELSE Files \cup {NoFile}

Has(p, f) == f # NoFile /\ dir[p][f] # "none"

\* The file goes out.  One that is not there is not noticed in time, and its
\* size is asked of a null pointer.
ServeGet(p) ==
    /\ pc[p] = "serving"
    /\ getQ[p] # <<>>
    /\ LET r == Head(getQ[p])
       IN  \E f \in Opened(p, r) :
           \/ /\ Has(p, f)
              /\ getQ' = [getQ EXCEPT ![p] = Tail(@)]
              /\ reply' = IF pc[r.from] = "getting"
                          THEN [reply EXCEPT ![r.from] = dir[p][f]] ELSE reply
              /\ pc' = [pc EXCEPT ![p] = "idle"]
              /\ UNCHANGED <<toClient, view, getting>>
           \/ /\ ~Has(p, f)
              /\ EndIn(p, "crashed", {r.from})
    /\ UNCHANGED <<port, serverVars, toServer, dir, commands, kills>>

\* stdin comes last.
Typed(p) ==
    /\ ServerQuiet(p)
    /\ getQ[p] = <<>>

Command(p) ==
    /\ Typed(p)
    /\ commands < MaxCommands
    /\ commands' = commands + 1
    /\ UNCHANGED kills

Ls(p) ==
    /\ Command(p)
    /\ Send(p, "b", <<Entry(Junk, Junk, Junk)>>)
    /\ UNCHANGED <<port, serverVars, toClient, pc, view, getQ, getting, reply, dir>>

Exit(p) ==
    /\ Typed(p)
    /\ Send(p, "c", <<Entry(Junk, Name[p], Junk)>>)
    /\ EndAs(p, "exited")
    /\ UNCHANGED <<port, serverVars, dir, commands, kills>>

BadCheckFile(p, f, i) ==
    /\ view[p][i].owner # Name[p]
    /\ \E j \in DOMAIN view[p] : view[p][j].file = f /\ view[p][j].owner # Name[p]

\* checkFile: the first row with the file under another client's name.
CheckFile(p, f, i) ==
    /\ view[p][i].file = f /\ view[p][i].owner # Name[p]
    /\ \A j \in 1..(i - 1) : view[p][j].file # f \/ view[p][j].owner = Name[p]

\* get: the row to ask is found in the list the client has at the moment.
Get(p, f) ==
    /\ Command(p)
    /\ view[p] # Unset
    /\ \E i \in DOMAIN view[p] :
        /\ CheckFile(p, f, i)
        /\ view[p][i].port # Junk
        /\ getting' = [getting EXCEPT ![p] = [port |-> view[p][i].port, file |-> f]]
    /\ pc' = [pc EXCEPT ![p] = "asking"]
    /\ UNCHANGED <<port, serverVars, toServer, toClient, view, getQ, reply, dir>>

\* Whoever listens on the port by now gets the connection.
Request(p, q) ==
    getQ' = [getQ EXCEPT ![q] =
        Append(@, [from |-> p, file |-> getting[p].file, named |-> FALSE])]

NoConnection(p) ==
    /\ \A q \in Procs : ~Listens(q, getting[p].port)
    /\ UNCHANGED getQ

BadAsk(p) ==
    /\ pc[p] = "asking"
    /\ (\E q \in Procs : Listens(q, getting[p].port) /\ Request(p, q)) \/ NoConnection(p)
    /\ pc' = [pc EXCEPT ![p] = "naming"]
    /\ UNCHANGED <<port, serverVars, toServer, toClient, view, getting, reply, dir, commands, kills>>

\* Connect to its port, if anyone listens there.
Ask(p) ==
    /\ pc[p] = "asking"
    /\ \/ /\ \E q \in Procs : Listens(q, getting[p].port) /\ Request(p, q)
          /\ pc' = [pc EXCEPT ![p] = "naming"]
          /\ UNCHANGED getting
       \/ /\ NoConnection(p)
          /\ pc' = [pc EXCEPT ![p] = "idle"]
          /\ getting' = [getting EXCEPT ![p] = NoGet]
    /\ UNCHANGED <<port, serverVars, toServer, toClient, view, reply, dir, commands, kills>>

\* p's name for the file arrives where its connection has gone.
Named(p) ==
    [q \in Procs |-> [i \in DOMAIN getQ[q] |->
        [getQ[q][i] EXCEPT !.named = @ \/ getQ[q][i].from = p]]]

\* Send the name and wait.  The send fails on a connection that was reset; it
\* does not on one that the other end has closed.
SendName(p) ==
    /\ pc[p] = "naming"
    /\ \/ /\ reply[p] # "reset"
          /\ getQ' = Named(p)
          /\ pc' = [pc EXCEPT ![p] = "getting"]
          /\ UNCHANGED <<getting, reply>>
       \/ /\ reply[p] = "reset"
          /\ pc' = [pc EXCEPT ![p] = "idle"]
          /\ getting' = [getting EXCEPT ![p] = NoGet]
          /\ reply' = [reply EXCEPT ![p] = "none"]
          /\ UNCHANGED getQ
    /\ UNCHANGED <<port, serverVars, toServer, toClient, view, dir, commands, kills>>

\* What the one recv returns of an answer: all of it, or the first segments.
Received(f, answer) ==
    IF f \in Long /\ answer = "whole" THEN {"whole", "part"} ELSE {answer}

BadWrite(p, content) == dir' = [dir EXCEPT ![p][getting[p].file] = reply[p]]

\* The file is written, whatever recv returned.
Write(p, content) == dir' = [dir EXCEPT ![p][getting[p].file] = content]

GetDone(p) ==
    /\ pc' = [pc EXCEPT ![p] = "idle"]
    /\ getting' = [getting EXCEPT ![p] = NoGet]
    /\ reply' = [reply EXCEPT ![p] = "none"]
    /\ UNCHANGED <<view, getQ, toClient>>

\* -1 for the length of the file writes what follows the buffer, or ends the
\* program.
TakeReply(p) ==
    /\ pc[p] = "getting"
    /\ reply[p] # "none"
    /\ \/ /\ reply[p] # "reset"
          /\ \E content \in Received(getting[p].file, reply[p]) : Write(p, content)
          /\ GetDone(p)
       \/ /\ reply[p] = "reset"
          /\ Write(p, "garbage")
          /\ GetDone(p)
       \/ /\ reply[p] = "reset"
          /\ Write(p, "empty")
          /\ EndAs(p, "crashed")
    /\ UNCHANGED <<port, serverVars, toServer, commands, kills>>

\* The client is ended from outside, without 'exit'.
Kill(p) ==
    /\ Alive(p)
    /\ kills < MaxKills
    /\ kills' = kills + 1
    /\ EndAs(p, "killed")
    /\ UNCHANGED <<port, serverVars, toServer, dir, commands>>

Reacts(p) ==
    \/ Hear(p) \/ LoseServer(p) \/ AcceptGet(p) \/ ServeGet(p)
    \/ Ask(p) \/ SendName(p) \/ TakeReply(p)

Next ==
    \/ ServerNext /\ UNCHANGED clientVars
    \/ \E p \in Procs :
        \/ Start(p) \/ Reacts(p) \/ Ls(p) \/ Exit(p) \/ Kill(p)
        \/ \E f \in Files : Get(p, f)

Spec == Init /\ [][Next]_vars

\* The programs run; nobody has to type anything.
FairSpec ==
    /\ Spec
    /\ \A p \in Procs :
        /\ WF_vars((Accept(p) \/ Serve(p) \/ Hangup(p)) /\ UNCHANGED clientVars)
        /\ WF_vars(Reacts(p))

-----------------------------------------------------------------------------

Ports == {Port[p] : p \in Procs}

Row == [file : Files \cup {NoFile, Junk}, owner : {Name[p] : p \in Procs} \cup {Junk},
        port : Ports \cup {Junk}]

Connection == [from : Procs, file : Files, named : BOOLEAN]

Packet == [command : {"a", "b", "c"}, rows : Seq(Row)]

\* What is not a file, a name, a port or a list is none of them; and a directory
\* has no file twice.
ASSUME ValuesAssumption ==
    /\ \A p \in Procs : Shared[p] \in Seq(Files) /\ IsInjective(Shared[p])
    /\ NoFile \notin Files /\ Junk \notin Files
    /\ Junk \notin Ports /\ Unset \notin Ports
    /\ Junk \notin {Name[p] : p \in Procs}
    /\ Unset \notin Seq(Row) /\ Rejection \notin Seq(Row)

\* Every variable keeps its type.
TypeOK ==
    /\ list \in Seq(Row)
    /\ server \in {"up", "killed"}
    /\ conn \in [Procs -> {"none", "backlog", "open", "reset", "byReject", "byExit", "byEof"}]
    /\ toServer \in [Procs -> Seq(Packet)]
    /\ toClient \in [Procs -> Seq(Seq(Row) \cup {Rejection})]
    /\ view \in [Procs -> Seq(Row) \cup {Unset}]
    /\ getting \in [Procs -> [port : Ports, file : Files] \cup {NoGet}]
    /\ \A p \in Procs : pc[p] \in {"asking", "naming", "getting"} <=> getting[p] # NoGet
    /\ port \in [Procs -> Ports \cup {NoPort}]
    /\ pc \in [Procs -> Ended \cup {"off", "idle", "serving", "asking", "naming", "getting"}]
    /\ getQ \in [Procs -> Seq(Connection)]
    /\ reply \in [Procs -> {"none", "whole", "part", "garbage", "empty", "reset"}]
    /\ dir \in [Procs -> [Files -> {"none", "whole", "part", "garbage", "empty"}]]

\* What a client may put on the list at once.
Offers == [p \in Procs |-> UNION {FillList(p, n) : n \in Ports}]

\* The master list, seen as one shelf for each client name, does what Registry
\* promises, whatever is read together, rejected or left behind: a name on the
\* list is refused, the files of a process come as they are and go together
\* (server_PFS.c:33-60, 175-224, 240-241).
Shelves == INSTANCE Registry WITH
    shelf <- [n \in {Name[p] : p \in Procs} |->
                 Only(list, {e \in ToSet(list) : e.owner = n /\ e.port # Junk})]
ImplementsRegistry == Shelves!Spec

\* The server has taken p's 'a' and not rejected it, and nothing has ended
\* the connection.
Joined(p) ==
    /\ server = "up"
    /\ conn[p] = "open"
    /\ \A i \in DOMAIN toServer[p] : toServer[p][i].command # "a"

\* The files of a joined client are on the list, unless a client of the same
\* name, which can only have come without files, has exited
\* (server_PFS.c:175-224, 240-241).
ListedWhileJoined ==
    \A p \in Procs :
        Joined(p) /\ (\A q \in Procs : Name[q] = Name[p] => conn[q] # "byExit") =>
            \A f \in ToSet(Shared[p]) : \E i \in DOMAIN list : list[i] = Entry(f, Name[p], port[p])

\* The exit of a client, when the server reads it as one, leaves nothing of it
\* on the list; what stands there under its name and port is of a client that
\* has come to both (server_PFS.c:234-241).
ExitUnlists ==
    \A p \in Procs, i \in DOMAIN list :
        conn[p] = "byExit" /\ list[i].owner = Name[p] /\ list[i].port = port[p] =>
            \E q \in Procs \ {p} :
                Name[q] = Name[p] /\ port[q] = port[p] /\ conn[q] # "byExit"

\* The rows that p may have on the list: its files, or one row without.
RowsOf(p) == {p} \X ({1} \cup DOMAIN Shared[p])

Places == UNION {RowsOf(p) : p \in {q \in Procs : conn[q] \in {"open", "reset", "byEof"}}}

\* Clients whose exit the server has not read as one.
Unheard == {p \in Procs : pc[p] = "exited" /\ conn[p] # "byExit"}

\* masterFileList has MAXFILES rows and nothing checks them.  What it must have
\* room for: the files of the clients that are connected or have ended without
\* an exit the server understood, and one row, which nothing removes, for each
\* packet that was read behind a connect packet (server_PFS.c:188-192).
ListBounded ==
    server = "up" => Len(list) <= Cardinality(Places) + commands + Cardinality(Unheard)

\* A joined client has the server's list, or it is on its way as the last
\* message; several read as one leave it at the end of what the client takes
\* for the list.  Only an empty list is never sent (server_PFS.c:195-208,
\* 243-255; client_PFS.c:224-245).
ListArrives ==
    \A p \in Procs :
        Joined(p) /\ Alive(p) /\ list # <<>> =>
            IF toClient[p] # <<>> THEN Last(toClient[p]) = list
            ELSE view[p] # Unset /\ IsSuffix(list, view[p])

\* In the end every client that is ready for commands has the server's list,
\* unless it is empty: none waits for ever for its first list or for a
\* change, also while another's get has it wait for a name
\* (server_PFS.c:175-255; client_PFS.c:216-265).
ListsConverge ==
    \A p \in Procs :
        <>[](pc[p] = "idle" /\ server = "up" /\ list # <<>> =>
                view[p] # Unset /\ IsSuffix(list, view[p]))

\* A request that a client cannot serve, which ends it, can only come to a port
\* that was another's before (client_PFS.c:35-46, 268-281, 334-358).
AskedForOwn ==
    \A p \in Procs : \A i \in DOMAIN getQ[p] :
        ~Has(p, getQ[p][i].file) =>
            \E q \in Procs \ {p} :
                /\ port[q] = port[p] /\ pc[q] \in Ended
                /\ getQ[p][i].file \in ToSet(Shared[q])

\* p is among clients that wait for each other in their gets.
WaitsInCycle(p) ==
    \E S \in SUBSET Procs :
        p \in S /\ \A q \in S : \E r \in S : WaitsFor(q, r)

\* A get ends, also when the other client ends first, before or after it has
\* accepted the connection or read the name, unless the clients wait for each
\* other (client_PFS.c:247-300, 358-386).
GetsEndOrCycle ==
    \A p \in Procs :
        pc[p] \in {"naming", "getting"} ~> pc[p] \notin {"naming", "getting"} \/ WaitsInCycle(p)

\* "File size up to 64kb work" (README.txt:27): no client ends up with a part
\* of a file (client_PFS.c:372).
GetsWhole == \A p \in Procs, f \in Files : dir[p][f] # "part"
=============================================================================
