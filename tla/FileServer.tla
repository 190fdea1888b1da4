----------------------------- MODULE FileServer -----------------------------
(***************************************************************************)
(* server_PFS.c of netSys/pa4: it keeps the master file list of all        *)
(* clients and sends it to everyone whenever it changes.  Connections are  *)
(* byte streams, so that one recv may return several packets; only the     *)
(* first one's command counts.                                             *)
(***************************************************************************)
EXTENDS Integers, Sequences, SequencesExt, FiniteSetsExt

CONSTANTS
    Procs,        \* client processes
    Name,         \* Name[p]: the client name p was started with
    Shared,       \* Shared[p]: the files in p's directory, a sequence
    Junk,         \* what is read from memory nobody wrote
    NoFile,       \* the empty file name
    Rejection,    \* the one-byte response "n"
    MaxCoalesce   \* bound: packets that one recv returns

ASSUME FileServerAssumption ==
    /\ DOMAIN Name = Procs /\ DOMAIN Shared = Procs
    /\ IsFiniteSet(Procs)
    /\ MaxCoalesce \in Nat \ {0}

VARIABLES
    list,       \* masterFileList
    server,     \* "up", or "killed" by SIGPIPE
    conn,       \* the server's end of the connection to each process
    toServer,   \* packets sent and not received
    toClient,
    pc          \* where each client process is

serverVars == <<list, server, conn>>

Entry(f, o, n) == [file |-> f, owner |-> o, port |-> n]

Ended == {"rejected", "lost", "exited", "killed", "crashed"}

Alive(p) == pc[p] \notin Ended \cup {"off"}

ServerInit ==
    /\ list = <<>>
    /\ server = "up"
    /\ conn = [p \in Procs |-> "none"]
    /\ toServer = [p \in Procs |-> <<>>]
    /\ toClient = [p \in Procs |-> <<>>]

-----------------------------------------------------------------------------

BadIsClient(name) == list # <<>> /\ list[1].owner = name

\* Is the name already on the master list?
IsClient(name) == \E i \in DOMAIN list : list[i].owner = name

\* The rows that are in the set, in their order, through the array temp.
Only(rows, set) ==
    LET temp[i \in 0..Len(rows)] ==
            IF i = 0 THEN <<>>
            ELSE IF rows[i] \in set THEN Append(temp[i - 1], rows[i]) ELSE temp[i - 1]
    IN  temp[Len(rows)]

BadRemoveFiles(name) ==
    IF list = <<>> THEN list
    ELSE Append(Only(Front(list), {e \in ToSet(list) : e.owner # name}), Last(list))

RemoveFiles(name) == Only(list, {e \in ToSet(list) : e.owner # name})

\* send of a list to the connections in to: nothing goes out of an empty list;
\* the first send to a process that has ended is answered by a reset, and a
\* further one may end the server by SIGPIPE, whoever it has served by then.
SendList(to, sent, at) ==
    \/ /\ server' = "up"
       /\ toClient' = [q \in Procs |->
              IF q \in to /\ Alive(q) /\ sent # <<>> THEN Append(toClient[q], sent)
              ELSE toClient[q]]
       /\ conn' = [q \in Procs |->
              IF q \in to /\ ~Alive(q) /\ sent # <<>> THEN "reset" ELSE at[q]]
    \/ \E served \in SUBSET to :
       /\ \E q \in to : at[q] = "reset"
       /\ server' = "killed"
       /\ toClient' = [q \in Procs |->
              IF q \in served /\ Alive(q) /\ sent # <<>> THEN Append(toClient[q], sent)
              ELSE toClient[q]]
       /\ conn' = [q \in Procs |-> "none"]

BadBroadcast(sent, at, by) ==
    SendList({q \in Procs \ {by} : at[q] \in {"open", "reset"}}, sent, at)

\* ... to every connection, also the one the request came from.
Broadcast(sent, at, by) ==
    SendList({q \in Procs : at[q] \in {"open", "reset"}}, sent, at)

\* A client connects; select reports the listener.
Accept(p) ==
    /\ server = "up"
    /\ conn[p] = "backlog"
    /\ conn' = [conn EXCEPT ![p] = "open"]
    /\ UNCHANGED <<list, server, toServer, toClient, pc>>

BadReject(p) ==
    /\ toClient' = IF Alive(p) THEN [toClient EXCEPT ![p] = Append(@, Rejection)] ELSE toClient
    /\ UNCHANGED <<list, server, conn>>

\* The name is in use: one byte, and the connection is closed.
Reject(p) ==
    /\ toClient' = IF Alive(p) THEN [toClient EXCEPT ![p] = Append(@, Rejection)] ELSE toClient
    /\ conn' = [conn EXCEPT ![p] = "byReject"]
    /\ UNCHANGED <<list, server>>

\* Command 'a': the files join the list, unless the first has no name.
Join(p, rows) ==
    IF IsClient(rows[1].owner)
    THEN Reject(p)
    ELSE /\ list' = IF rows[1].file = NoFile THEN list ELSE list \o rows
         /\ Broadcast(list', conn, p)

\* Command 'b': the list, to the one who asks.
Reply(p) ==
    /\ SendList({p}, list, conn)
    /\ UNCHANGED list

BadDisconnect(p, name) ==
    /\ list' = RemoveFiles(name)
    /\ conn' = [conn EXCEPT ![p] = "byExit"]
    /\ UNCHANGED <<server, toClient>>

\* Command 'c': close, forget the files of that name, tell the others.
Disconnect(p, name) ==
    /\ list' = RemoveFiles(name)
    /\ Broadcast(list', [conn EXCEPT ![p] = "byExit"], p)

\* Data from a client: the first n packets of its stream as one.
Serve(p) ==
    /\ server = "up"
    /\ conn[p] \in {"open", "reset"}
    /\ \E n \in 1..Min({MaxCoalesce, Len(toServer[p])}) :
        LET rows == FlattenSeq([i \in 1..n |-> toServer[p][i].rows])
            command == toServer[p][1].command
        IN  /\ \/ command = "a" /\ Join(p, rows)
               \/ command = "b" /\ Reply(p)
               \/ command = "c" /\ Disconnect(p, rows[1].owner)
            /\ toServer' = [toServer EXCEPT ![p] =
                   IF conn'[p] \in {"open", "reset"} THEN SubSeq(@, n + 1, Len(@)) ELSE <<>>]
    /\ UNCHANGED pc

\* The end of a stream, or an error: the list keeps the client's files.
Hangup(p) ==
    /\ server = "up"
    /\ conn[p] \in {"open", "reset"}
    /\ toServer[p] = <<>>
    /\ ~Alive(p)
    /\ conn' = [conn EXCEPT ![p] = "byEof"]
    /\ UNCHANGED <<list, server, toServer, toClient, pc>>

ServerNext == \E p \in Procs : Accept(p) \/ Serve(p) \/ Hangup(p)
=============================================================================
