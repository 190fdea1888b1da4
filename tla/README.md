# Verification of the network programs of fall2013

The repository holds the programs of one semester: four assignments of a network
systems course (`src/netSys/`), exercises of a security course (`src/hacking/`) and
a simulation (`src/astr/`). The network programs are concurrent systems of several
processes. This directory models all four assignments, each one whole, down to the
abstractions named below. TLC checks small instances; TLAPS proves theorems for
every instance.

`PROJECT.json` has the machine-readable side: the components, the runs, which
definition stands for which lines (`map`), the hazards of the code with the
properties that cover them, the findings, the theorems, and for every property of
a passing run a plausible fault (a definition whose name starts with `Bad`, next to
the one it would replace) that makes the property fail. Nothing else uses the
`Bad…` definitions.

Contents: [1 Inventory](#1-inventory) · [2 Modules and code](#2-modules-and-code) ·
[3 Runs](#3-runs) · [4 Fairness](#4-fairness) · [5 Proofs](#5-proofs) ·
[6 Findings](#6-findings) · [7 Not modelled](#7-not-modelled) · [8 Plan](#8-plan)

## 1 Inventory

### Sliding-window file transfer: `netSys/pa2`

Two programs over UDP. `GBNclient.c` reads a file, cuts it into blocks of 1024 bytes
and sends them in a window of 6, followed by a final packet that carries no data;
`GBNserver.c` buffers what falls into its window and acknowledges; the final packet ends
its loop, and only after the ack of that packet has gone out does it open and write
the file. Both send through `sendto_.h`, which drops a part
of the datagrams on purpose.

| | |
|---|---|
| state of the client | `lar`, the loop variable of the window, the count of final sends; where it is (sending, in `select`, ended) |
| state of the server | `lfr`, `cumAckWindow`, the receive buffer, the size to write; open, writing, written or failed |
| operations | send a packet, end the window or give up, read an ack, time out; handle a packet (accept or refuse, ack, leave the loop), write the file |
| interaction | datagrams only: packets and acks, which may be lost, repeated and reordered |
| hard | acks that overtake each other, late copies, timeouts racing acks, the server's end before its last ack arrives, an ack that is out before the file is written, the size of the last block, decoding a cumulative ack |
| correct when | neither side believes more than is true of the other; what is received stays; success means the server has all it will write; both end |

### Link-state router: `netSys/pa3`

`routed_LS.c`, one process pair per router. A router reads its links from a file,
connects to every neighbour (connect where the other end already listens, else
listen and accept), then forks: the child sends the router's link-state packet to
every neighbour, over and over, and the parent reads packets, relays them while
their TTL lasts, adds the rows to its table and runs Dijkstra's algorithm on it,
until it has made 15 passes or a neighbour tells it to end.

| | |
|---|---|
| state | per line a socket and its state; the phase of `main`; the streams; the table; the pass counter; in `shortpath` the selected routers, distances, predecessors |
| operations | connect, listen, accept, the check that all are connected; the child's send; the parent's pass: read, age, relay, add, compute, end; one pass of `shortpath` |
| interaction | TCP streams between neighbours, which may return several packets in one `recv` |
| hard | both ends failing to connect before either listens; computing on a table that is still filling; packets read together; rows that outlive a router; neighbours that have ended; an 'X' with rows of an earlier packet behind it |
| correct when | the two ends of a connection agree; a row is as old as its way is long; every table fills; shortest paths are shortest; every parent ends, for its own reason or a neighbour's |

### Peer file system: `netSys/pa4`

`server_PFS.c` keeps the master list of all clients' files. `client_PFS.c` sends its
own list at the start, shows the master list, and gets files directly from other
clients, each of which listens on a port of its own.

| | |
|---|---|
| state of the server | the master list, its connections |
| state of a client | its port, the list last received, the requests waiting at its port, the get it waits in, its directory |
| operations | server: accept, join (or reject a name in use), list, exit, end of stream; client: start, hear a list, accept a get, serve it, `ls`, `get` (connect, send the name, take the answer), `exit` |
| interaction | streams between client and server; a connection per get between clients |
| hard | packets read together, of which only the first one's command counts; names in use, clients without files; a list that is stale when a get goes by it, and ports that have changed hands since; a get in which a client serves nobody; a client that accepts a get and waits for the name; a file that arrives in parts; clients that end without `exit`; SIGPIPE |
| correct when | each name on the list stands for one process; the list holds the joined clients' files and no one else's; changes reach everyone; a get ends |

### File transfer over UDP: `netSys/pa1`

`udp_client.c` and `udp_server.c`: `get`, `put`, `ls`, `exit`, one datagram each way, with
a second round trip for the name of a file that is put.

| | |
|---|---|
| state | whether the server expects a command or a name, its buffer and disk; each client's command and disk |
| operations | type a command; hear the response, or the request for a name; serve a command, serve a name, fall over a name that cannot be opened |
| interaction | datagrams, with no timeout anywhere |
| hard | the name the server waits for may be any client's next datagram; texts that read like a command or a response; a write that falls short; a lost datagram |
| correct when | each wait has exactly one datagram under way, every command ends, and a lone client's commands do what they say |

### The rest

`hacking/` and `astr/` hold small sequential programs without lasting state; the
`final` directories hold copies. See [7](#7-not-modelled).

## 2 Modules and code

| module | stands for |
|---|---|
| `GbnEndpoints` | the two programs of pa2 without a network; each action is one iteration or branch of a `main` |
| `Gbn` | ... over a network that loses, reorders and duplicates; the inductive invariant |
| `GbnFifo` | ... over one that keeps the order and loses up to `MaxLoss`; liveness and delivery |
| `FileTransfer` | the abstract specification of a file transfer, with and without losses |
| `Routing` | the reference definitions for shortest paths and for how `shortpath` can end |
| `ShortPath` | `shortpath`, one action per pass of its loop |
| `LinkSetup` | how the routers connect |
| `LinkState` | a network of routers: `LinkSetup`, then flooding, `shortpath` and the end |
| `FileServer` | `server_PFS.c` and the streams to its clients |
| `Registry` | the abstract specification of the master list: a shelf per client name |
| `PeerFiles` | `client_PFS.c` processes with `FileServer` |
| `Ftp` | both programs of pa1 |
| `MC…` | constants for TLC |
| `…_proofs` | theorems and proofs |

How the state corresponds to the code, where the names do not say it:

**pa2.** `client` is the position in `GBNclient.c`'s `main`: `"sending"` is the loop at
102, `"waiting"` the `select` at 156. `nextSeq` is the loop variable `i`. A payload is the
number of the block it carries, so the buffer is a function of block numbers and
"the file is intact" is `file[b] = b`. The client copies the cumulative ack from `&ack[4]`
although it starts at `&ack[3]` (182), so `DecodeCum` drops the hundreds; the modulus
is a constant, and the proofs hold for every modulus. `HandlePacket` and `Reply` are the
body of the server's loop up to the `sendto_` at GBNserver.c:155; `Finish` takes it out of
the loop, to `"writing"`, and `WriteFile` is a step of its own, in between which the client may
have read the ack and reported success. A file that cannot be opened (fwrite is
given a null pointer before it is compared) and a write that falls short both come to
`"failed"`. `SendTo` is `sendto_`: the datagram
goes out or is dropped. In `GbnFifo` the client times out only while fewer than `Cap`
packets are queued, which bounds the queue and nothing else; a timeout needs an empty
ack queue, because `select` reports a queued ack first.

**pa3.** A socket is `"closed"` before its connect, `"failed"` between the failed `connect` and
`listen` (routed_LS.c:237-240: two system calls, and the gap is where two routers miss
each other), `"pending"` when the other end has connected and `accept` has not been
called. A packet is a sequence of blocks, the rows of one router each; `recv` returns one
packet or several as one (369). `table[r]` is the set of routers whose rows the table
holds. `LinkState` does not repeat the passes of `shortpath`: `ShortPathEnds` looks up
`Routing!Outcome` (in `Outcomes`, which TLC computes once), of which run `ls_shortpath` shows that `ShortPath` comes to exactly
that end. When the table holds a row whose host is no router, or router 0 has no link
in it, the C code indexes out of bounds; the model lets the call return or never
return. The 'X' packet (451) is as long as the packet read last, and only its first byte is set:
its further rows are those the router has relayed last, which `sendBuffer2` keeps, or were
never written (`Kill`). A router without lines is never `AllConnected`: line 133 says so of
it, and it waits in `select` for ever.

**pa4.** A process is in `pc` one of idle (in `select`), serving (in the `recv` of the name a
get will send), asking (about to connect), naming (connected, the name not sent),
getting (in the `recv` of a get), or ended in one of five ways. An entry of `getQ[p]` is a
connection to `p`'s listening socket, with or without the name; when the client ends
before it sends one, `recv` returns 0 and `p` opens whatever name its array holds
(`Opened`). `port[p]` is where it listens: `bind` with port 0 may give
it a port nobody has had or one whose process has ended (`FreePorts`), and a get goes
to whoever listens on the port by now, even the client itself. An answer waits in
`reply` until `recv`, which returns a part of it when the file is `Long`
(`Received`). `conn[p]` is the server's end of its connection; a
send to an ended process turns it into `"reset"`, and a further send may raise SIGPIPE,
which nothing catches: `SendList`'s second alternative, after any part of the broadcast.
`Junk` is what is read from memory nobody wrote: the file name of a client without
files, the fields an `ls` packet does not fill. `Rows` and `FlattenSeq` in `Hear` and `Serve` are
what a `recv` of several packets makes of them.

**pa1.** `server = "name"` is the blocking `recvfrom` at udp_server.c:150. Texts are model
values, and a file may hold a text of the protocol. Each directory may hold any files at
the start. What `fopen` and `fwrite` come to is chosen: the whole file with `Success`; `Cut`, what
a write that falls short leaves, with `Failure`; or a name that cannot be opened, which
ends the server in `fwrite` (158) before the comparison with NULL (`Fall`). The client's own
write of a `get` has the same three ends (177).

## 3 Runs

| run | instance | distinct states | shows |
|---|---|---|---|
| `gbn_safety` | 4 blocks, windows 3 and 2, cumulative acks modulo 4 | 283 322 | the safety invariants and the inductive invariant over an arbitrary network |
| `gbn_fifo` | 5 blocks, the last one partial, 4 losses, limit 3 | 68 436 | acks in order, refinement of `Gbn`, and of `FileTransfer` with its liveness |
| `gbn_incomplete` | the code's constants, 1025 bytes, 1 loss | about 100 | finding 1 |
| `gbn_100k` | the code's constants, 100 KB, 1 loss | 16 194 | finding 2 |
| `ls_shortpath` | 19 683 tables of 4 routers | 86 913 | `shortpath` is right when it returns, and returns, hangs or overruns exactly when `Outcome` says so |
| `ls_flood` | 3 routers in a line, limit 2, 2 packets per `recv`, 2 rows | 43 973 | set-up to end |
| `ls_crossed` | a square with a diagonal | 47 568 | finding 3 |
| `ls_stuck` | 3 routers in a line, the code's limit 15 | about 15 000 | finding 4 |
| `pfs_lists` | 3 processes, two of one name, one without files, ports used again | 1 898 650 | the master list and its distribution, refinement of `Registry`, what a client is asked for |
| `pfs_gets` | 2 processes with a file each, 3 commands | 111 617 | lists converge, gets end or wait in a cycle |
| `pfs_partial` | 2 processes, a file longer than a segment | about 1 900 | finding 5 |
| `ftp` | 2 clients, any files under one name, 4 commands, 1 loss | 592 210 | lock step, endings, what reaches the disks |

Why the bounds are enough:

- *pa2.* A file longer than the send window, so that the window moves, with the send
  window at its largest for the receive window (`SendWindowSize = RecvWindowSize + 1`) in
  `gbn_safety`; there the network may hold every packet and every ack at once and
  deliver each any number of times, so no counter of losses is needed. The modulus is
  below the number of packets, so that late acks are damaged by `DecodeCum` as those of
  a file of a hundred blocks are. The runs have a
  last block that is full or partial in turn. In `gbn_fifo`, `MaxLoss` is more than
  `ClosingLimit`: the client may give up before the server has seen a final packet, and the
  server then waits for ever. `FileTransfer` promises an output only while fewer than
  `Patience = ClosingLimit` datagrams are lost.
- *pa3.* Three routers in a line are the smallest network with a relay and a router that
  is two links away, and the program compiled for three behaves on it as the one
  compiled for six does on six: a router that hears of a far router before it hears of
  the one between has a table in which some router cannot be reached. With six
  rather than three there are more such orders. In the six
  routers of `init.txt`, router E is in that place when A's rows come before C's and D's;
  and in a network with fewer than six routers the compiled program hangs as soon as
  router A has a link in the table. The children send without end, `Cap` packets at most
  being queued on a connection. The limit of 15 passes is 2, so that routers reach it while
  packets are under way; `MaxCoalesce = 2` joins an LSP with an LSP, an 'X' with an LSP
  and an LSP with an 'X', and with `MaxRows = 2` a packet of the middle router that is
  joined with any other exceeds the limit of rows and is dropped, as on `init.txt` a packet
  of D is (385). The
  tables of `ls_shortpath` are chosen so that a detour may beat a link and the sum of
  two finite costs may exceed `INFINITE`. The run has no cycle; what is proved of the flood is proved of
  every network, the one of `init.txt` included.
- *pa4.* Two processes of one name, one of them without files, are what the name
  check can confuse; a third, with files of its own, sees the lists. A third process is
  also the smallest number with a stale row whose port has a new listener, and a client
  that asks there. One `kill` is enough for a row that stays, for a connection that is
  reset, and for one that ends before its name. `MaxCoalesce = 2` puts each pair of packets into one `recv`; with one command the
  master list gets as long as `ListBounded` admits, three rows, and longer in the
  mutant. Gets need two processes, each asking the other; three commands let a client
  whose first get met a reset try again, and let a client that started on the port of
  one that has ended ask itself.
- *pa1.* Two clients, so that one's datagram may arrive where the other's name is
  expected; four commands, so that both act again after such a mix. One file name is
  enough for that, since contents, names and responses are all distinct texts; its
  file may be there or not at each of the three programs, and may read like `ls`. That
  commands keep several names apart is proved.

Deadlock is switched off in every `.cfg`: the programs end, or wait for someone to type.

### What the properties say

The comment above each property states it and names the lines it is about. Those
worth reading first:

- `Gbn!SenderNeverAhead`, `PrefixIntact`, `DoneImpliesFinished`, `ReceivedIsKept`: what old,
  repeated and damaged acks and packets can never bring about. Success means that
  the server has left its loop and will try to write a file of the right size. It does not
  mean that the file is written (the ack goes out first, and the write may fail) nor
  that it is complete (finding 1).
- `GbnFifo!ImplementsFileTransfer`: before the first loss what the server takes *is* the
  source, however late the timeouts and though the ack of the last packet may be what
  is lost next; after a loss each block is the source's or missing; success is reported
  once the server has taken the file, before or after it is written, and is not taken
  back when the write fails. `CompletesFileTransfer` adds
  that both sides end. `ImplementsGbn` carries everything shown of `Gbn` over.
- `LinkSetup!EndsAgree`, `OpenOrCrossed`: connections have two ends at all times, and the
  only way not to get through the set-up is finding 3.
- `LinkState!EndsNextToLimit`: an 'X' goes one link far, also in the company of packets
  it is read with. `TtlCountsHops`: no row is younger than its way is long, those that go
  out again behind an 'X' included. `ParentsEnd`: a parent with a sending neighbour does
  not read for ever, though the passes that drop what they have read are counted and
  cannot end it.
- `LinkState!HangsOnlyIncomplete` with `ShortPath!OutcomeSound`, `OutcomeReached`: when
  exactly `shortpath` does not return; a row that is no link may be its reason too.
- `PeerFiles!ImplementsRegistry`: the rows of a name come all at once, on an empty shelf,
  and go all at once, whatever is read together, rejected or left behind; `ListedWhileJoined`
  and `ExitUnlists` say whose rows they are. `ListBounded` counts what `masterFileList` must
  have room for, rows that nothing ever removes included. `ListArrives` and
  `ListsConverge`: the list on its way, and at the end.
- `AskedForOwn`: a client is asked for a file it does not have, which ends it, only when
  it listens on the port of one that has ended. `GetsEndOrCycle`: the one way a get does
  not end, a client that waits for itself included, whoever ends between its connect,
  its name and its answer.
- `Ftp!LockStep`: one datagram for each client that waits, although the server may take
  one client's datagram for the other's file name. `PutStores`: a lone client's put ends with
  the file on the server or the failure reported, unless the file reads like a command.
- Some properties except what the code gets wrong, rather than catch it: the exit of a
  client without files takes the rows of its namesake (`ListedWhileJoined`), an exit that
  is read behind another packet is lost (`ExitUnlists`, counted in `ListBounded`), the list
  may outgrow its array (`ListBounded` says by which rows), a file that reads like a
  command is not stored (`PutStores`), a client of pa1 waits for ever after a loss
  (`EveryCommandEnds`). They show that nothing else goes wrong in these places; the
  `note` of the hazard says so.

## 4 Fairness

- *pa2.* Weak fairness of each action of `GbnFifo`, the write included. The two processes are scheduled, `select`
  returns after 50 ms at the latest, and a datagram that is queued on the loopback is
  delivered. `Gbn` has no fairness: its network owes nobody a delivery.
- *pa3.* Weak fairness of the set-up and the child of each router: each is a
  process that waits for nothing but data, and `accept`'s and the parent's `select`
  return when there is some. The parent has strong fairness of the pass that reads one
  packet only: a child sleeps five seconds between its rounds, so that again and again a
  parent finds a single packet, and not only joined ones that are dropped. Nothing is
  assumed about the order among routers.
- *pa3, `shortpath`.* Weak fairness of `Next`: a loop that waits for nothing.
- *pa4.* Weak fairness of the server per connection (`select` reports every readable one,
  and a pass of its loop serves all) and of what a client does without being told. None
  for `Start`, commands, `exit` and kills: nobody has to type.
- *pa1.* Weak fairness of the server and of a client's reading. None for commands.

## 5 Proofs

All proofs are checked by `tlapm` 1.4.5 with Z3, Zenon and, for the temporal steps, LS4.

| module | results |
|---|---|
| `SequenceLemmas` | lemmas cited by the other modules: induction over numbers and sequences stated for sets, the existence of recursive functions, `FlattenSeq`, suffixes |
| `GbnEndpoints_proofs` | lemmas on sizes and on the scan for the first missing frame; one lemma for each step of an endpoint |
| `Gbn_proofs` | `Invariance` and, from it, `TypeCorrect`, `SenderNeverAheadHolds`, `NoPacketAboveWindowHolds`, `PrefixIntactHolds`, `DoneImpliesFinishedHolds`, `WindowNeverEmptyHolds`, `ReceivedIsKeptHolds` |
| `GbnFifo_proofs` | `ImplementsGbnHolds`, `AcksInOrderHolds`; `ImplementsFileTransferHolds`: every step of the two programs is a step of `FileTransfer` or shows nothing of itself |
| `ShortPath_proofs` | `Invariance`, `CertifiedHolds`, `ReturnedIsShortestHolds`, `OutcomeSoundHolds` |
| `LinkState_proofs` | set-up: `SetupInvariance`, `EndsAgreeHolds`, `OpenIsConnectedHolds`; flood: `TypeCorrect`, `TtlCountsHopsHolds`, `EndsNextToLimitHolds`, `HangsOnlyIncompleteHolds` |
| `PeerFiles_proofs` | `Invariance` and, from it, `TypeCorrect`, `ListedWhileJoinedHolds`, `ListArrivesHolds`, `ExitUnlistsHolds`, `AskedForOwnHolds`, `ListBoundedHolds`; `ImplementsRegistryHolds` |
| `Ftp_proofs` | `TypeCorrect`, `LockStepHolds`, `TransfersHold`, `PutStoresHolds` |

So every invariant of the runs holds for every value of the constants, and so do the
refinements of `Gbn`, `FileTransfer` and `Registry` and the action properties `ReceivedIsKept`,
`Transfers` and `PutStores`. Each inductive invariant was an
invariant of a run before it was proved.

**Hypotheses.** The assumptions of the modules on their constants (`...Assumption`) are
evaluated by the runs. Three theorems have a hypothesis of their own, which the
instance of the run satisfies and which its `MC` module states where it can:

- `TransfersHold` and `PutStoresHolds`: `Request \notin Contents`, no file reads like the server's request for a
  name. With such a file `Transfers` is false: the client answers a `get` of it with the
  file's name (udp_client.c:148), which the server takes for the content of a `put`.
- `HangsOnlyIncompleteHolds`: `Joined`, every router can be reached from router 0 at a
  cost below `INFINITE`. Without it `shortpath` hangs on a complete table as well.

**`Gbn`.** Assumptions: any file size; a positive block size, modulus and limit; a send
window of at most one more than the receive window (the code has 6 and 9); fewer
packets than `cumAckWindow` has slots, as the server's array demands. The safety
properties are not inductive: that `lar` does not overtake `lfr` rests on what the acks
in flight say, which rests on what the server had when it sent them, which never
shrinks. `IInv` therefore bounds every ack in flight by the *present* `lfr` and server
state (`SoundAck`), every packet by the present window (`SoundPacket`), and adds each
program's own invariant: `lfr + 1` is the first missing frame, marked frames are in the
buffer, the final packet is marked exactly when the server has ended, and the count
of final sends reaches the limit only with the client's end. That a refused packet
is never the final one, so that the final ack says "closed" truthfully, needs `lfr` to be
below the final number while the server is open. "Done" therefore means no more than
that the server has left its loop; that it writes what it then holds is `WriteFile`, which
changes nothing the other conjuncts speak of.

**`GbnFifo` implements `Gbn`.** A queue maps to the set of datagrams in it. Taking the head
of a queue that holds a second copy is, in `Gbn`, a delivery that leaves its datagram in
flight. With the refinement, every invariant of `Gbn` is one of `GbnFifo`
(`SafetyInvariance`), and `AcksInOrder` needs in addition only that queued acks do not
decrease and lie between `lar + 1` and `lfr + 1`.

**`GbnFifo` implements `FileTransfer`.** For every `MaxLoss`. The invariant (`TransferInv`) says
what holds while `lost = 0`: `cumAckWindow` is `0..lfr`, and each queued packet is at most
`lfr + 1` or comes, somewhere, after the packet before it, and so does the packet to be
sent next (`NoGap`). Hence the head of the queue is at most `lfr + 1`, and a server that
leaves its loop has everything. After a loss only the rest of the invariant is left: the buffer is
blank where nothing is marked, and what is marked is the source's. Both make what the
server takes one of `Versions`; the packet that ends the loop is `Take`, in the same step as an
ack that may be lost, and the write is `Write`. Finding 1 shows that the case distinction is necessary.

**`ShortPath`.** For any `MAX`, `INFINITE` and any matrix of natural costs: the selected routers are
no farther than the current one and no others nearer; all selected but the current
one have been relaxed; each finite distance is witnessed by a selected predecessor.
At the return all routers are selected, so no link offers a shorter way (`Certified`).
`ReturnedIsShortest` compares with the reference of `Routing`, a recursion over the number
of links on the way. From above: a table that offers no shorter way is below each of
its rounds. From below, the invariant counts (`NotTooNear`): with `n` routers selected, no
distance is below that of the best way of `n - 1` links, the last round when all are
selected. The same invariant gives `OutcomeSound`, with `NoLink`, that the arrays are overrun in the
first pass only.

**Set-up.** For any set of routers and any symmetric lists of distinct neighbours.
`EndsAgree` is inductive together with the shape of `sock`; `OpenIsConnected` needs it, since
a neighbour's `Connect` writes to an open router's socket unless both ends agree. The
steps of the flood leave the sockets alone, so `LinkState` inherits both.

**Flood.** For any network and any number of packets per `recv`. What one `recv` returns is a
sequence of packets read as one, of which `main` looks at the first block only, so that
the lemmas say which block of `FlattenSeq` comes first and that each is one that was sent.
`EndsNextToLimit` needs the streams (`EndInv`): an 'X' is only ever on its way from a router
that has ended at its own limit (`JunkFromLimit`), since one that is told to end tells no
one, and an 'X' that is read behind another packet can be relayed only as a later row of
that. For `TtlCountsHops` each block on a stream has
come from its origin and lost one for every link (`RouteInv`), and so has each that waits in
`sendBuffer2` to go out behind an 'X'. The distances `Hops` are
defined by sets that widen round by round; that these have stopped growing after as many
rounds as there are routers is shown by their cardinality (`AroundStops`).
`HangsOnlyIncomplete` is the case analysis of a pass with `Routing!Outcome` of a complete table.

**`PeerFiles`.** For any processes, names, files, ports and any number of packets per `recv`. None
of the properties is inductive. The conjuncts of `IInv` follow a row on its way: rows on
the list, in a client's view and in a message to it are rows of a process that has
started, with the port and a file it had (`ListSourced`, `ClientsSourced`), and so is what a
`get` is asked for, at whatever port its reader has (`AskedForShared`), which with "what a
client shares stays in its directory" (`OwnFilesStay`) gives `AskedForOwn`. A connect packet
is the first of its stream and carries its sender's rows, and is there before its sender is
accepted (`Packets`, `BacklogHasA`), so that a process joins once, with all its files, which
gives `ListedWhileJoined`; and the last message on its way to a joined client is
the list, over any number of messages read as one (`ListArrives`), because a suffix of the
last of several lists is a suffix of them put together. For the refinement the rows of
each name are a subsequence of the list, and `Only` of a list to which rows are appended is
that of the list, or of the rows, because a name in use is refused.

`ListBounded` splits the list. The processes are finitely many and no directory has a file
twice. Rows with a port differ (`RowsDiffer`), because a name in use is refused, and each is
held by a client whose exit the server has not read (`RowsHeld`), so that they go one to one
into `Places`. Rows without a port come of packets read behind a connect packet. To count
them the invariant counts the packets behind the connect packets that are still to be read
as well (`StraysCounted`): a recv that adds a row takes a packet from the stream, and a
packet put there is a command or an exit. An exit that the server does understand takes
its own packet, and the client, off both sides.

**`Ftp`.** `LockStep` counts datagrams per client in a queue that is shared by all.
`OneUnderWay` says that no client has two there, none when an answer is on its way to it,
either only while it waits, and one of the two while nothing is lost; the counts follow. `TransfersHold` is about a whole conversation: the
command, the server's answers and what is stored. Its invariant (`Conversations`) says of
a client that has always been alone what each datagram under way means: the server
awaits a name exactly when this client is in a `put`, what it has sent is what the server
expects, the answer to a `get` is the file as the server still has it, and the answer to a
`put` is `Failure` or the file is there. `PutStoresHolds` follows from the same invariant.

**Model-checked only.** Liveness, under fairness (`CompletesFileTransfer`, `OutcomeReached`,
`OpenOrCrossed`, `ParentsEnd`, `ListsConverge`, `GetsEndOrCycle`, `EveryCommandEnds`), which is
beyond the provers; and the findings, which are counterexamples.

## 6 Findings

1. `gbn_incomplete` (GBNserver.c:157). The server ends on the final packet with earlier
   blocks missing, and acknowledges it as final, so the client reports success, and the
   file is written without them. One
   lost datagram of a file of 1025 bytes is enough.
2. `gbn_100k` (GBNclient.c:182). A three-digit cumulative ack loses its first digit: 100 is
   read as 0, `lar` becomes -1, and the client sends its first window for ever. The server
   is still open and answers each of these packets with 100; since the window has no
   final packet, the limit does not stop the client. (Where 101 is read as 1 and `lar`
   becomes 0, the server may also have ended, and no longer answer.)
3. `ls_crossed` (routed_LS.c:237). Two neighbours that both try to connect before either
   listens wait for each other for ever.
4. `ls_stuck` (routed_LS.c:79). `shortpath` does not return on a table in which some router
   cannot be reached, and it is run on tables that are still filling.
5. `pfs_partial` (client_PFS.c:372). `get` takes what one `recv` returns for the whole file.
   "File size up to 64kb work" (pa4/README.txt:27) is true of the buffers; over a network a
   file longer than a segment arrives in several pieces, and the first may be all that is
   written. The wide segments of the loopback hide this.

Behaviours met on the way for which no document makes a claim that a run could
refute: two clients of pa4 that get from each other wait for ever
(client_PFS.c:372; `GetsEndOrCycle` allows exactly this), and so does one that gets from
a port of the list that has meanwhile become its own; a client that is asked for a file
it lacks, because it listens on the port of one that has ended, ends itself
(client_PFS.c:281); a file that reads "ls" is not
stored by a `put` (udp_client.c:104), although the client is answered; a name that cannot
be opened ends the server of pa1, and with it every client's service, in `fwrite`
(udp_server.c:158), and a file that is taken for another's name and is longer than a name may be is
enough for that; the client of pa2 may report success and the file then not be
written (GBNserver.c:155, 163); the name of one client's file may be
taken from another client's command (udp_server.c:150); the server of pa4 ends by
SIGPIPE for all when it twice sends to a client that has ended (server_PFS.c:252);
client names come free for a second client when their first owner shares no file
(server_PFS.c:182).

## 7 Not modelled

- *Writes outside arrays.* GBNserver.c:70 (clearing `cumAckWindow` counts bytes) and
  routed_LS.c:383 (more than ten rows in one `recv`): what they hit is decided by the
  build. The first happens before any step of the model; the bounds keep the instances
  below the second. server_PFS.c:190 (`MAXFILES` rows for all clients) is bounded by
  `ListBounded`, and the instances stay below it too.
- *Rows in parts.* A `recv` of rows is taken to end between packets. TCP may split one, and
  does when a list of pa4 is longer than a segment: the rest is then taken for a list of
  its own that begins within a row, which needs the bytes of a row to be told apart.
- *Writes that fail in `fclose`.* stdio may report a full disk only there, and no program looks.
  What `fwrite` reports is modelled in pa1 and pa2.
- *A router without lines* (routed_LS.c:133) is modelled, but not in a run: it waits for ever,
  and nothing else depends on it.
- *Set-up failures* (`socket`, `bind`, a bad command line), which end the program at once,
  logging, printouts, and `getCost` in pa3, which is never called.
- *`hacking/hw1`*: a client that adds four integers, and a random search for a hash
  collision; *`hacking/hw2`–`hw4`*: exercise programs about the shell and process memory;
  *`astr`*: a random simulation, whose result is a statistic. They are sequential, share
  nothing with another process and keep nothing from one run to the next.
- *The `final` directories*: copies of the programs modelled.

## 8 Plan

Done, in the order of the importance of what is at stake: `GbnEndpoints`, `Gbn`,
`GbnFifo` with `FileTransfer` (a protocol with two independent views); `LinkSetup`,
`Routing`, `ShortPath`, `LinkState` (the composition of set-up, flood and computation);
`FileServer`, `PeerFiles` with `Registry`; `Ftp`; the proofs of section 5.

Next:

1. *A split `recv`*: rows that arrive in two parts, in `LinkState` and `FileServer`.
