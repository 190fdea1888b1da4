----------------------------- MODULE LinkState -----------------------------
(***************************************************************************)
(* The routers of netSys/pa3/routed_LS.c once they are connected.  The     *)
(* forked child sends the router's own link-state packet to every          *)
(* neighbour, again and again; the parent reads what the neighbours send,  *)
(* relays it, fills its table and runs shortpath on it.                    *)
(*                                                                         *)
(* A connection is a byte stream: one recv may return several packets, and *)
(* what it returns is handled as one.                                      *)
(***************************************************************************)
EXTENDS LinkSetup, Routing, FiniteSets

CONSTANTS
    Weight,       \* Weight[r][s]: cost on r's line that names s
    KillLimit,    \* passes of the parent's loop before it ends, 15
    MaxRows,      \* rows a recv may return before it is ignored, 4
    FirstTTL,     \* TTL of a row when it is sent first, 2
    MaxCoalesce,  \* bound: packets that one recv returns
    Cap           \* bound: packets on a connection before a child's send waits

ASSUME LinkStateAssumption ==
    /\ Routers \subseteq Nodes
    /\ Weight \in [Routers -> [Routers -> Nat]]
    /\ {KillLimit, MaxRows, FirstTTL, MaxCoalesce, Cap} \subseteq Nat \ {0}

VARIABLES
    stream,       \* stream[s][r]: the packets s has sent to r
    table,        \* the links of which each parent has a row in its graph
    sendBuffer2,  \* the rows that each parent has relayed last
    passes,       \* killCount
    turn,         \* the line each child sends on next
    cause         \* why each parent returned: "limit", "told" or not yet, "none"

vars == <<setupVars, stream, table, sendBuffer2, passes, turn, cause>>

\* A link is what a line of the initialization file names, from its own end.
Links == {link \in Routers \X Routers : link[2] \in NeighborSet(link[1])}

\* A row that is none: its host is the 'X' that tells a router to end, or it
\* was never written.
JunkLink == <<-1, -1>>

Row == [link : Links \cup {JunkLink}, ttl : Int]

Packet == {rows \in Seq(Row) : rows # <<>>}

BadLsp(r) ==
    [i \in 1..(Len(Neighbors[r]) - 1) |-> [link |-> <<r, Neighbors[r][i]>>, ttl |-> FirstTTL]]

\* A router's own packet: one row for each of its lines.
Lsp(r) == [i \in DOMAIN Neighbors[r] |-> [link |-> <<r, Neighbors[r][i]>>, ttl |-> FirstTTL]]

LinksOf(rows) == {row.link : row \in ToSet(rows)}

Init ==
    /\ SetupInit
    /\ stream = [s \in Routers |-> [r \in NeighborSet(s) |-> <<>>]]
    /\ table = [r \in Routers |-> LinksOf(Lsp(r))]
    /\ sendBuffer2 = [r \in Routers |-> <<>>]
    /\ passes = [r \in Routers |-> 0]
    /\ turn = [r \in Routers |-> 1]
    /\ cause = [r \in Routers |-> "none"]

-----------------------------------------------------------------------------

\* The parent of r still reads: it neither returned nor hangs in shortpath.
Listens(r) == phase[r] \notin {"exited", "spinning"}

\* Sends to a neighbour that no longer reads stay in its socket buffer: its
\* child keeps the connection open.
Sent(from, to, packet) ==
    IF Listens(to) THEN Append(from[to], packet) ELSE from[to]

SetupStep(r) == Setup(r) /\ UNCHANGED <<stream, table, sendBuffer2, passes, turn, cause>>

\* The child's next send, whatever its parent does; it goes on for ever.
ChildSend(r) ==
    LET to == Neighbors[r][turn[r]]
    IN  /\ ~InSetup(r)
        /\ turn[r] \in DOMAIN Neighbors[r]
        /\ Len(stream[r][to]) < Cap
        /\ stream' = [stream EXCEPT ![r][to] = Sent(stream[r], to, Lsp(r))]
        /\ turn' = [turn EXCEPT ![r] = IF @ = Len(Neighbors[r]) THEN 1 ELSE @ + 1]
        /\ UNCHANGED <<setupVars, table, sendBuffer2, passes, cause>>

-----------------------------------------------------------------------------

\* The first neighbour with something to read: the loop variable is used
\* again for the printout, so a pass reads from one neighbour only.
FirstReady(r, s) ==
    \E i \in DOMAIN Neighbors[r] :
        /\ s = Neighbors[r][i]
        /\ stream[s][r] # <<>>
        /\ \A j \in 1..(i - 1) : stream[Neighbors[r][j]][r] = <<>>

BadAged(rows) ==
    [i \in DOMAIN rows |-> IF i = 1 THEN [rows[i] EXCEPT !.ttl = @ - 1] ELSE rows[i]]

Aged(rows) == [i \in DOMAIN rows |-> [rows[i] EXCEPT !.ttl = @ - 1]]

\* Rows from s go to the other neighbours; the first row's TTL decides for
\* all of them.
GoesTo(s, t, rows) == t # s /\ rows[1].ttl > 0

\* What r has sent after relaying rows from s.
Relayed(r, s, rows) ==
    [t \in NeighborSet(r) |->
        IF GoesTo(s, t, rows) THEN Sent(stream[r], t, rows) ELSE stream[r][t]]

\* What r has in sendBuffer2 then.
Buffered(r, s, rows) ==
    IF \E t \in NeighborSet(r) : GoesTo(s, t, rows) THEN rows ELSE sendBuffer2[r]

BadCostOf(links) ==
    [h \in Nodes |-> [t \in Nodes |->
        IF t + 1 < MAX /\ <<h, t>> \in links THEN Weight[h][t] ELSE INFINITE]]

\* The cost matrix shortpath builds from the rows of these links.
CostOf(links) ==
    [h \in Nodes |-> [t \in Nodes |->
        IF <<h, t>> \in links THEN Weight[h][t] ELSE INFINITE]]

\* What shortpath does with the rows of each set of links.
Outcomes == {<<links, Outcome(CostOf(links))>> : links \in SUBSET Links}

\* How its call may end.  When no router can be reached, or the table has a
\* row that is no link, it indexes out of bounds: it may then return with any
\* distances, or never.
ShortPathEnds(links) ==
    {ending \in {"returned", "spinning"} :
        JunkLink \in links \/ {<<links, ending>>, <<links, "overrun">>} \cap Outcomes # {}}

\* The last packet: as many rows as were read last, 'X' in the first one and
\* the others left over from what was relayed last.
Kill(left, n) ==
    [i \in 1..n |-> IF i \in 2..Len(left) THEN left[i] ELSE [link |-> JunkLink, ttl |-> 0]]

Killed(sent, r, kill) ==
    [sent EXCEPT ![r] = [t \in NeighborSet(r) |-> Sent(@, t, kill)]]

Leave(r, why) ==
    /\ phase' = [phase EXCEPT ![r] = "exited"]
    /\ cause' = [cause EXCEPT ![r] = why]

\* The packets a parent that stops reading leaves behind are never read.
Unread(sent, r) ==
    [s \in Routers |-> [t \in NeighborSet(s) |-> IF t = r THEN <<>> ELSE sent[s][t]]]

\* What is left in the streams after r has read n packets from s.
Consumed(r, s, n) == [stream EXCEPT ![s][r] = SubSeq(@, n + 1, Len(@))]

BadTold(r, s, n, rows) ==
    /\ rows[1].link = JunkLink
    /\ Leave(r, "told")
    /\ stream' = Unread(Killed(Consumed(r, s, n), r, rows), r)
    /\ UNCHANGED <<table, sendBuffer2>>

\* A packet that starts with 'X' ends the parent; it does not tell others.
Told(r, s, n, rows) ==
    /\ rows[1].link = JunkLink
    /\ Leave(r, "told")
    /\ stream' = Unread(stream, r)
    /\ UNCHANGED <<table, sendBuffer2>>

\* More rows than an LSP may have: the pass ends, whatever the limit.
Ignore(r, s, n, rows) ==
    /\ rows[1].link # JunkLink
    /\ Len(rows) > MaxRows
    /\ stream' = Consumed(r, s, n)
    /\ UNCHANGED <<phase, cause, table, sendBuffer2>>

BadAtLimit(r) == passes[r] + 1 = KillLimit

AtLimit(r) == passes[r] + 1 >= KillLimit

\* Relay, add what is new to the table, run shortpath; when it returns in a
\* pass at or after the limit, tell all neighbours and end.
Handle(r, s, n, rows) ==
    LET aged == Aged(rows)
        relayed == [Consumed(r, s, n) EXCEPT ![r] = Relayed(r, s, aged)]
        kill == Kill(Buffered(r, s, aged), Len(rows))
    IN  /\ rows[1].link # JunkLink
        /\ Len(rows) <= MaxRows
        /\ table' = [table EXCEPT ![r] = @ \cup LinksOf(rows)]
        /\ sendBuffer2' = [sendBuffer2 EXCEPT ![r] = Buffered(r, s, aged)]
        /\ \E ending \in ShortPathEnds(table'[r]) :
             \/ /\ ending = "returned" /\ ~AtLimit(r)
                /\ stream' = relayed
                /\ UNCHANGED <<phase, cause>>
             \/ /\ ending = "returned" /\ AtLimit(r)
                /\ stream' = Unread(Killed(relayed, r, kill), r)
                /\ Leave(r, "limit")
             \/ /\ ending = "spinning"
                /\ stream' = Unread(relayed, r)
                /\ phase' = [phase EXCEPT ![r] = "spinning"]
                /\ UNCHANGED cause

\* One pass of the parent's loop that reads n packets.  Passes are counted up
\* to the limit, beyond which nothing tells their number.
ReceiveMany(r, n) ==
    /\ phase[r] = "open"
    /\ passes' = [passes EXCEPT ![r] = IF @ < KillLimit THEN @ + 1 ELSE @]
    /\ UNCHANGED <<sock, turn>>
    /\ \E s \in NeighborSet(r) :
        /\ FirstReady(r, s)
        /\ n <= Len(stream[s][r])
        /\ LET rows == FlattenSeq(SubSeq(stream[s][r], 1, n))
           IN  Told(r, s, n, rows) \/ Ignore(r, s, n, rows) \/ Handle(r, s, n, rows)

Receive(r) == \E n \in 1..MaxCoalesce : ReceiveMany(r, n)

Next == \E r \in Routers : SetupStep(r) \/ ChildSend(r) \/ Receive(r)

Spec == Init /\ [][Next]_vars

\* Parents and children are processes of their own; none waits but for data.
\* A child sleeps between its rounds, so that again and again a parent finds
\* one packet only, and handles that.
FairSpec ==
    /\ Spec
    /\ \A r \in Routers :
           WF_vars(SetupStep(r)) /\ WF_vars(ChildSend(r)) /\ SF_vars(ReceiveMany(r, 1))

-----------------------------------------------------------------------------

\* Every variable keeps its type.
TypeOK ==
    /\ SetupTypeOK
    /\ DOMAIN stream = Routers
    /\ \A s \in Routers : stream[s] \in [NeighborSet(s) -> Seq(Packet)]
    /\ phase \in [Routers -> {"connecting", "accepting", "open", "spinning", "exited"}]
    /\ table \in [Routers -> SUBSET (Links \cup {JunkLink})]
    /\ sendBuffer2 \in [Routers -> Seq(Row)]
    /\ passes \in [Routers -> 0..KillLimit]
    /\ turn \in [Routers -> Nat \ {0}]
    /\ cause \in [Routers -> {"none", "limit", "told"}]

\* Reference: the routers within each number of links of o ...
Around(o) ==
    LET within[n \in 0..Cardinality(Routers)] ==
            IF n = 0 THEN {o}
            ELSE within[n - 1] \cup UNION {NeighborSet(x) : x \in within[n - 1]}
    IN  within

\* ... and the number of links between two routers.
Hops ==
    [o \in Routers |-> [r \in Routers |->
        Least({n \in 0..Cardinality(Routers) : r \in Around(o)[n]})]]

\* There is a way from o to r.
Reached(o, r) == \E n \in 0..Cardinality(Routers) : r \in Around(o)[n]

\* Every router can be reached from router 0 at a cost below INFINITE.
Joined == \A i \in Nodes : TrueDistance(CostOf(Links))[i] < INFINITE

\* The rows of links among these.
Genuine(rows) == {row \in rows : row.link # JunkLink}

RowsOn(s, r) == UNION {ToSet(stream[s][r][i]) : i \in DOMAIN stream[s][r]}

\* A row has lost one from its TTL for every router it has passed, also one
\* that was read together with others or went out with an 'X': no row is
\* younger than its way is long (routed_LS.c:390-416, 451-454).
TtlCountsHops ==
    \A s \in Routers : \A r \in NeighborSet(s) : \A row \in Genuine(RowsOn(s, r)) :
        Hops[row.link[1]][s] <= FirstTTL - row.ttl

\* Parents end because of their own limit or that of a neighbour: the 'X'
\* goes no further than one link, in whatever company it is read
\* (routed_LS.c:376-379, 447-461).
EndsNextToLimit ==
    \A r \in Routers : phase[r] = "exited" =>
        \/ passes[r] >= KillLimit /\ cause[r] = "limit"
        \/ cause[r] = "told" /\ \E s \in NeighborSet(r) : cause[s] = "limit"

\* A parent hangs in shortpath only while its table lacks a row of some link,
\* or has a row that is no link (routed_LS.c:418-429).
HangsOnlyIncomplete ==
    \A r \in Routers : phase[r] = "spinning" =>
        JunkLink \in table[r] \/ ~(Links \subseteq table[r])

\* A parent that has a neighbour sending to it does not read for ever: it
\* ends or hangs, also when the pass that reaches the limit is one that
\* ignores what it has read (routed_LS.c:353, 385-387, 447-461).
ParentsEnd ==
    \A r \in Routers :
        phase[r] = "open" /\ (\E s \in NeighborSet(r) : ~InSetup(s)) ~> ~InSetup(r) /\ ~Listens(r)

\* REAME.txt:19, "The internal routing table is correctly populated": when
\* all are connected, every router's table comes to hold all links, unless
\* its parent ends before.
TablesFill ==
    (\A r \in Routers : ~InSetup(r)) ~>
        (\A r \in Routers : Links \subseteq table[r] \/ phase[r] = "exited")
=============================================================================
