----------------------------- MODULE LinkSetup -----------------------------
(***************************************************************************)
(* How the routers of netSys/pa3/routed_LS.c connect: each one tries       *)
(* connect on every line of the initialization file that is its own,       *)
(* listens where that failed, and accepts until all are connected.  The    *)
(* failed connect and the listen are two system calls, and nothing keeps   *)
(* the other end from making its own in between.                           *)
(***************************************************************************)
EXTENDS Integers, Sequences, SequencesExt, TLC

CONSTANTS
    Routers,
    Neighbors   \* for every router, the targets of its lines, in file order

ASSUME NeighborsAssumption ==
    /\ Neighbors \in [Routers -> Seq(Routers)]
    /\ \A r \in Routers : IsInjective(Neighbors[r])
    /\ \A r, s \in Routers :
           s \in ToSet(Neighbors[r]) => r \in ToSet(Neighbors[s]) /\ r # s

NeighborSet(r) == ToSet(Neighbors[r])

VARIABLES
    sock,   \* sock[r][s]: r's socket for the line that names s
    phase   \* where each router's main is

setupVars == <<sock, phase>>

SetupInit ==
    /\ sock = [r \in Routers |-> [s \in NeighborSet(r) |-> "closed"]]
    /\ phase = [r \in Routers |-> "connecting"]

-----------------------------------------------------------------------------

BadSet(r, s, state) == sock' = [sock EXCEPT ![r] = (r :> state) @@ @]

Set(r, s, state) == sock' = [sock EXCEPT ![r][s] = state]

\* The neighbour of the first socket that has not been connected yet.
NextToConnect(r, s) ==
    \E i \in DOMAIN Neighbors[r] :
        /\ s = Neighbors[r][i]
        /\ sock[r][s] = "closed"
        /\ \A j \in 1..(i - 1) : sock[r][Neighbors[r][j]] \notin {"closed", "failed"}

BadConnect(r, s) ==
    /\ phase[r] = "connecting"
    /\ NextToConnect(r, s)
    /\ IF sock[s][r] \in {"listening", "failed"}
       THEN Set(r, s, "connected")
       ELSE Set(r, s, "failed")
    /\ UNCHANGED phase

\* connect succeeds if the other end listens, which then has a connection to
\* accept; else it fails at once.
Connect(r, s) ==
    /\ phase[r] = "connecting"
    /\ NextToConnect(r, s)
    /\ IF sock[s][r] = "listening"
       THEN sock' = [sock EXCEPT ![r][s] = "connected", ![s][r] = "pending"]
       ELSE Set(r, s, "failed")
    /\ UNCHANGED phase

Listen(r, s) ==
    /\ phase[r] = "connecting"
    /\ sock[r][s] = "failed"
    /\ Set(r, s, "listening")
    /\ UNCHANGED phase

\* A router without lines has not got all its connections, ever.
AllConnected(at) == DOMAIN at # {} /\ \A s \in DOMAIN at : at[s] = "connected"

\* checkConnections, after the loop of connects and after every accept.
CheckConnections(r, at) ==
    phase' = [phase EXCEPT ![r] = IF AllConnected(at) THEN "open" ELSE "accepting"]

EndConnects(r) ==
    /\ phase[r] = "connecting"
    /\ \A s \in NeighborSet(r) : sock[r][s] \notin {"closed", "failed"}
    /\ CheckConnections(r, sock[r])
    /\ UNCHANGED sock

BadAccept(r) ==
    /\ phase[r] = "accepting"
    /\ \E s \in NeighborSet(r) : sock[r][s] = "pending" /\ Set(r, s, "connected")
    /\ phase' = [phase EXCEPT ![r] = "open"]

BadAcceptUnchecked(r) ==
    /\ phase[r] = "accepting"
    /\ \E s \in NeighborSet(r) : sock[r][s] = "pending" /\ Set(r, s, "connected")
    /\ UNCHANGED phase

\* select reports every connection waiting when it returns; all are accepted
\* before the next one.
Accept(r) ==
    LET at == [s \in NeighborSet(r) |->
                  IF sock[r][s] = "pending" THEN "connected" ELSE sock[r][s]]
    IN  /\ phase[r] = "accepting"
        /\ at # sock[r]
        /\ sock' = [sock EXCEPT ![r] = at]
        /\ CheckConnections(r, at)

Setup(r) ==
    \/ \E s \in NeighborSet(r) : Connect(r, s) \/ Listen(r, s)
    \/ EndConnects(r)
    \/ Accept(r)

SetupNext == \E r \in Routers : Setup(r)

SetupSpec == SetupInit /\ [][SetupNext]_setupVars

\* None of the calls waits but accept's select, which returns when a
\* connection is there.
SetupFairSpec == SetupSpec /\ \A r \in Routers : WF_setupVars(Setup(r))

-----------------------------------------------------------------------------

SocketStates == {"closed", "failed", "listening", "pending", "connected"}

\* Every router has one socket for each of its lines, in a state of its own.
SetupTypeOK ==
    /\ DOMAIN sock = Routers
    /\ DOMAIN phase = Routers
    /\ \A r \in Routers : sock[r] \in [NeighborSet(r) -> SocketStates]

InSetup(r) == phase[r] \in {"connecting", "accepting"}

\* r and s have both failed to connect to the other and both wait.
Crossed(r, s) ==
    sock[r][s] \in {"failed", "listening"} /\ sock[s][r] \in {"failed", "listening"}

\* A connection has two ends: where one router has a connected socket the
\* other's is connected or is about to be accepted, and only there is
\* something to accept (routed_LS.c:237-246, 260-276).
EndsAgree ==
    \A r \in Routers : \A s \in NeighborSet(r) :
        /\ sock[r][s] = "connected" => sock[s][r] \in {"connected", "pending"}
        /\ sock[r][s] = "pending" => sock[s][r] = "connected"

\* A router that floods has all its connections (routed_LS.c:252-282).
OpenIsConnected ==
    \A r \in Routers : InSetup(r) \/ AllConnected(sock[r])

\* The inductive invariant, also of the routers that flood.
SetupIInv == SetupTypeOK /\ EndsAgree /\ OpenIsConnected

\* Every router that has a line gets through the set-up, or one of its
\* neighbours and it listen to each other for good (routed_LS.c:252-279).
OpenOrCrossed ==
    \A r \in {q \in Routers : Neighbors[q] # <<>>} :
        <>[](~InSetup(r) \/ \E s \in NeighborSet(r) : Crossed(r, s))

\* REAME.txt:17, "Routers succesfully connect to all other routers and
\* initalize correctly": every router gets through the set-up.
EveryRouterConnects == <>(\A r \in Routers : ~InSetup(r))
=============================================================================
