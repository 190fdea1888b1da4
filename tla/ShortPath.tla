----------------------------- MODULE ShortPath -----------------------------
(***************************************************************************)
(* shortpath of netSys/pa3/routed_LS.c: Dijkstra's algorithm, always from  *)
(* router 0, one action per pass of its while loop.                        *)
(***************************************************************************)
EXTENDS Integers, Routing

CONSTANT Costs   \* the cost matrices the run starts from

ASSUME CostsAssumption == Costs \subseteq Matrices

VARIABLES
    cost,       \* the matrix built from the table
    selected,   \* the routers whose distance is final
    distance,
    preced,     \* the router before it on the path found so far
    current,    \* the router selected last
    k,          \* the nearest router of the last scan; MAX before the first
    pc          \* "running", "returned", or "overrun": indexed with MAX

vars == <<cost, selected, distance, preced, current, k, pc>>

Init ==
    /\ cost \in Costs
    /\ selected = {0}
    /\ distance = [i \in Nodes |-> IF i = 0 THEN 0 ELSE INFINITE]
    /\ preced = [i \in Nodes |-> IF i = 0 THEN MAX - 1 ELSE 0]
    /\ current = 0
    /\ k = MAX
    /\ pc = "running"

-----------------------------------------------------------------------------

\* Is the path to i over the current router shorter than the one known?
Shorter(i) ==
    i \notin selected /\ distance[current] + cost[current][i] < distance[i]

Relaxed == [i \in Nodes |-> IF Shorter(i) THEN distance[current] + cost[current][i]
                                          ELSE distance[i]]

BadNearest(i) == i \notin selected /\ Relaxed[i] < INFINITE

\* The router the scan settles on: the first of the nearest ones.
Nearest(i) ==
    /\ i \notin selected
    /\ Relaxed[i] < INFINITE
    /\ \A j \in Nodes \ selected :
           Relaxed[i] < Relaxed[j] \/ (Relaxed[i] = Relaxed[j] /\ i <= j)

\* A pass that finds a nearest router selects it.
Select(i) ==
    /\ k' = i
    /\ current' = i
    /\ selected' = selected \cup {i}
    /\ UNCHANGED pc

BadSelectNone ==
    /\ UNCHANGED <<k, selected, current>>
    /\ pc' = "overrun"

BadSelectNoneStays == UNCHANGED <<k, selected, current, pc>>

\* A pass that finds none keeps k: the last selected router is selected
\* again, or k is still MAX and the arrays are indexed past their end.
SelectNone ==
    /\ UNCHANGED <<k, selected>>
    /\ IF k = MAX THEN pc' = "overrun" /\ UNCHANGED current
                  ELSE current' = k /\ UNCHANGED pc

BadRelax ==
    /\ distance' = [i \in Nodes |->
           IF i \notin selected /\ cost[current][i] < distance[i]
           THEN cost[current][i] ELSE distance[i]]
    /\ preced' = [i \in Nodes |-> IF Shorter(i) THEN current ELSE preced[i]]

BadRelaxPreced ==
    /\ distance' = Relaxed
    /\ preced' = [i \in Nodes |-> IF i \in selected THEN preced[i] ELSE current]

Relax ==
    /\ distance' = Relaxed
    /\ preced' = [i \in Nodes |-> IF Shorter(i) THEN current ELSE preced[i]]

Pass ==
    /\ pc = "running"
    /\ selected # Nodes
    /\ Relax
    /\ \/ \E i \in Nodes : Nearest(i) /\ Select(i)
       \/ (\A i \in Nodes : ~Nearest(i)) /\ SelectNone
    /\ UNCHANGED cost

Return ==
    /\ pc = "running"
    /\ selected = Nodes
    /\ pc' = "returned"
    /\ UNCHANGED <<cost, selected, distance, preced, current, k>>

Next == Pass \/ Return

Spec == Init /\ [][Next]_vars

\* The loop has nothing to wait for.
FairSpec == Spec /\ WF_vars(Next)

-----------------------------------------------------------------------------

\* Every variable keeps its type.
TypeOK ==
    /\ cost \in Matrices
    /\ selected \subseteq Nodes
    /\ distance \in [Nodes -> 0..INFINITE]
    /\ preced \in [Nodes -> Nodes]
    /\ current \in Nodes
    /\ k \in Nodes \cup {MAX}
    /\ pc \in {"running", "returned", "overrun"}

\* The inductive invariant: router 0 is selected at distance 0; no selected
\* router is farther than the current one, none that is not is nearer; every
\* selected router but the current one has been relaxed; every distance is
\* witnessed by a selected predecessor.
IInv ==
    /\ TypeOK
    /\ 0 \in selected /\ current \in selected /\ distance[0] = 0
    /\ \A s \in selected : distance[s] <= distance[current]
    /\ \A u \in Nodes \ selected : distance[current] <= distance[u]
    /\ \A s \in selected \ {current}, u \in Nodes :
           distance[u] <= distance[s] + cost[s][u]
    /\ \A i \in Nodes \ {0} : distance[i] < INFINITE =>
           /\ preced[i] \in selected \ {i}
           /\ distance[i] = distance[preced[i]] + cost[preced[i]][i]
    /\ \A s \in selected : distance[s] < INFINITE
    /\ k # MAX => k = current
    /\ k = MAX => selected = {0}
    /\ pc = "returned" => selected = Nodes

\* When shortpath returns, every distance is minimal: no link leads to a
\* shorter one, and each but router 0's is that of a predecessor plus the
\* link from it, so preced traces a shortest path (routed_LS.c:79-102).
Certified ==
    pc = "returned" =>
        /\ distance[0] = 0
        /\ \A i, j \in Nodes : distance[j] <= distance[i] + cost[i][j]
        /\ \A i \in Nodes \ {0} :
               distance[i] = distance[preced[i]] + cost[preced[i]][i]

\* ... which is the distance the reference definition gives.
ReturnedIsShortest == pc = "returned" => distance = TrueDistance(cost)

\* shortpath ends only as Outcome says: it never returns when a router cannot
\* be reached, and indexes past its arrays exactly when router 0 has no link
\* in the table (routed_LS.c:93-101).
OutcomeSound == pc # "running" => pc = Outcome(cost)

\* ... and it does come to that end.
OutcomeReached == Outcome(cost) # "spinning" => <>(pc = Outcome(cost))
=============================================================================
