------------------------------ MODULE Routing ------------------------------
(***************************************************************************)
(* What the shortest-path computation of netSys/pa3/routed_LS.c is for,    *)
(* and what it can come to.  Routers are numbered as getIndex numbers      *)
(* their letters; cost[h][t] is the cost of the link from h to t.          *)
(***************************************************************************)
EXTENDS Integers, FiniteSets

CONSTANTS
    MAX,        \* routers the program is compiled for, 6
    INFINITE    \* cost of a link that is not in the table, 998

Nodes == 0..(MAX - 1)

ASSUME MaxAssumption == MAX \in Nat \ {0} /\ INFINITE \in Nat \ {0}

\* Cost matrices with non-negative entries.
Matrices == [Nodes -> [Nodes -> Nat]]

Least(S) == CHOOSE x \in S : \A y \in S : x <= y

\* Reference: the cost of a cheapest path from router 0, where a cost of
\* INFINITE or more counts as no path at all.
TrueDistance(cost) ==
    LET within[n \in Nodes] ==
            IF n = 0 THEN [i \in Nodes |-> IF i = 0 THEN 0 ELSE INFINITE]
            ELSE LET shorter == within[n - 1]
                 IN  [i \in Nodes |->
                         Least({shorter[i]} \cup
                               {shorter[j] + cost[j][i] : j \in Nodes})]
    IN  within[MAX - 1]

\* What becomes of shortpath: it returns when every router can be reached from
\* router 0; else it selects no further router and never returns, and when
\* it could not select even a second one it indexes past its arrays.
Outcome(cost) ==
    LET true == TrueDistance(cost)
    IN  IF \A i \in Nodes : true[i] < INFINITE THEN "returned"
        ELSE IF \E i \in Nodes \ {0} : cost[0][i] < INFINITE THEN "spinning"
        ELSE "overrun"
=============================================================================
