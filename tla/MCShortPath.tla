---------------------------- MODULE MCShortPath ----------------------------
(***************************************************************************)
(* ShortPath on the tables of four routers whose links cost 3 or 600 from  *)
(* router 0 and 1 or 400 between the others: a detour may be shorter than  *)
(* a link, and 600 and 400 together are too far.  Links to router 0 and    *)
(* from a router to itself make no difference and are left out.            *)
(***************************************************************************)
EXTENDS ShortPath

Others == {p \in (1..3) \X (1..3) : p[1] # p[2]}

MCCosts ==
    {[h \in Nodes |-> [t \in Nodes |->
        IF t = 0 \/ h = t THEN INFINITE
        ELSE IF h = 0 THEN first[t] ELSE other[<<h, t>>]]] :
        first \in [1..3 -> {3, 600, INFINITE}],
        other \in [Others -> {1, 400, INFINITE}]}
=============================================================================
