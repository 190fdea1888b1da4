---------------------------- MODULE MCLinkState ----------------------------
(***************************************************************************)
(* LinkState compiled for three routers, on the path 0 - 1 - 2.            *)
(***************************************************************************)
EXTENDS LinkState

MCRouters == 0..2

MCLines == [r \in MCRouters |-> CASE r = 0 -> <<1>> [] r = 1 -> <<0, 2>> [] r = 2 -> <<1>>]

MCWeight == [r \in MCRouters |-> [s \in MCRouters |-> 1]]
=============================================================================
