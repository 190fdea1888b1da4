---------------------------- MODULE MCLinkSetup ----------------------------
(***************************************************************************)
(* LinkSetup on a square of four routers with one diagonal: every router   *)
(* has two or three connections to make.                                   *)
(***************************************************************************)
EXTENDS LinkSetup

MCNeighbors == <<<<1, 2, 3>>, <<0, 2>>, <<0, 1, 3>>, <<0, 2>>>>

MCRouters == 0..3

MCLines == [r \in MCRouters |-> MCNeighbors[r + 1]]
=============================================================================
