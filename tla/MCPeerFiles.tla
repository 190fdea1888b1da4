---------------------------- MODULE MCPeerFiles ----------------------------
(***************************************************************************)
(* PeerFiles with two clients that share a file each, one of them longer   *)
(* than a segment, and a third process started with the first one's name,  *)
(* from a directory without files.                                         *)
(***************************************************************************)
EXTENDS PeerFiles, TLC

CONSTANTS p1, p2, p3, f1, f2

MCProcs == {p1, p2, p3}
MCTwo == {p1, p2}

MCName == p1 :> "ann" @@ p2 :> "bob" @@ p3 :> "ann"
MCTwoName == p1 :> "ann" @@ p2 :> "bob"

MCPort == p1 :> 1 @@ p2 :> 2 @@ p3 :> 3
MCTwoPort == p1 :> 1 @@ p2 :> 2

MCShared == p1 :> <<f1>> @@ p2 :> <<f2>> @@ p3 :> <<>>
MCTwoShared == p1 :> <<f1>> @@ p2 :> <<f2>>

MCLong == {f2}
=============================================================================
