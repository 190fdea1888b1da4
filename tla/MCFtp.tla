------------------------------- MODULE MCFtp -------------------------------
(***************************************************************************)
(* Ftp with two clients and a file name at each of the three programs,     *)
(* whose file may read like a command.                                     *)
(***************************************************************************)
EXTENDS Ftp, TLC

CONSTANTS c1, c2, f1, text1, cut, get1

MCClients == {c1, c2}

MCFiles == {f1}

MCGetText == f1 :> get1

MCContents == {text1, cut, Ls}

ASSUME MCContentsAssumption == Request \notin Contents
=============================================================================
