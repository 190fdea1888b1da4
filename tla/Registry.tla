------------------------------ MODULE Registry ------------------------------
(***************************************************************************)
(* What the master list of netSys/pa4 promises: each client name is a      *)
(* shelf that holds the files of one process at a time.  A process fills   *)
(* the shelf of its name when it is empty, with all its files at once, and *)
(* the shelf is cleared as a whole.                                        *)
(***************************************************************************)

CONSTANTS
    Procs,
    Name,     \* Name[p]: the shelf p may fill
    Offers    \* Offers[p]: what it may put there, a set of sequences

VARIABLE shelf

Names == {Name[p] : p \in Procs}

Init == shelf = [n \in Names |-> <<>>]

\* No other shelf changes.
OthersStay(n) == \A m \in Names \ {n} : shelf'[m] = shelf[m]

Claim(p) ==
    /\ shelf[Name[p]] = <<>>
    /\ shelf'[Name[p]] \in Offers[p]
    /\ OthersStay(Name[p])

Clear(n) ==
    /\ shelf[n] # <<>>
    /\ shelf'[n] = <<>>
    /\ OthersStay(n)

Next == (\E p \in Procs : Claim(p)) \/ (\E n \in Names : Clear(n))

Spec == Init /\ [][Next]_shelf
=============================================================================
