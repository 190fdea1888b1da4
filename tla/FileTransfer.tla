---------------------------- MODULE FileTransfer ----------------------------
(***************************************************************************)
(* What a file transfer promises, whatever protocol carries it.  The       *)
(* receiver takes the whole file once, then tries to write it.  While      *)
(* nothing has been lost on the way, what it takes is the source; after a  *)
(* loss blocks may be missing, but each that is there is at its place.     *)
(* The sender reports success only when the receiver has taken the file,   *)
(* written or not; it may also give up, before or after that.  Both sides  *)
(* come to an end, unless so much is lost that the receiver waits for ever.*)
(***************************************************************************)
EXTENDS Naturals

CONSTANTS
    Source,    \* the blocks of the file
    Missing,   \* what stands in the place of a block that did not arrive
    NoFile,
    Failed,    \* the write did not succeed
    Patience   \* losses the receiver is sure to be served in spite of

VARIABLES
    held,      \* what the receiver has taken
    output,    \* what it has written
    report,    \* what the sender says
    losses

vars == <<held, output, report, losses>>

Init == held = NoFile /\ output = NoFile /\ report = "running" /\ losses = 0

\* What the receiver may take: the source, and after a loss any part of it.
Versions ==
    {[b \in DOMAIN Source |-> IF b \in arrived THEN Source[b] ELSE Missing] :
        arrived \in IF losses = 0 THEN {DOMAIN Source} ELSE SUBSET DOMAIN Source}

Lose == losses' = losses + 1 /\ UNCHANGED <<held, output, report>>

\* The answer to the last packet may be what is lost next.
Take ==
    /\ held = NoFile
    /\ held' \in Versions
    /\ losses' \in {losses, losses + 1}
    /\ UNCHANGED <<output, report>>

Write ==
    /\ held # NoFile /\ output = NoFile
    /\ output' \in {held, Failed}
    /\ UNCHANGED <<held, report, losses>>

Succeed ==
    /\ report = "running" /\ held # NoFile
    /\ report' = "done"
    /\ UNCHANGED <<held, output, losses>>

GiveUp ==
    /\ report = "running"
    /\ report' = "gaveUp"
    /\ UNCHANGED <<held, output, losses>>

Next == Lose \/ Take \/ Write \/ Succeed \/ GiveUp

Spec == Init /\ [][Next]_vars

\* Nobody has to lose anything.
FairSpec ==
    /\ Spec
    /\ WF_vars(Take /\ losses < Patience)
    /\ WF_vars(Write)
    /\ WF_vars(Succeed \/ GiveUp)
=============================================================================
