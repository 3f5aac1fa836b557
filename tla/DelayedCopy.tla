----------------------------- MODULE DelayedCopy -----------------------------
(***************************************************************************)
(* What a client promises its player: it shows a copy of the game that may *)
(* be old and may skip some of what was published, but that is always one  *)
(* of the published states, never goes back to an earlier one, and gets to *)
(* each of them or past it.  What a copy holds is left open.               *)
(***************************************************************************)
EXTENDS SequencesExt, Naturals

VARIABLES
    shown,           \* the copy that is shown
    pending          \* what has been published since, oldest first

copyVars == <<shown, pending>>

CopyInit == pending = <<>>

Publish ==
    /\ pending' # <<>>
    /\ Front(pending') = pending
    /\ UNCHANGED shown

\* The copy catches up with some of what is pending.
Show ==
    \E n \in 1 .. Len(pending) :
      /\ shown' = pending[n]
      /\ pending' = SubSeq(pending, n + 1, Len(pending))

CopyNext == Publish \/ Show

CopySafety == CopyInit /\ [][CopyNext]_copyVars

CopySpec == CopySafety /\ WF_copyVars(Show)
=============================================================================
