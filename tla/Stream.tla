------------------------------ MODULE Stream ------------------------------
(***************************************************************************)
(* What a listener is promised of one clip: its samples in order, each of  *)
(* them once (a sample may be held), and the output switched off only at   *)
(* the last one.  A clip that another press has cut short is promised      *)
(* nothing but an end.                                                     *)
(***************************************************************************)
EXTENDS Naturals

CONSTANT Total   \* samples of the clip

VARIABLES heard, cut, over

vars == <<heard, cut, over>>

Init == heard = 0 /\ cut = FALSE /\ over = FALSE

Emit == ~over /\ ~cut /\ heard < Total /\ heard' = heard + 1 /\ UNCHANGED <<cut, over>>
Cut  == ~over /\ ~cut /\ cut' = TRUE /\ UNCHANGED <<heard, over>>
Stray == ~over /\ cut /\ heard' \in 0..Total /\ UNCHANGED <<cut, over>>
End  == ~over /\ (cut \/ heard = Total) /\ over' = TRUE /\ UNCHANGED <<heard, cut>>

Next == Emit \/ Cut \/ Stray \/ End

InOrder == Init /\ [][Next]_vars
Spec == InOrder /\ <>over
=============================================================================
