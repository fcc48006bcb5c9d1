-------------------------- MODULE VouchedGeneration --------------------------
(***************************************************************************)
(* What the consumers of a published generation may count on, who look at  *)
(* it only when its marker accepts it: they see one generation or none;    *)
(* the one they see may be withdrawn, and come back; and once they have    *)
(* seen a newer one they never see an older one again.                     *)
(***************************************************************************)
EXTENDS Naturals

VARIABLES
    visible,    \* the generation the marker accepts; 0 is none
    last        \* the newest one ever accepted

Init == visible = 0 /\ last = 0

Withdraw == visible' = 0 /\ UNCHANGED last

Return == visible' = last /\ UNCHANGED last

Publish == last' > last /\ visible' = last'

Next == Withdraw \/ Return \/ Publish

Spec == Init /\ [][Next]_<<visible, last>>

=============================================================================
