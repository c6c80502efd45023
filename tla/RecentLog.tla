----------------------------- MODULE RecentLog -----------------------------
(***************************************************************************)
(* What the log buffer promises: the last Capacity records of the process, *)
(* oldest first, in the order of their numbers.                            *)
(***************************************************************************)
EXTENDS Naturals, Sequences

CONSTANTS Capacity, Texts

VARIABLE kept

Init == kept = <<>>

Latest(s) == IF Len(s) > Capacity THEN Tail(s) ELSE s

Append1(text, n) == kept' = Latest(Append(kept, [seq |-> n, text |-> text]))

Add ==
    \E text \in Texts :
        Append1(text, IF kept = <<>> THEN 1 ELSE kept[Len(kept)].seq + 1)

Restart == kept' = <<>>

Spec == Init /\ [][Add \/ Restart]_kept
=============================================================================
