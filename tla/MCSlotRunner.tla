---------------------------- MODULE MCSlotRunner -----------------------------
(* The end of the day.  Two slots are due at once for a moment, as a        *)
(* schedule with long windows allows; the report is due later.              *)
EXTENDS SlotRunner, TLC
CONSTANTS p1, p2, p3
EndOfDay == ("FORCE_FLAT" :> {1}) @@ ("RECONCILE" :> {1}) @@ ("POST_CLOSE_REPORT" :> {2})
Symmetry == Permutations({p1, p2, p3})
=============================================================================
