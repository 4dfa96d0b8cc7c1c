--------------------------- MODULE MCDevelopmentDay ---------------------------
(* A full day and one that closes early, two symbols, halts on the full day   *)
(* that begin and end anywhere and may overlap.                               *)
EXTENDS DevelopmentDay, TLC
TwoDays == <<16, 10>>
HaltsOfDayOne == {h \in {<<1, a, a + n>> : a \in 0 .. 15, n \in {1, 3}} : h[3] <= 16}
AnySymbol == Permutations(Symbols)
=============================================================================
