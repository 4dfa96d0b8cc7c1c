-------------------------- MODULE MCPaperExecution ---------------------------
(* Two symbols, or one, and the entries that trade them. *)
EXTENDS PaperExecution
CONSTANTS a, b, ea, eb
TwoSymbols == [e \in {ea, eb} |-> IF e = ea THEN a ELSE b]
OneSymbol == [e \in Entries |-> a]
=============================================================================
