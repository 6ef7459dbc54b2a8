--------------------------- MODULE MCConsolePage ---------------------------
(* Two rows and room for a third; two requests or answers on their way.  An *)
(* operator has the roles there are; one added is not his.                  *)
EXTENDS ConsolePage, TLC

Symmetry == Permutations(SeedRows)
=============================================================================
