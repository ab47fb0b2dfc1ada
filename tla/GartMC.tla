------------------------------- MODULE GartMC -------------------------------
(* A backend of one page and one of two in a table of three entries. *)
EXTENDS Gart, TLC
CONSTANTS one, two
Sizes == one :> 1 @@ two :> 2
=============================================================================
