-------------------------- MODULE MCPaletteSearch --------------------------
(* TLC instances of PaletteSearch. *)
EXTENDS PaletteSearch, TLC
=============================================================================
