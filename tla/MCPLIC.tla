------------------------------- MODULE MCPLIC -------------------------------
(* PLIC with three real sources, a word one bit wider than the sources,      *)
(* priorities 0..2 and software that writes values past every field's width. *)
EXTENDS PLIC
=============================================================================
