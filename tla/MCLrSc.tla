------------------------------- MODULE MCLrSc -------------------------------
(* Words of three values, a program and two levels of handlers.  LR/SC loops   *)
(* use two words, AMOs and DMA a third; in MCLrScStores.cfg, to show the        *)
(* difference, loops, AMOs and DMA share one.                                  *)
EXTENDS LrSc
=============================================================================
