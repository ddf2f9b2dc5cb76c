------------------------------- MODULE MCMmu --------------------------------
(* Two root tables (pages 4 and 6), one table below them (page 5), three      *)
(* virtual pages, which a superpage in a root covers together, and a TLB of   *)
(* two entries, so that it fills and evicts.                                  *)
EXTENDS Mmu
P(f, n) == [flags |-> f, ppn |-> n]
Ptr     == P({"V"}, 5)
Giant   == P({"V", "R", "W"}, 3)
Skewed  == P({"V", "R", "W"}, 4)
PteChoices ==
    [s \in {<<4, 0>>, <<5, 0>>, <<5, 1>>, <<5, 2>>, <<6, 0>>} |->
        CASE s = <<4, 0>> -> {Ptr, Giant, Skewed}
          [] s = <<6, 0>> -> {Ptr}
          [] s = <<5, 0>> -> {P({}, 8), P({"V", "R", "W", "U"}, 8), P({"V", "W"}, 8), P({"V", "X", "U"}, 9)}
          [] s = <<5, 1>> -> {P({"V", "R", "X"}, 9), P({"V", "R", "W", "X"}, 8)}
          [] s = <<5, 2>> -> {P({"V", "R", "W"}, 7)}]
RegimeChoices ==
    {[priv |-> "U", sum |-> FALSE, mxr |-> FALSE]} \cup [priv : {"S"}, sum : BOOLEAN, mxr : BOOLEAN]
=============================================================================
