---- MODULE MCInventory ----
(* One balance row (the rows share nothing), three holds, two adjustments  *)
(* and two concurrent releases: enough for a release that loads a hold     *)
(* another one gives back, and for a third customer who takes the stock    *)
(* twice.                                                                  *)
EXTENDS Inventory, TLC

CONSTANTS s1, h1, h2, h3, a1, a2, r1, r2

MCStock == {s1}
MCHoldKeys == {h1, h2, h3}
MCAdjKeys == {a1, a2}
MCReleasers == {r1, r2}

Symmetry ==
    Permutations(MCHoldKeys) \cup Permutations(MCAdjKeys) \cup Permutations(MCReleasers)
====
