---- MODULE MCParty ----
(* Two parties of one user at one location, whose stock is enough for some *)
(* of their carts; another user and anonymous guests join them; two calls  *)
(* at a time and two orders.                                               *)
EXTENDS Party, TLC

CONSTANTS p1, p2, u1, u2, v1, v2, c1, c2

MCParties == {p1, p2}
MCUsers == {u1, u2}
MCHosts == {u1}
MCVariants == {v1, v2}
MCCalls == {c1, c2}
MCOnHand == [v \in MCVariants |-> IF v = v1 THEN 2 ELSE 1]
MCMaxQty == [v \in MCVariants |-> IF v = v1 THEN 2 ELSE 1]
MCBundles == {[v \in MCVariants |-> 1]}
Symmetry == Permutations(MCCalls) \cup Permutations(MCParties)
====
