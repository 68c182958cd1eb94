---- MODULE MCCustomers ----
(* Two postal codes in two states, of which one has a regulation; two      *)
(* locations; ages below 18, below 21 and above.                           *)
EXTENDS Customers, TLC

CONSTANTS c1, c2, p1, p2, s1, s2

MCCalls == {c1, c2}
MCPins == {p1, p2}
MCPlaces == {[pin |-> p1, state |-> s1], [pin |-> p2, state |-> s2]}
(* Where both cover, location 2 has the better priority or the same.      *)
MCCoverageWrites ==
    {[location |-> 1, pin |-> p1, priority |-> 1, active |-> TRUE],
     [location |-> 2, pin |-> p1, priority |-> 0, active |-> TRUE],
     [location |-> 2, pin |-> p1, priority |-> 1, active |-> TRUE],
     [location |-> 1, pin |-> p2, priority |-> 0, active |-> TRUE]}

MCLegalAge == s1 :> 18 @@ s2 :> 21

Symmetry == Permutations(MCCalls)
====
