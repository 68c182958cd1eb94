---- MODULE MCBilling ----
(* Two prices, of which the later one ends and gives way to the first, two *)
(* plans and two requests at a time; plans end within the clock.           *)
EXTENDS Billing, TLC

CONSTANTS gold, silver, c1, c2

MCPlans == {gold, silver}
MCCalls == {c1, c2}
MCDuration == [p \in MCPlans |-> 1]
MCFreeFrom == [p \in MCPlans |-> IF p = gold THEN 0 ELSE 30000]
MCPriceWrites == {[start |-> 0, ends |-> 9, amount |-> 10000],
                  [start |-> 1, ends |-> 2, amount |-> 40000]}
CallSymmetry == Permutations(MCCalls)
====
