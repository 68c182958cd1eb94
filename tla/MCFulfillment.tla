---- MODULE MCFulfillment ----
(* Two orders that compete for one place in the only slot, and two calls   *)
(* at a time, which is enough for every cycle of locks.                    *)
EXTENDS Fulfillment

CONSTANTS o1, o2, s1, c1, c2

MCOrders == {o1, o2}
MCSlots == {s1}
MCCalls == {c1, c2}
MCCapacity == [s \in MCSlots |-> 1]
====
