---- MODULE MCPayment ----
(* Two calls on one order: enough for the order row to be contended, for   *)
(* a second intent beside a lost one, and for a refund to be repeated.     *)
EXTENDS Payment

CONSTANTS o1, c1, c2

MCOrders == {o1}
MCCalls == {c1, c2}
====
