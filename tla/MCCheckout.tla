---- MODULE MCCheckout ----
(* Two customers with carts in opposite orders, two variants and two       *)
(* checkouts, of the same customer or of different ones. Stock, points and *)
(* coupon are each enough for one of them and not always for both.         *)
(*                                                                         *)
(* The last start is the other side: one customer whose checkouts have no  *)
(* line in common, because the cart was changed from one to the other      *)
(* (two edits) in between, so that no balance row keeps them apart.        *)
EXTENDS Checkout

CONSTANTS u1, u2, v1, v2, t1, t2

MCUsers == {u1, u2}
MCVariants == {v1, v2}
MCCheckouts == {t1, t2}
MCOnHand == [v \in MCVariants |-> IF v = v1 THEN 2 ELSE 3]

OneLine(u, v, q) == {Line(<<u, 1>>, v, q)}
TwoLines(u, v, w) == {Line(<<u, 1>>, v, 1), Line(<<u, 2>>, w, 1)}
Carts(first, second) == [u \in MCUsers |-> IF u = u1 THEN first ELSE second]

MCStarts ==
    {[cart |-> Carts(TwoLines(u1, v1, v2), other), edits |-> 1] :
        other \in {TwoLines(u2, v2, v1), OneLine(u2, v1, 2), {}}}
    \cup {[cart |-> Carts(OneLine(u1, v1, 1), {}), edits |-> 0]}
SmallStarts == {[cart |-> Carts(OneLine(u1, v1, 1), OneLine(u2, v2, 1)), edits |-> 1]}
====
