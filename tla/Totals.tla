---- MODULE Totals ----
(***************************************************************************)
(* What an order costs, in minor units: the coupon's discount, the taxes of*)
(* a line, the delivery fee a member pays, the points that may be redeemed *)
(* and those that are earned (app/modules/promotions/service.py, tax.py,   *)
(* memberships/service.py and create_order_from_cart). All divisions round *)
(* down, as the integer divisions of the code do. Unclamped is a mutant of *)
(* Positive and used by nothing else.                                      *)
(***************************************************************************)
EXTENDS Integers

Least(a, b) == IF a <= b THEN a ELSE b
Unclamped(a) == a
Positive(a) == IF a >= 0 THEN a ELSE 0

(* validate_coupon: percent is in hundredths of a percent. *)
PercentOff(subtotal, percent, maximum) ==
    Least(Least((subtotal * percent) \div 10000, maximum), subtotal)
FixedOff(subtotal, minor) == Least(minor, subtotal)

(* calculate_order_taxes, for one line: with the rates of the state, or by *)
(* the category's default.                                                 *)
Share(amount, bps) == (amount * bps) \div 10000
SplitTax(amount, cgst, sgst, igst, cess) ==
    Share(amount, cgst) + Share(amount, sgst) + Share(amount, igst) + Share(amount, cess)
LineTax(amount, bps, cgst, sgst, igst, cess) ==
    LET split == SplitTax(amount, cgst, sgst, igst, cess)
    IN  IF split = 0 /\ bps > 0 THEN Share(amount, bps) ELSE split
DefaultTax(amount, bps) == Share(amount, bps)

(* evaluate_membership_order_benefits. *)
Fee(subtotal, fee, member, minimum) == IF member /\ subtotal >= minimum THEN 0 ELSE fee

(* create_order_from_cart: the points that are used, and the total.        *)
RawTotal(subtotal, off, tax, fee) == Positive(subtotal - off) + tax + fee
Redeemed(points, subtotal, off, tax, fee) ==
    Least(points, RawTotal(subtotal, off, tax, fee) \div 100)
Total(subtotal, off, points, tax, fee) ==
    Positive(subtotal - (off + 100 * Redeemed(points, subtotal, off, tax, fee))) + tax + fee

(* award_loyalty_points: the multiplier is in tenths. *)
Earned(total, tenths) == ((total \div 10000) * tenths) \div 10
====
