---- MODULE BillingProofs ----
(***************************************************************************)
(* The amounts of an order, for every price, rate, discount and number of  *)
(* points, and from them the invariants of Billing, for any number of      *)
(* prices, plans, memberships and requests. NothingOverlooked is why there *)
(* is one membership: unless subscriptions raced, what a request has read  *)
(* names every active row there is to supersede.                           *)
(***************************************************************************)
EXTENDS Billing, FiniteSetTheorems, WellFoundedInduction, TLAPS

-----------------------------------------------------------------------------
(* The amounts.                                                            *)

(* The quotient of an integer division, without its divisor's product.     *)
LEMMA Rounding ==
    ASSUME NEW x \in Nat
    PROVE  /\ x \div 10000 \in Nat /\ 10000 * (x \div 10000) <= x
           /\ x \div 100 \in Nat /\ 100 * (x \div 100) <= x
BY SMT

LEMMA Products ==
    ASSUME NEW a \in Nat, NEW b \in Nat, b <= 10000
    PROVE  a * b \in Nat /\ a * b <= 10000 * a
<1>1. a * b \in Nat
    OBVIOUS
<1>3. a * b <= a * 10000
    BY Z3
<1> QED
    BY <1>1, <1>3, SMT

(* A share of at most 100 percent is not more than the amount.             *)
LEMMA ShareBounds ==
    ASSUME NEW a \in Nat, NEW b \in Nat, b <= 10000
    PROVE  /\ Share(a, b) \in Nat
           /\ 10000 * Share(a, b) <= a * b
           /\ Share(a, b) <= a
<1>1. PICK x \in Nat : x = a * b
    BY Products
<1>2. x <= 10000 * a
    BY <1>1, Products
<1>3. PICK y \in Nat : y = x \div 10000 /\ 10000 * y <= x
    BY Rounding
<1>4. Share(a, b) = y
    BY <1>1, <1>3 DEF Share
<1>5. y <= a
    BY <1>2, <1>3
<1>6. 10000 * y <= a * b
    BY <1>1, <1>3
<1> QED
    BY <1>4, <1>5, <1>6

(* validate_coupon never gives more than the subtotal, whatever the coupon *)
(* says, so that the coupon alone takes no order below its tax and fee.    *)
THEOREM CouponWithinSubtotal ==
    ASSUME NEW subtotal \in Nat, NEW percent \in Nat, NEW maximum \in Nat, NEW minor \in Nat
    PROVE  /\ PercentOff(subtotal, percent, maximum) \in 0..subtotal
           /\ FixedOff(subtotal, minor) \in 0..subtotal
<1>1. PICK x \in Nat : x = subtotal * percent
    OBVIOUS
<1>2. PICK y \in Nat : y = x \div 10000
    BY Rounding
<1>3. PercentOff(subtotal, percent, maximum) = Least(Least(y, maximum), subtotal)
    BY <1>1, <1>2 DEF PercentOff
<1>4. Least(Least(y, maximum), subtotal) \in 0..subtotal
    BY DEF Least
<1>5. FixedOff(subtotal, minor) \in 0..subtotal
    BY DEF FixedOff, Least
<1> QED
    BY <1>3, <1>4, <1>5

(* The points used never exceed what was asked for, nor the raw total.     *)
LEMMA RedeemedBounds ==
    ASSUME NEW points \in Nat, NEW subtotal \in Nat, NEW off \in Nat,
           NEW tax \in Nat, NEW fee \in Nat
    PROVE  /\ Redeemed(points, subtotal, off, tax, fee) \in Nat
           /\ 100 * Redeemed(points, subtotal, off, tax, fee)
                <= RawTotal(subtotal, off, tax, fee)
           /\ Redeemed(points, subtotal, off, tax, fee) <= points
<1> DEFINE raw == RawTotal(subtotal, off, tax, fee)
<1>1. raw \in Nat
    BY DEF RawTotal, Positive
<1> HIDE DEF raw
<1>2. PICK most \in Nat : most = raw \div 100 /\ 100 * most <= raw
    BY <1>1, Rounding
<1>3. Redeemed(points, subtotal, off, tax, fee) = Least(points, most)
    BY <1>2 DEF Redeemed, raw
<1>4. Least(points, most) \in Nat /\ 100 * Least(points, most) <= raw /\ Least(points, most) <= points
    BY <1>1, <1>2 DEF Least
<1> QED
    BY <1>3, <1>4 DEF raw

(* Neither coupon nor points pay the tax or the delivery fee: the total of *)
(* an order is never less than both.                                       *)
THEOREM TotalCoversTaxAndFee ==
    ASSUME NEW points \in Nat, NEW subtotal \in Nat, NEW off \in Nat,
           NEW tax \in Nat, NEW fee \in Nat
    PROVE  Total(subtotal, off, points, tax, fee) \in Nat
           /\ Total(subtotal, off, points, tax, fee) >= tax + fee
<1>1. PICK k \in Nat : k = Redeemed(points, subtotal, off, tax, fee)
    BY RedeemedBounds
<1>2. Total(subtotal, off, points, tax, fee) = Positive(subtotal - (off + 100 * k)) + tax + fee
    BY <1>1 DEF Total
<1>3. Positive(subtotal - (off + 100 * k)) \in Nat
    BY DEF Positive
<1> QED
    BY <1>2, <1>3

(* The limit of the points contains the tax and the fee, which they do not *)
(* pay: points may be burned for nothing, but never for more than the tax  *)
(* and the fee of the order are worth.                                     *)
THEOREM BurnedPointsBounded ==
    ASSUME NEW points \in Nat, NEW subtotal \in Nat, NEW off \in 0..subtotal,
           NEW tax \in Nat, NEW fee \in Nat
    PROVE  100 * Redeemed(points, subtotal, off, tax, fee)
             - (RawTotal(subtotal, off, tax, fee) - Total(subtotal, off, points, tax, fee))
                \in 0..(tax + fee)
<1> DEFINE k == Redeemed(points, subtotal, off, tax, fee)
<1>0. off \in Nat /\ off <= subtotal
    OBVIOUS
<1>1. k \in Nat /\ 100 * k <= RawTotal(subtotal, off, tax, fee)
    BY <1>0, RedeemedBounds
<1>2. RawTotal(subtotal, off, tax, fee) = subtotal - off + tax + fee
    BY <1>0 DEF RawTotal, Positive
<1>3. Total(subtotal, off, points, tax, fee) = Positive(subtotal - (off + 100 * k)) + tax + fee
    BY DEF Total
<1> HIDE DEF k
<1>4. 100 * k <= subtotal - off + tax + fee
    BY <1>1, <1>2
<1>5. CASE subtotal - (off + 100 * k) >= 0
    <2>1. Total(subtotal, off, points, tax, fee) = subtotal - (off + 100 * k) + tax + fee
        BY <1>3, <1>5 DEF Positive
    <2> QED
        BY <1>0, <1>1, <1>2, <2>1 DEF k
<1>6. CASE ~(subtotal - (off + 100 * k) >= 0)
    <2>1. Total(subtotal, off, points, tax, fee) = tax + fee
        BY <1>3, <1>6 DEF Positive
    <2>2. 100 * k - (subtotal - off) \in 0..(tax + fee)
        BY <1>0, <1>1, <1>4, <1>6
    <2> QED
        BY <1>0, <1>1, <1>2, <2>1, <2>2 DEF k
<1> QED
    BY <1>5, <1>6

(* Four shares, each rounded down by itself, of together at most 100       *)
(* percent.                                                                *)
LEMMA SharesBounds ==
    ASSUME NEW a \in Nat, NEW c \in Nat, NEW s \in Nat, NEW i \in Nat, NEW x \in Nat,
           c + s + i + x <= 10000
    PROVE  Share(a, c) + Share(a, s) + Share(a, i) + Share(a, x) \in 0..a
<1>0. c <= 10000 /\ s <= 10000 /\ i <= 10000 /\ x <= 10000
    OBVIOUS
<1>1. Share(a, c) \in Nat /\ 10000 * Share(a, c) <= a * c
    BY <1>0, ShareBounds
<1>2. Share(a, s) \in Nat /\ 10000 * Share(a, s) <= a * s
    BY <1>0, ShareBounds
<1>3. Share(a, i) \in Nat /\ 10000 * Share(a, i) <= a * i
    BY <1>0, ShareBounds
<1>4. Share(a, x) \in Nat /\ 10000 * Share(a, x) <= a * x
    BY <1>0, ShareBounds
<1>5. a * c \in Nat /\ a * s \in Nat /\ a * i \in Nat /\ a * x \in Nat
    BY <1>0, Products
<1>6. a * c + a * s + a * i + a * x = a * (c + s + i + x)
    BY Z3
<1>7. a * (c + s + i + x) <= 10000 * a
    BY Products
<1>8. a * c + a * s + a * i + a * x <= 10000 * a
    BY <1>6, <1>7
<1> QED
    BY <1>1, <1>2, <1>3, <1>4, <1>5, <1>8

(* A line is taxed with at most its amount when the four rates of its state*)
(* are together at most 100 percent.                                       *)
THEOREM TaxWithinAmount ==
    ASSUME NEW amount \in Nat, NEW bps \in Nat, bps <= 10000,
           NEW cgst \in Nat, NEW sgst \in Nat, NEW igst \in Nat, NEW cess \in Nat,
           cgst + sgst + igst + cess <= 10000
    PROVE  LineTax(amount, bps, cgst, sgst, igst, cess) \in 0..amount
<1>1. SplitTax(amount, cgst, sgst, igst, cess) \in 0..amount
    BY SharesBounds DEF SplitTax
<1>2. Share(amount, bps) \in 0..amount
    BY ShareBounds
<1> QED
    BY <1>1, <1>2 DEF LineTax

-----------------------------------------------------------------------------
(* The invariant.                                                          *)

LineAsShown ==
    /\ line.amount = shown
    /\ \A c \in Calls : call[c].line.amount = call[c].shown

OneUnlessRaced == ~raced => \A a, b \in Actives : a = b

NothingOverlooked == ~raced => \A c \in Calls : call[c].actives \subseteq {call[c].row}

BillingInv ==
    /\ TypeOK
    /\ LineAsShown /\ ChargedAsShown
    /\ OneUnlessRaced /\ NothingOverlooked

CallTypes == [op : {"none", "subscribe", "cancel", "cart", "order"}, plan : Plans,
              at : 0..MaxTime, row : Rows \cup {0}, was : Members,
              actives : SUBSET Rows, line : Snapshots, shown : Nat, start : Starts]

LEMMA Blank ==
    /\ NoRow \in Members /\ NoRow.status = "none"
    /\ NoLine \in Snapshots /\ NoLine.amount = 0
    /\ Idle \in CallTypes /\ Idle.actives = {} /\ Idle.line.amount = Idle.shown
<1>1. (CHOOSE p \in Plans : TRUE) \in Plans
    BY BillingConstants
<1>2. 0 \in 0..MaxTime
    BY BillingConstants
<1>3. NoRow \in Members /\ NoRow.status = "none"
    BY <1>1 DEF NoRow, Members, Statuses
<1>4. NoLine \in Snapshots /\ NoLine.amount = 0
    BY <1>2, BillingConstants DEF NoLine, Snapshots, Starts
<1>5. Idle \in CallTypes /\ Idle.actives = {} /\ Idle.line.amount = Idle.shown
    BY <1>1, <1>2, <1>3, <1>4 DEF Idle, CallTypes, Starts
<1> QED
    BY <1>3, <1>4, <1>5

(* Among the prices in effect one starts last.                             *)
LEMMA LatestExists ==
    ASSUME NEW S \in SUBSET Starts, S # {}
    PROVE  \E s \in S : \A x \in S : x <= s
<1> DEFINE T == {MaxTime - s : s \in S}
<1>1. \A s \in S : s \in Nat /\ s <= MaxTime /\ MaxTime - s \in Nat
    BY BillingConstants DEF Starts
<1>2. T \subseteq Nat /\ T # {}
    BY <1>1
<1>3. PICK t \in T : \A u \in T : ~(<<u, t>> \in OpToRel(<, Nat))
    BY <1>2, NatLessThanWellFounded, WFMin
<1>4. PICK s \in S : t = MaxTime - s
    BY <1>3
<1>5. ASSUME NEW x \in S PROVE x <= s
    <2>1. MaxTime - x \in T
        OBVIOUS
    <2>2. ~(MaxTime - x < t)
        BY <1>1, <1>2, <1>3, <2>1 DEF OpToRel
    <2> QED
        BY <1>1, <1>4, <2>2, BillingConstants
<1> QED
    BY <1>5

LEMMA CurrentStarts ==
    ASSUME InEffect # {}
    PROVE  Current \in Starts
<1>1. InEffect \in SUBSET Starts
    BY DEF InEffect
<1>2. \E s \in InEffect : \A x \in InEffect : x <= s
    BY <1>1, LatestExists
<1> QED
    BY <1>1, <1>2 DEF Current

(* What a request reads of the memberships, and that it overlooks none.    *)
LEMMA ReadTypes ==
    ASSUME BillingInv, NEW k \in CallTypes, NEW op \in {"subscribe", "cancel", "order"},
           NEW p \in Plans, NEW r \in Found
    PROVE  /\ ReadMembership(k, op, p, r) \in CallTypes
           /\ ReadMembership(k, op, p, r).line = k.line
           /\ ReadMembership(k, op, p, r).shown = k.shown
           /\ ~raced => ReadMembership(k, op, p, r).actives
                            \subseteq {ReadMembership(k, op, p, r).row}
<1>1. /\ now \in 0..MaxTime /\ member \in [Rows -> Members]
    BY DEF BillingInv, TypeOK
<1>2. Actives \in SUBSET Rows /\ Lasting \subseteq Actives /\ r \in Rows \cup {0}
    BY DEF Actives, Lasting, Found
<1>3. (IF r = 0 THEN NoRow ELSE member[r]) \in Members
    BY <1>1, <1>2, Blank
<1> DEFINE m == ReadMembership(k, op, p, r)
           was == IF r = 0 THEN NoRow ELSE member[r]
<1>4. /\ m \in CallTypes /\ m.line = k.line /\ m.shown = k.shown
      /\ m.actives = Actives /\ m.row = r
    <2>1. m = [op |-> op, plan |-> p, at |-> now, row |-> r, was |-> was, actives |-> Actives,
               line |-> k.line, shown |-> k.shown, start |-> k.start]
        BY DEF ReadMembership
    <2> HIDE DEF was, m
    <2>2. was \in Members
        BY <1>3 DEF was
    <2> QED
        BY <1>1, <1>2, <2>1, <2>2 DEF CallTypes
<1>5. ASSUME ~raced, NEW a \in Actives PROVE a = r
    <2>1. Actives = {a}
        BY <1>5 DEF BillingInv, OneUnlessRaced
    <2>2. member[a].expires \in Nat
        BY <1>1, <1>2 DEF Members
    <2>3. Lasting = {a}
        BY <2>1, <2>2 DEF Lasting
    <2> QED
        BY <2>3 DEF Found
<1> HIDE DEF m
<1>6. ~raced => m.actives \subseteq {m.row}
    BY <1>4, <1>5
<1> QED
    BY <1>4, <1>6 DEF m

-----------------------------------------------------------------------------
(* What a step does to the calls, and to what it leaves alone.             *)

LEMMA CallChanges ==
    ASSUME BillingInv, NEW c \in Calls, NEW k \in CallTypes, call' = [call EXCEPT ![c] = k],
           k.line.amount = k.shown, ~raced => k.actives \subseteq {k.row}, raced => raced'
    PROVE  /\ call' \in [Calls -> CallTypes]
           /\ \A d \in Calls : call'[d].line.amount = call'[d].shown
           /\ NothingOverlooked'
<1>1. /\ call' \in [Calls -> CallTypes] /\ call'[c] = k
      /\ \A d \in Calls \ {c} : call'[d] = call[d]
    BY DEF BillingInv, TypeOK, CallTypes
<1>2. \A d \in Calls : call[d].line.amount = call[d].shown
    BY DEF BillingInv, LineAsShown
<1>3. ~raced => \A d \in Calls : call[d].actives \subseteq {call[d].row}
    BY DEF BillingInv, NothingOverlooked
<1> QED
    BY <1>1, <1>2, <1>3 DEF NothingOverlooked

LEMMA CallEnds ==
    ASSUME BillingInv, NEW c \in Calls, Finish(c), raced => raced'
    PROVE  /\ call' \in [Calls -> CallTypes]
           /\ \A d \in Calls : call'[d].line.amount = call'[d].shown
           /\ NothingOverlooked'
BY Blank, CallChanges DEF Finish

LEMMA MembersKept ==
    ASSUME BillingInv, UNCHANGED <<member, raced>>
    PROVE  OneUnlessRaced'
BY DEF BillingInv, OneUnlessRaced, Actives

LEMMA Requested == TypeOK /\ Request => requests' \in 0..MaxRequests
BY BillingConstants DEF TypeOK, Request

-----------------------------------------------------------------------------
(* One step keeps the invariant.                                           *)

LEMMA OutsideKeeps ==
    ASSUME BillingInv, now' \in 0..MaxTime, requests' \in 0..MaxRequests,
           price' \in [Starts -> [amount : Nat, ends : Nat, active : BOOLEAN]],
           offered' \subseteq Plans,
           UNCHANGED <<line, shown, member, orders, call, raced>>
    PROVE  BillingInv'
<1>1. TypeOK'
    BY DEF BillingInv, TypeOK
<1>2. LineAsShown' /\ ChargedAsShown' /\ NothingOverlooked'
    BY DEF BillingInv, LineAsShown, ChargedAsShown, NothingOverlooked
<1> QED
    BY <1>1, <1>2, MembersKept DEF BillingInv

LEMMA ShopKeeps ==
    ASSUME BillingInv,
           \/ Tick
           \/ \E w \in PriceWrites : SetVariantPrice(w)
           \/ \E s \in Starts : DeactivatePrice(s)
           \/ \E p \in Plans : CreatePlan(p)
    PROVE  BillingInv'
<1>0. /\ now \in 0..MaxTime /\ requests \in 0..MaxRequests
      /\ price \in [Starts -> [amount : Nat, ends : Nat, active : BOOLEAN]]
      /\ offered \subseteq Plans
    BY DEF BillingInv, TypeOK
<1>1. CASE Tick
    BY <1>0, <1>1, OutsideKeeps, BillingConstants DEF Tick, prices
<1>2. ASSUME NEW w \in PriceWrites, SetVariantPrice(w) PROVE BillingInv'
    <2>1. [amount |-> w.amount, ends |-> w.ends, active |-> TRUE]
            \in [amount : Nat, ends : Nat, active : BOOLEAN]
        BY BillingConstants
    <2>2. price' \in [Starts -> [amount : Nat, ends : Nat, active : BOOLEAN]]
        BY <1>0, <1>2, <2>1 DEF SetVariantPrice
    <2> QED
        BY <1>0, <1>2, <2>2, OutsideKeeps, Requested DEF SetVariantPrice, BillingInv
<1>3. ASSUME NEW s \in Starts, DeactivatePrice(s) PROVE BillingInv'
    <2>1. price' \in [Starts -> [amount : Nat, ends : Nat, active : BOOLEAN]]
        BY <1>0, <1>3 DEF DeactivatePrice
    <2> QED
        BY <1>0, <1>3, <2>1, OutsideKeeps, Requested DEF DeactivatePrice, BillingInv
<1>4. ASSUME NEW p \in Plans, CreatePlan(p) PROVE BillingInv'
    BY <1>0, <1>4, OutsideKeeps, Requested DEF CreatePlan, BillingInv
<1> QED
    BY <1>1, <1>2, <1>3, <1>4

LEMMA LineKeeps ==
    ASSUME BillingInv, RemoveLine \/ \E id \in 1..MaxLines : TouchLine(id)
    PROVE  BillingInv'
<1>1. line' \in Snapshots /\ shown' \in Nat /\ line'.amount = shown'
    <2>1. ASSUME NEW id \in 1..MaxLines, TouchLine(id)
          PROVE  line' \in Snapshots /\ shown' \in Nat /\ line'.amount = shown'
        <3>1. Current \in Starts
            BY <2>1, CurrentStarts DEF TouchLine
        <3>2. price[Current].amount \in Nat
            BY <3>1 DEF BillingInv, TypeOK
        <3>3. id \in 0..MaxLines
            BY BillingConstants
        <3> QED
            BY <2>1, <3>1, <3>2, <3>3 DEF TouchLine, SnapshotPrice, Snapshot, Snapshots
    <2>2. CASE RemoveLine
        BY <2>2, Blank DEF RemoveLine
    <2> QED
        BY <2>1, <2>2
<1>2. Request /\ UNCHANGED <<now, price, offered, member, orders, call, raced>>
    BY DEF TouchLine, RemoveLine, prices
<1>3. TypeOK'
    BY <1>1, <1>2, Requested DEF BillingInv, TypeOK
<1>4. LineAsShown' /\ ChargedAsShown' /\ NothingOverlooked'
    BY <1>1, <1>2 DEF BillingInv, LineAsShown, ChargedAsShown, NothingOverlooked
<1> QED
    BY <1>2, <1>3, <1>4, MembersKept DEF BillingInv

(* Steps of a request that write nothing.                                  *)
LEMMA ReadingKeeps ==
    ASSUME BillingInv, NEW c \in Calls, NEW k \in CallTypes, call' = [call EXCEPT ![c] = k],
           k.line.amount = k.shown, ~raced => k.actives \subseteq {k.row},
           requests' \in 0..MaxRequests,
           UNCHANGED <<now, prices, line, shown, member, orders, raced>>
    PROVE  BillingInv'
<1>1. UNCHANGED <<price, offered>>
    BY DEF prices
<1>2. /\ call' \in [Calls -> CallTypes]
      /\ \A d \in Calls : call'[d].line.amount = call'[d].shown
      /\ NothingOverlooked'
    BY CallChanges
<1>3. TypeOK'
    BY <1>1, <1>2 DEF BillingInv, TypeOK, CallTypes
<1>4. LineAsShown' /\ ChargedAsShown'
    BY <1>2 DEF BillingInv, LineAsShown, ChargedAsShown
<1> QED
    BY <1>2, <1>3, <1>4, MembersKept DEF BillingInv

LEMMA ReadStepsKeep ==
    ASSUME BillingInv, NEW c \in Calls,
           \/ \E p \in Plans : ReadFor(c, "subscribe", p)
           \/ ReadFor(c, "cancel", Idle.plan)
           \/ LoadCart(c) \/ PriceOrder(c) \/ Abort(c)
    PROVE  BillingInv'
<1>0. /\ call[c] \in CallTypes /\ call[c].line.amount = call[c].shown
      /\ requests \in 0..MaxRequests /\ line \in Snapshots /\ shown \in Nat
      /\ line.amount = shown /\ TypeOK
    BY DEF BillingInv, TypeOK, LineAsShown, CallTypes
<1>1. ASSUME NEW op \in {"subscribe", "cancel"}, NEW p \in Plans, ReadFor(c, op, p)
      PROVE  BillingInv'
    <2>1. PICK r \in Found : call' = [call EXCEPT ![c] = ReadMembership(Idle, op, p, r)]
        BY <1>1 DEF ReadFor
    <2>2. requests' \in 0..MaxRequests
        BY <1>0, <1>1, Requested DEF ReadFor
    <2> DEFINE k == ReadMembership(Idle, op, p, r)
    <2>3. /\ k \in CallTypes /\ k.line = Idle.line /\ k.shown = Idle.shown
          /\ ~raced => k.actives \subseteq {k.row}
        <3>1. PICK i \in CallTypes : i = Idle
            BY Blank
        <3>2. op \in {"subscribe", "cancel", "order"}
            OBVIOUS
        <3>3. /\ ReadMembership(i, op, p, r) \in CallTypes
              /\ ReadMembership(i, op, p, r).line = i.line
              /\ ReadMembership(i, op, p, r).shown = i.shown
              /\ ~raced => ReadMembership(i, op, p, r).actives
                               \subseteq {ReadMembership(i, op, p, r).row}
            BY <3>2, ReadTypes, ZenonT(30)
        <3> QED
            BY <3>1, <3>3
    <2>4. call' = [call EXCEPT ![c] = k] /\ UNCHANGED <<now, prices, line, shown, member, orders, raced>>
        BY <1>1, <2>1 DEF ReadFor
    <2> HIDE DEF k
    <2>5. k.line.amount = k.shown
        BY <2>3, Blank
    <2> QED
        BY <2>2, <2>3, <2>4, <2>5, ReadingKeeps
<1>2. CASE LoadCart(c)
    <2> DEFINE k == [Idle EXCEPT !.op = "cart", !.line = line, !.shown = shown]
    <2>1. k \in CallTypes /\ k.line.amount = k.shown /\ k.actives = {}
        BY <1>0, Blank DEF CallTypes
    <2>2. requests' \in 0..MaxRequests
        BY <1>0, <1>2, Requested DEF LoadCart
    <2>3. call' = [call EXCEPT ![c] = k] /\ UNCHANGED <<now, prices, line, shown, member, orders, raced>>
        BY <1>2 DEF LoadCart
    <2> HIDE DEF k
    <2> QED
        BY <2>1, <2>2, <2>3, ReadingKeeps
<1>3. CASE PriceOrder(c)
    <2>1. PICK r \in Found :
            call' = [call EXCEPT ![c] =
                [ReadMembership(call[c], "order", call[c].was.plan, r) EXCEPT !.start = Current]]
        BY <1>3 DEF PriceOrder
    <2>2. call[c].was.plan \in Plans /\ Current \in Starts
        BY <1>0, <1>3, CurrentStarts DEF CallTypes, Members, PriceOrder
    <2> DEFINE m == ReadMembership(call[c], "order", call[c].was.plan, r)
               k == [m EXCEPT !.start = Current]
    <2>3. /\ m \in CallTypes /\ m.line = call[c].line /\ m.shown = call[c].shown
          /\ ~raced => m.actives \subseteq {m.row}
        BY <1>0, <2>2, ReadTypes
    <2> HIDE DEF m
    <2>4. /\ k \in CallTypes /\ k.line = m.line /\ k.shown = m.shown
          /\ k.actives = m.actives /\ k.row = m.row
        BY <2>2, <2>3 DEF CallTypes
    <2>5. call' = [call EXCEPT ![c] = k]
        BY <2>1 DEF m
    <2> HIDE DEF k
    <2>6. UNCHANGED <<now, requests, prices, line, shown, member, orders, raced>>
        BY <1>3 DEF PriceOrder
    <2> QED
        BY <1>0, <2>3, <2>4, <2>5, <2>6, ReadingKeeps
<1>4. CASE Abort(c)
    BY <1>0, <1>4, Blank, ReadingKeeps DEF Abort, Finish
<1>5. Idle.plan \in Plans
    BY Blank DEF CallTypes
<1> QED
    BY <1>1, <1>2, <1>3, <1>4, <1>5

(* A membership row that is not active stays so, unless it is a new one.   *)
Ends(r) == member[r].status \in {"expired", "cancelled"} =>
             member'[r].status \in {"expired", "cancelled"}

(* Steps that write memberships, and end their request.                    *)
LEMMA WritingKeeps ==
    ASSUME BillingInv, NEW c \in Calls, Finish(c), member' \in [Rows -> Members],
           raced' \in BOOLEAN, raced => raced', OneUnlessRaced',
           UNCHANGED <<now, requests, prices, line, shown, orders>>
    PROVE  BillingInv'
<1>1. UNCHANGED <<price, offered>>
    BY DEF prices
<1>2. /\ call' \in [Calls -> CallTypes]
      /\ \A d \in Calls : call'[d].line.amount = call'[d].shown
      /\ NothingOverlooked'
    BY CallEnds
<1>3. TypeOK'
    BY <1>1, <1>2 DEF BillingInv, TypeOK, CallTypes
<1>4. LineAsShown' /\ ChargedAsShown'
    BY <1>2 DEF BillingInv, LineAsShown, ChargedAsShown
<1> QED
    BY <1>2, <1>3, <1>4 DEF BillingInv

LEMMA FewerActives ==
    ASSUME BillingInv, raced' = raced, Actives' \subseteq Actives
    PROVE  OneUnlessRaced'
BY DEF BillingInv, OneUnlessRaced

LEMMA ExtendKeeps ==
    ASSUME BillingInv, NEW c \in Calls, Extend(c)
    PROVE  BillingInv' /\ \A r \in Rows : Ends(r)
<1>1. PICK k \in CallTypes : k = call[c]
    BY DEF BillingInv, TypeOK, CallTypes
<1>2. k.row \in Rows /\ k.was.expires \in Nat /\ Duration[k.plan] \in Nat
    BY <1>1, BillingConstants DEF Extend, InForce, CallTypes, Members
<1>3. /\ member \in [Rows -> Members] /\ Finish(c)
      /\ member' = [member EXCEPT ![k.row] = Extended(k)]
      /\ UNCHANGED <<now, requests, prices, line, shown, orders, raced>>
    BY <1>1 DEF Extend, BillingInv, TypeOK
<1>4. Extended(k) \in Members /\ Extended(k).status = member[k.row].status
    BY <1>2, <1>3 DEF Extended, Members
<1>5. member' \in [Rows -> Members] /\ \A r \in Rows : member'[r].status = member[r].status
    BY <1>2, <1>3, <1>4
<1>6. OneUnlessRaced'
    BY <1>3, <1>5, FewerActives DEF Actives
<1> QED
    BY <1>3, <1>5, <1>6, WritingKeeps DEF Ends, BillingInv, TypeOK

LEMMA CancelKeeps ==
    ASSUME BillingInv, NEW c \in Calls, Cancel(c)
    PROVE  BillingInv' /\ \A r \in Rows : Ends(r)
<1>1. PICK k \in CallTypes : k = call[c]
    BY DEF BillingInv, TypeOK, CallTypes
<1>2. k.row \in Rows
    BY <1>1 DEF Cancel, InForce, CallTypes
<1>3. /\ member \in [Rows -> Members] /\ Finish(c)
      /\ member' = [member EXCEPT ![k.row].status = "cancelled"]
      /\ UNCHANGED <<now, requests, prices, line, shown, orders, raced>>
    BY <1>1 DEF Cancel, BillingInv, TypeOK
<1>4. /\ member' \in [Rows -> Members] /\ member'[k.row].status = "cancelled"
      /\ \A r \in Rows \ {k.row} : member'[r] = member[r]
    BY <1>2, <1>3 DEF Members, Statuses
<1>5. Actives' \subseteq Actives
    BY <1>4 DEF Actives
<1> QED
    BY <1>3, <1>4, <1>5, FewerActives, WritingKeeps DEF Ends, BillingInv, TypeOK

(* The row that a subscription supersedes is the active one, unless it has *)
(* overlooked another.                                                     *)
LEMMA SubscribeKeeps ==
    ASSUME BillingInv, NEW c \in Calls, NEW r \in Rows, Subscribe(c, r)
    PROVE  BillingInv' /\ \A x \in Rows : Ends(x)
<1>1. PICK k \in CallTypes : k = call[c]
    BY DEF BillingInv, TypeOK, CallTypes
<1> DEFINE new == [plan |-> k.plan, status |-> "active", expires |-> k.at + Duration[k.plan]]
<1>2. /\ member \in [Rows -> Members] /\ member[r] = NoRow /\ Finish(c)
      /\ member' = [x \in Rows |->
            IF x = r THEN new
            ELSE IF x \in Superseded(k) THEN [member[x] EXCEPT !.status = "expired"]
            ELSE member[x]]
      /\ raced' = (raced \/ ~(Actives \subseteq k.actives))
      /\ UNCHANGED <<now, requests, prices, line, shown, orders>>
    BY <1>1 DEF Subscribe, BillingInv, TypeOK
<1>3. new \in Members
    <2>1. k.at \in Nat /\ Duration[k.plan] \in Nat /\ k.plan \in Plans
        BY BillingConstants DEF CallTypes
    <2> QED
        BY <2>1 DEF Members, Statuses
<1> HIDE DEF new
<1>4. \A x \in Rows : [member[x] EXCEPT !.status = "expired"] \in Members
                       /\ [member[x] EXCEPT !.status = "expired"].status = "expired"
    BY <1>2 DEF Members, Statuses
<1>5. member' \in [Rows -> Members]
    BY <1>2, <1>3, <1>4
<1>6. \A x \in Rows : Ends(x)
    BY <1>2, <1>4, Blank DEF Ends
<1>7. raced' \in BOOLEAN /\ (raced => raced')
    BY <1>2 DEF BillingInv, TypeOK
<1>8. OneUnlessRaced'
    <2> SUFFICES ASSUME ~raced', NEW a \in Rows, member'[a].status = "active", a # r PROVE FALSE
        BY DEF OneUnlessRaced, Actives
    <2>1. ~raced /\ Actives \subseteq k.actives
        BY <1>2
    <2>2. k.actives \subseteq {k.row}
        BY <1>1, <2>1 DEF BillingInv, NothingOverlooked
    <2>3. a \notin Superseded(k) /\ member'[a] = member[a]
        BY <1>2, <1>4
    <2>4. a \in Actives
        BY <2>3 DEF Actives
    <2>5. a = k.row /\ k.row # 0
        BY <2>1, <2>2, <2>4 DEF Rows
    <2> QED
        BY <2>3, <2>5 DEF Superseded
<1> QED
    BY <1>2, <1>5, <1>6, <1>7, <1>8, WritingKeeps

(* The amounts of an order are whole, and it is never less than its fee.   *)
LEMMA AmountsOfOrder ==
    ASSUME BillingInv, NEW k \in CallTypes, NEW o \in Offs(k.line.amount)
    PROVE  /\ Amounts(k, o[1], o[2]).amount = k.line.amount
           /\ Amounts(k, o[1], o[2]).shown = k.shown
           /\ Amounts(k, o[1], o[2]).total \in Nat
           /\ Amounts(k, o[1], o[2]).total >= Amounts(k, o[1], o[2]).fee
<1> DEFINE subtotal == k.line.amount
           tax == DefaultTax(subtotal, DefaultBps)
           fee == Fee(subtotal, DeliveryFee, InForce(k), FreeFrom[k.was.plan])
<1>1. subtotal \in Nat
    BY DEF CallTypes, Snapshots
<1>2. tax \in Nat
    <2>1. PICK a \in Nat : a = subtotal
        BY <1>1
    <2>2. PICK b \in Nat : b = DefaultBps /\ b <= 10000
        BY DEF DefaultBps
    <2>3. Share(a, b) \in Nat
        BY <2>2, ShareBounds
    <2>4. tax = Share(a, b)
        BY <2>1, <2>2 DEF DefaultTax
    <2> QED
        BY <2>3, <2>4
<1>3. fee \in Nat
    BY DEF Fee, DeliveryFee
<1>4. o[1] \in Nat /\ o[2] \in Nat
    <2>1. PICK a \in Nat : a = subtotal
        BY <1>1
    <2>2. PICK x \in Nat : x = a * 2000
        OBVIOUS
    <2>3. PICK y \in Nat : y = x \div 10000
        BY Rounding
    <2>4. PercentOff(a, 2000, 5000) = Least(Least(y, 5000), a)
        BY <2>2, <2>3 DEF PercentOff
    <2>5. Least(Least(y, 5000), a) \in Nat
        BY DEF Least
    <2> QED
        BY <2>1, <2>4, <2>5 DEF Offs
<1>5. Amounts(k, o[1], o[2]) =
        [amount |-> subtotal, price |-> k.start, shown |-> k.shown, member |-> InForce(k),
         fee |-> fee, total |-> Total(subtotal, o[1], o[2], tax, fee)]
    BY DEF Amounts
<1> HIDE DEF subtotal, tax, fee
<1>6. Total(subtotal, o[1], o[2], tax, fee) \in Nat
      /\ Total(subtotal, o[1], o[2], tax, fee) >= tax + fee
    BY <1>1, <1>2, <1>3, <1>4, TotalCoversTaxAndFee
<1> QED
    BY <1>2, <1>3, <1>5, <1>6 DEF subtotal

LEMMA CommitOrderKeeps ==
    ASSUME BillingInv, NEW c \in Calls, NEW o \in Offs(call[c].line.amount),
           CommitOrder(c, o[1], o[2])
    PROVE  BillingInv' /\ \A r \in Rows : Ends(r)
<1>1. PICK k \in CallTypes : k = call[c]
    BY DEF BillingInv, TypeOK, CallTypes
<1>2. /\ member \in [Rows -> Members] /\ Finish(c)
      /\ orders' = orders \cup {Amounts(k, o[1], o[2])}
      /\ member' = [r \in Rows |-> IF r \in Lapsed(k)
                                   THEN [member[r] EXCEPT !.status = "expired"]
                                   ELSE member[r]]
      /\ \/ line' = NoLine /\ shown' = 0
         \/ line' = line /\ shown' = shown
      /\ UNCHANGED <<now, requests, price, offered, raced>>
    BY <1>1 DEF CommitOrder, BillingInv, TypeOK, prices
<1>3. \A r \in Rows : [member[r] EXCEPT !.status = "expired"] \in Members
                       /\ [member[r] EXCEPT !.status = "expired"].status = "expired"
    BY <1>2 DEF Members, Statuses
<1>4. member' \in [Rows -> Members]
    BY <1>2, <1>3
<1>5. \A r \in Rows : Ends(r)
    BY <1>2, <1>3 DEF Ends
<1>6. Actives' \subseteq Actives
    BY <1>2, <1>3 DEF Actives
<1>7. /\ call' \in [Calls -> CallTypes]
      /\ \A d \in Calls : call'[d].line.amount = call'[d].shown
      /\ NothingOverlooked'
    BY <1>2, CallEnds
<1>8. /\ Amounts(k, o[1], o[2]).amount = Amounts(k, o[1], o[2]).shown
      /\ Amounts(k, o[1], o[2]).total \in Nat
      /\ Amounts(k, o[1], o[2]).total >= Amounts(k, o[1], o[2]).fee
    <2>1. k.line.amount = k.shown
        BY <1>1 DEF BillingInv, LineAsShown
    <2> QED
        BY <1>1, <2>1, AmountsOfOrder
<1>9. TypeOK'
    <2>1. \A x \in orders' : x.total \in Nat /\ x.total >= x.fee
        BY <1>2, <1>8 DEF BillingInv, TypeOK
    <2> QED
        BY <1>2, <1>4, <1>7, <2>1, Blank DEF BillingInv, TypeOK, CallTypes
<1>10. LineAsShown'
    BY <1>2, <1>7, Blank DEF BillingInv, LineAsShown
<1>11. ChargedAsShown'
    BY <1>2, <1>8 DEF BillingInv, ChargedAsShown
<1>12. OneUnlessRaced'
    BY <1>2, <1>6, FewerActives
<1> QED
    BY <1>5, <1>7, <1>9, <1>10, <1>11, <1>12 DEF BillingInv

-----------------------------------------------------------------------------

LEMMA Beginning == Init => BillingInv
<1> SUFFICES ASSUME Init PROVE BillingInv
    OBVIOUS
<1>1. TypeOK
    <2>1. NoPrice \in [amount : Nat, ends : Nat, active : BOOLEAN]
        BY DEF NoPrice
    <2>2. call \in [Calls -> CallTypes]
        BY Blank DEF Init
    <2>3. now \in 0..MaxTime /\ requests \in 0..MaxRequests
        BY BillingConstants DEF Init
    <2> QED
        BY <2>1, <2>2, <2>3, Blank DEF Init, TypeOK, CallTypes
<1>2. LineAsShown /\ ChargedAsShown /\ NothingOverlooked
    BY Blank DEF Init, LineAsShown, ChargedAsShown, NothingOverlooked
<1>3. OneUnlessRaced
    BY Blank DEF Init, OneUnlessRaced, Actives
<1> QED
    BY <1>1, <1>2, <1>3 DEF BillingInv

LEMMA StepKeeps == BillingInv /\ [Next]_vars => BillingInv' /\ \A r \in Rows : Ends(r)
<1> SUFFICES ASSUME BillingInv, [Next]_vars PROVE BillingInv' /\ \A r \in Rows : Ends(r)
    OBVIOUS
<1>1. ASSUME member' = member PROVE \A r \in Rows : Ends(r)
    BY <1>1 DEF Ends
<1>2. CASE \/ Tick
           \/ \E w \in PriceWrites : SetVariantPrice(w)
           \/ \E s \in Starts : DeactivatePrice(s)
           \/ \E p \in Plans : CreatePlan(p)
    BY <1>1, <1>2, ShopKeeps DEF Tick, SetVariantPrice, DeactivatePrice, CreatePlan
<1>3. CASE RemoveLine \/ \E id \in 1..MaxLines : TouchLine(id)
    BY <1>1, <1>3, LineKeeps DEF TouchLine, RemoveLine
<1>4. ASSUME NEW c \in Calls,
             \/ \E p \in Plans : ReadFor(c, "subscribe", p)
             \/ ReadFor(c, "cancel", Idle.plan)
             \/ LoadCart(c) \/ PriceOrder(c) \/ Abort(c)
      PROVE  BillingInv' /\ \A r \in Rows : Ends(r)
    BY <1>1, <1>4, ReadStepsKeep DEF ReadFor, LoadCart, PriceOrder, Abort
<1>5. ASSUME NEW c \in Calls, Extend(c) \/ Cancel(c) \/ \E r \in Rows : Subscribe(c, r)
      PROVE  BillingInv' /\ \A r \in Rows : Ends(r)
    BY <1>5, ExtendKeeps, CancelKeeps, SubscribeKeeps
<1>6. ASSUME NEW c \in Calls, NEW o \in Offs(call[c].line.amount), CommitOrder(c, o[1], o[2])
      PROVE  BillingInv' /\ \A r \in Rows : Ends(r)
    BY <1>6, CommitOrderKeeps
<1>7. CASE UNCHANGED vars
    <2>1. /\ UNCHANGED <<now, requests, price, offered, line, shown, member, orders, call, raced>>
        BY <1>7 DEF vars, prices
    <2> QED
        BY <1>1, <2>1, OutsideKeeps DEF BillingInv, TypeOK
<1> QED
    BY <1>2, <1>3, <1>4, <1>5, <1>6, <1>7 DEF Next

LEMMA Invariance == Spec => []BillingInv
BY Beginning, StepKeeps, PTL DEF Spec

-----------------------------------------------------------------------------

(* Prices, the line, memberships and requests stay well typed, and no      *)
(* order is charged less than its delivery fee (create_order_from_cart,    *)
(* subscribe_to_plan, set_variant_price).                                  *)
THEOREM TypeCorrect == Spec => []TypeOK
<1>1. BillingInv => TypeOK
    BY DEF BillingInv
<1> QED
    BY <1>1, Invariance, PTL

(* A customer has one active membership unless two subscriptions raced     *)
(* (subscribe_to_plan).                                                    *)
THEOREM OneMembershipUnlessRacedHolds == Spec => []OneMembershipUnlessRaced
<1>1. BillingInv => OneMembershipUnlessRaced
    <2> SUFFICES ASSUME BillingInv, ~raced PROVE Cardinality(Actives) <= 1
        BY DEF OneMembershipUnlessRaced
    <2>1. CASE Actives = {}
        BY <2>1, FS_EmptySet
    <2>2. ASSUME NEW a \in Actives PROVE Cardinality(Actives) <= 1
        <3>1. Actives = {a}
            BY DEF BillingInv, OneUnlessRaced
        <3>2. Cardinality({a}) = 1
            BY FS_Singleton
        <3> QED
            BY <3>1, <3>2
    <2> QED
        BY <2>1, <2>2
<1> QED
    BY <1>1, Invariance, PTL

(* A membership that ended never comes back, whatever was read before it   *)
(* did (subscribe_to_plan, cancel_membership).                             *)
THEOREM EndedStaysEndedHolds == Spec => EndedStaysEnded
<1>1. BillingInv /\ [Next]_vars
        => [\A r \in Rows : member[r].status \in {"expired", "cancelled"} =>
                member'[r].status \in {"expired", "cancelled"}]_vars
    BY StepKeeps DEF Ends
<1> QED
    BY <1>1, Invariance, PTL DEF Spec, EndedStaysEnded

(* An order charges the price that was current when the line was last      *)
(* touched (create_order_from_cart, _snapshot_price).                      *)
THEOREM ChargedAsShownHolds == Spec => []ChargedAsShown
<1>1. BillingInv => ChargedAsShown
    BY DEF BillingInv
<1> QED
    BY <1>1, Invariance, PTL
====
