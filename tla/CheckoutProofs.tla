---- MODULE CheckoutProofs ----
(***************************************************************************)
(* Proofs about Checkout: what each running checkout holds and has read,   *)
(* and with it that stock is taken in whole orders (AtomicOrders).         *)
(*                                                                         *)
(* The inductive invariant says of every transaction, Tx(t), what its locks*)
(* protect: the balance of a line it reserved still has room for it, an    *)
(* account it redeems from still covers it; and that the coupon's count,   *)
(* stored or read, never exceeds the orders that used the coupon.          *)
(***************************************************************************)
EXTENDS Checkout, FiniteSetTheorems, WellFoundedInduction, TLAPS

(* A reserved line keeps its balance locked, and the balance has room.     *)
HoldsLine(t, l) ==
    /\ lock[BalanceRow(l.variant)] = t
    /\ reserved[l.variant] + l.quantity <= OnHand[l.variant]

(* The account of a redemption is locked and still covers it; the account  *)
(* is locked, whatever is redeemed, once it is flushed.                    *)
HoldsAccount(t) ==
    LET o == order[t]
    IN  /\ stage[t] \in {"award", "flush"} /\ o.redeem > 0 =>
              lock[PointsRow(o.user)] = t /\ points[o.user] >= o.redeem
        /\ stage[t] = "flush" /\ PointsRow(o.user) \notin o.todo => lock[PointsRow(o.user)] = t

(* It holds the balances of the lines it reserved, later also its account  *)
(* and the coupon, and nothing else.                                       *)
HoldsOnly(t) ==
    \A r \in Rows : lock[r] = t =>
        /\ stage[t] \in Running
        /\ \/ \E l \in order[t].lines \ order[t].left : r = BalanceRow(l.variant)
           \/ stage[t] \in {"award", "flush"} /\ r \in {PointsRow(order[t].user), CouponRow}

OneLineEach(lines) == \A l, m \in lines : l.variant = m.variant => l = m

Tx(t) ==
    /\ order[t].seenUses < MaxUses /\ order[t].seenUses <= Cardinality(Usages)
    /\ order[t].left \subseteq order[t].lines
    /\ OneLineEach(order[t].lines)
    /\ order[t].todo \subseteq {PointsRow(order[t].user), CouponRow}
    /\ HoldsOnly(t)
    /\ stage[t] \in Running =>
          /\ order[t].user \in Users
          /\ order[t].lines # {}
          /\ stage[t] = "reserve" <=> order[t].left # {}
          /\ \A l \in order[t].lines \ order[t].left : HoldsLine(t, l)
          /\ HoldsAccount(t)

CouponCounted == uses <= Cardinality(Usages) /\ ClosedOnlyWhenUsedUp
StockCovers == \A v \in Variants : reserved[v] <= OnHand[v]

CartsAreProper == \A u \in Users : ProperCart(cart[u], u, 2 + edits)

CheckoutInv ==
    /\ TypeOK
    /\ CartsAreProper
    /\ CouponCounted
    /\ StockCovers
    /\ \A t \in Checkouts : Tx(t)

(* A checkout that cannot take its next row waits, and only for checkouts  *)
(* that are running: never for itself, nor for one that is over.           *)
Blocked(t) ==
    \/ stage[t] = "reserve" /\ ~Free(BalanceRow(NextLine(t).variant))
    \/ stage[t] = "redeem" /\ ~Free(PointsRow(order[t].user))
    \/ stage[t] = "flush" /\ order[t].todo # {} /\ \A r \in order[t].todo : lock[r] \notin {Nobody, t}
WaitsForTheRunning ==
    \A t \in Checkouts : Blocked(t) =>
        WaitsFor(t) # {} /\ WaitsFor(t) \subseteq {x \in Checkouts \ {t} : stage[x] \in Running}

(* A step that leaves the stock, the coupon, the accounts and the orders   *)
(* placed alone.                                                           *)
Quiet ==
    /\ UNCHANGED dbVars
    /\ \A t \in Checkouts : "done" \in {stage[t], stage'[t]} =>
           stage'[t] = stage[t] /\ order'[t] = order[t]

-----------------------------------------------------------------------------
(* The next line, and the orders that used the coupon.                     *)

LEMMA LeastExists ==
    ASSUME NEW S \in SUBSET Nat, S # {}
    PROVE  \E x \in S : \A y \in S : x <= y
<1>1. PICK x \in S : \A y \in S : ~(<<y, x>> \in OpToRel(<, Nat))
    BY NatLessThanWellFounded, WFMin
<1>2. ASSUME NEW y \in S PROVE x <= y
    <2>1. ~(y < x)
        BY <1>1 DEF OpToRel
    <2> QED
        BY <2>1
<1> QED
    BY <1>2

LEMMA NextLineIsLeft ==
    ASSUME TypeOK, NEW t \in Checkouts, order[t].left # {}
    PROVE  /\ NextLine(t) \in order[t].left /\ NextLine(t) \in Lines
           /\ \A m \in order[t].left : NextLine(t).id[2] <= m.id[2]
<1> DEFINE left == order[t].left
           numbers == {l.id[2] : l \in left}
<1>1. left \subseteq Lines /\ left # {}
    BY DEF TypeOK, Orders
<1>2. \A l \in Lines : l.id[2] \in Nat
    BY DEF Lines
<1>3. numbers \subseteq Nat /\ numbers # {}
    BY <1>1, <1>2
<1>4. PICK n \in numbers : \A m \in numbers : n <= m
    BY <1>3, LeastExists
<1>5. \E l \in left : \A m \in left : l.id[2] <= m.id[2]
    BY <1>4
<1> HIDE DEF left
<1> QED
    BY <1>1, <1>5 DEF NextLine, left

LEMMA UsagesFinite ==
    /\ IsFiniteSet(Usages) /\ Cardinality(Usages) \in Nat
    /\ IsFiniteSet(Usages') /\ Cardinality(Usages') \in Nat
    /\ Usages \subseteq Usages' => Cardinality(Usages) <= Cardinality(Usages')
<1>1. Usages \in SUBSET Checkouts /\ Usages' \in SUBSET Checkouts
    BY DEF Usages
<1>2. IsFiniteSet(Usages) /\ IsFiniteSet(Usages')
    BY <1>1, CheckoutConstants, FS_Subset
<1> QED
    BY <1>2, FS_CardinalityType, FS_Subset

-----------------------------------------------------------------------------
(* What a step leaves alone.                                               *)

LEMMA QuietStep ==
    ASSUME CouponCounted, StockCovers, Quiet
    PROVE  /\ CouponCounted' /\ StockCovers' /\ Usages' = Usages
           /\ UNCHANGED <<[v \in Variants |-> OnHand[v] - reserved[v]],
                          [t \in Checkouts |-> Ordered(t)]>>
<1>1. Usages' = Usages
    BY DEF Quiet, Usages
<1>2. \A t \in Checkouts : Ordered(t)' = Ordered(t)
    BY DEF Quiet, Ordered
<1> QED
    BY <1>1, <1>2 DEF Quiet, dbVars, CouponCounted, ClosedOnlyWhenUsedUp, StockCovers

(* A checkout that does not move keeps what its locks protect.             *)
LEMMA OthersKeep ==
    ASSUME TypeOK, NEW t \in Checkouts, Tx(t),
           stage'[t] = stage[t], order'[t] = order[t], Usages \subseteq Usages',
           \A r \in Rows : lock'[r] = t <=> lock[r] = t,
           \A v \in Variants : lock[BalanceRow(v)] = t => reserved'[v] = reserved[v],
           \A u \in Users : lock[PointsRow(u)] = t => points'[u] = points[u]
    PROVE  Tx(t)'
<1>1. /\ order[t].seenUses \in Nat /\ order[t].lines \subseteq Lines
      /\ \A l \in Lines : l.variant \in Variants
    BY DEF TypeOK, Orders, Lines
<1>2. \A v \in Variants : BalanceRow(v) \in Rows
    BY DEF Rows
<1>3. \A u \in Users : PointsRow(u) \in Rows
    BY DEF Rows
<1>4. order'[t].seenUses < MaxUses /\ order'[t].seenUses <= Cardinality(Usages')
    BY <1>1, UsagesFinite DEF Tx
<1>5. ASSUME stage[t] \in Running, NEW l \in order[t].lines \ order[t].left
      PROVE  HoldsLine(t, l)'
    BY <1>1, <1>2, <1>5 DEF Tx, HoldsLine
<1>6. ASSUME stage[t] \in Running PROVE HoldsAccount(t)'
    BY <1>3, <1>6 DEF Tx, HoldsAccount
<1>7. HoldsOnly(t)'
    BY DEF Tx, HoldsOnly
<1> QED
    BY <1>4, <1>5, <1>6, <1>7 DEF Tx

(* One checkout moves, without committing.                                 *)
LEMMA OneMoves ==
    ASSUME CheckoutInv, NEW t \in Checkouts, NEW s \in Stages \ {"done"}, NEW o \in Orders,
           stage[t] # "done", stage' = [stage EXCEPT ![t] = s], order' = [order EXCEPT ![t] = o],
           UNCHANGED <<cartVars, dbVars>>,
           lock' \in [Rows -> Checkouts \cup {Nobody}],
           \A x \in Checkouts \ {t} : \A r \in Rows : lock'[r] = x <=> lock[r] = x,
           Usages' = Usages => Tx(t)'
    PROVE  CheckoutInv' /\ Quiet
<1>1. /\ stage'[t] = s /\ stage' \in [Checkouts -> Stages] /\ order' \in [Checkouts -> Orders]
      /\ \A x \in Checkouts \ {t} : stage'[x] = stage[x] /\ order'[x] = order[x]
    BY DEF CheckoutInv, TypeOK
<1>2. Quiet
    BY <1>1 DEF Quiet
<1>3. CouponCounted' /\ StockCovers' /\ Usages' = Usages
    BY <1>2, QuietStep DEF CheckoutInv
<1>4. TypeOK'
    BY <1>1 DEF CheckoutInv, TypeOK, cartVars, dbVars
<1>5. ASSUME NEW x \in Checkouts \ {t} PROVE Tx(x)'
    <2>1. reserved' = reserved /\ points' = points
        BY DEF dbVars
    <2> QED
        BY <1>1, <1>3, <2>1, OthersKeep DEF CheckoutInv
<1>6. CartsAreProper'
    BY DEF CheckoutInv, CartsAreProper, cartVars
<1> QED
    BY <1>2, <1>3, <1>4, <1>5, <1>6 DEF CheckoutInv

(* Taking a lock nobody else holds takes nothing from anybody.             *)
LEMMA TakeFrame ==
    ASSUME TypeOK, NEW t \in Checkouts, NEW r \in Rows, lock[r] \in {Nobody, t}, Take(t, r)
    PROVE  /\ lock' \in [Rows -> Checkouts \cup {Nobody}] /\ lock'[r] = t
           /\ \A x \in Checkouts \ {t}, y \in Rows : lock'[y] = x <=> lock[y] = x
           /\ \A y \in Rows : lock'[y] = t <=> y = r \/ lock[y] = t
BY CheckoutConstants DEF TypeOK, Take

LEMMA ReleaseFrame ==
    ASSUME TypeOK, NEW t \in Checkouts, ReleaseAll(t)
    PROVE  /\ lock' \in [Rows -> Checkouts \cup {Nobody}]
           /\ \A x \in Checkouts \ {t}, r \in Rows : lock'[r] = x <=> lock[r] = x
           /\ \A r \in Rows : lock'[r] # t
BY CheckoutConstants DEF TypeOK, ReleaseAll

-----------------------------------------------------------------------------
(* The steps of a checkout before its commit.                              *)

LEMMA NoOrderTyped == NoOrder \in Orders
BY CheckoutConstants DEF NoOrder, Orders

LEMMA LoadCartKeeps ==
    ASSUME CheckoutInv, NEW t \in Checkouts, NEW u \in Users, NEW coupon \in BOOLEAN,
           NEW redeem \in {0, Spend}, LoadCart(t, u, coupon, redeem)
    PROVE  CheckoutInv' /\ Quiet
<1> DEFINE o == [NoOrder EXCEPT !.user = u, !.lines = cart[u], !.left = cart[u],
                                !.coupon = coupon, !.redeem = redeem]
<1>1. /\ stage[t] = "new" /\ stage' = [stage EXCEPT ![t] = "reserve"] /\ cart[u] # {}
      /\ order' = [order EXCEPT ![t] = o] /\ UNCHANGED <<cartVars, dbVars, lock>>
    BY DEF LoadCart, Goto
<1>2. o.user = u /\ o.lines = cart[u] /\ o.left = cart[u] /\ o.seenUses = 0 /\ o.todo = {}
    BY DEF NoOrder
<1>3. o \in Orders
    <2>1. cart[u] \in SUBSET Lines /\ redeem \in Nat
        BY CheckoutConstants DEF CheckoutInv, TypeOK
    <2> QED
        BY <2>1, NoOrderTyped DEF Orders
<1> HIDE DEF o
<1>4. stage'[t] = "reserve" /\ order'[t] = o
    BY <1>1 DEF CheckoutInv, TypeOK
<1>5. Tx(t)'
    <2>1. 0 < MaxUses /\ 0 <= Cardinality(Usages')
        BY UsagesFinite, CheckoutConstants
    <2>2. HoldsAccount(t)'
        BY <1>4 DEF HoldsAccount
    <2>3. HoldsOnly(t)'
        BY <1>1 DEF CheckoutInv, Tx, HoldsOnly, Running
    <2>4. OneLineEach(cart[u])
        BY DEF CheckoutInv, CartsAreProper, ProperCart, OneLineEach
    <2> QED
        BY <1>1, <1>2, <1>4, <2>1, <2>2, <2>3, <2>4 DEF Tx
<1>6. lock' \in [Rows -> Checkouts \cup {Nobody}]
    BY <1>1 DEF CheckoutInv, TypeOK
<1> QED
    BY <1>1, <1>3, <1>5, <1>6, OneMoves DEF Stages, Running

LEMMA ReserveLineKeeps ==
    ASSUME CheckoutInv, NEW t \in Checkouts, ReserveLine(t)
    PROVE  CheckoutInv' /\ Quiet
<1> DEFINE l == NextLine(t)
           o == [order[t] EXCEPT !.left = order[t].left \ {l}]
           s == IF o.left = {} THEN AfterReserve(t) ELSE "reserve"
<1>1. /\ stage[t] = "reserve" /\ Tx(t) /\ order[t].left # {} /\ order[t] \in Orders
      /\ order[t].user \in Users /\ order[t].lines # {} /\ order[t].left \subseteq order[t].lines
    BY DEF ReserveLine, CheckoutInv, TypeOK, Tx, Running
<1>2. l \in order[t].left /\ l \in Lines /\ l.variant \in Variants
    BY <1>1, NextLineIsLeft DEF CheckoutInv, Lines
<1>3. /\ lock[BalanceRow(l.variant)] = Nobody /\ Take(t, BalanceRow(l.variant))
      /\ reserved[l.variant] + l.quantity <= OnHand[l.variant]
    BY DEF ReserveLine, CanReserve, Free, InStock
<1>4. /\ o \in Orders /\ o.left = order[t].left \ {l} /\ o.lines = order[t].lines
      /\ o.user = order[t].user /\ o.seenUses = order[t].seenUses /\ o.redeem = order[t].redeem
      /\ o.todo = order[t].todo
    BY <1>1 DEF Orders
<1>5. /\ order' = [order EXCEPT ![t] = o] /\ order'[t] = o
      /\ UNCHANGED <<cartVars, dbVars>>
    BY DEF ReserveLine, CheckoutInv, TypeOK
<1>6. stage' = [stage EXCEPT ![t] = s]
    <2>1. (order'[t].left = {}) <=> (o.left = {})
        BY <1>5
    <2>2. CASE o.left = {}
        BY <2>1, <2>2 DEF ReserveLine, Goto
    <2>3. CASE o.left # {}
        BY <1>1, <2>1, <2>3 DEF ReserveLine, CheckoutInv, TypeOK
    <2> QED
        BY <2>2, <2>3
<1>7. BalanceRow(l.variant) \in Rows
    BY <1>2 DEF Rows
<1>8. /\ lock' \in [Rows -> Checkouts \cup {Nobody}] /\ lock'[BalanceRow(l.variant)] = t
      /\ \A x \in Checkouts \ {t}, y \in Rows : lock'[y] = x <=> lock[y] = x
      /\ \A y \in Rows : lock'[y] = t <=> y = BalanceRow(l.variant) \/ lock[y] = t
    BY <1>3, <1>7, TakeFrame DEF CheckoutInv
<1>9. /\ s \in {"reserve", "coupon", "redeem", "award"} /\ (s = "reserve" <=> o.left # {})
      /\ s = "award" => ~(o.redeem > 0)
    BY <1>4 DEF AfterReserve
<1>10. stage'[t] = s
    BY <1>6 DEF CheckoutInv, TypeOK
<1> HIDE DEF l, o, s
<1>11. ASSUME Usages' = Usages PROVE Tx(t)'
    <2>1. reserved' = reserved
        BY <1>5 DEF dbVars
    <2>2. ASSUME NEW m \in o.lines \ o.left PROVE HoldsLine(t, m)'
        <3>1. CASE m = l
            BY <1>3, <1>8, <2>1, <3>1 DEF HoldsLine
        <3>2. CASE m # l
            <4>1. HoldsLine(t, m)
                BY <1>1, <1>4, <3>2, <2>2 DEF Tx, Running
            <4>2. m.variant \in Variants
                BY <1>1, <1>4, <2>2 DEF Orders, Lines
            <4>3. BalanceRow(m.variant) \in Rows
                BY <4>2 DEF Rows
            <4> QED
                BY <1>8, <2>1, <4>1, <4>3 DEF HoldsLine
        <3> QED
            BY <3>1, <3>2
    <2>3. HoldsAccount(t)'
        BY <1>5, <1>9, <1>10 DEF HoldsAccount
    <2>4. HoldsOnly(t)'
        <3>1. s \in Running /\ l \in o.lines \ o.left
            BY <1>1, <1>2, <1>4, <1>9 DEF Running
        <3>2. ASSUME NEW y \in Rows, lock[y] = t
              PROVE  \E m \in o.lines \ o.left : y = BalanceRow(m.variant)
            BY <1>1, <1>4, <3>2 DEF Tx, HoldsOnly
        <3> QED
            BY <1>5, <1>8, <1>10, <3>1, <3>2 DEF HoldsOnly
    <2> QED
        BY <1>1, <1>4, <1>5, <1>9, <1>10, <1>11, <2>2, <2>3, <2>4 DEF Tx
<1>12. s \in Stages \ {"done"} /\ stage[t] # "done"
    BY <1>1, <1>9 DEF Stages, Running
<1> QED
    BY <1>4, <1>5, <1>6, <1>8, <1>11, <1>12, OneMoves

LEMMA ReadCouponKeeps ==
    ASSUME CheckoutInv, NEW t \in Checkouts, ReadCoupon(t)
    PROVE  CheckoutInv' /\ Quiet
<1> DEFINE o == [order[t] EXCEPT !.seenUses = uses]
           s == IF order[t].redeem > 0 THEN "redeem" ELSE "award"
<1>1. /\ stage[t] = "coupon" /\ Tx(t) /\ order[t] \in Orders /\ uses \in 0..MaxUses
      /\ uses < MaxUses /\ uses <= Cardinality(Usages)
      /\ UNCHANGED <<cartVars, dbVars, lock>>
    BY DEF ReadCoupon, CouponUsable, CheckoutInv, TypeOK, CouponCounted
<1>2. /\ o \in Orders /\ o.seenUses = uses /\ o.left = order[t].left /\ o.lines = order[t].lines
      /\ o.user = order[t].user /\ o.redeem = order[t].redeem /\ o.todo = order[t].todo
    BY <1>1, CheckoutConstants DEF Orders
<1>3. /\ order' = [order EXCEPT ![t] = o] /\ order'[t] = o
      /\ stage' = [stage EXCEPT ![t] = s] /\ stage'[t] = s
    BY DEF ReadCoupon, Goto, CheckoutInv, TypeOK
<1>4. s \in Stages \ {"done"} /\ s \in Running \ {"reserve"} /\ (s = "award" => ~(o.redeem > 0))
      /\ s # "flush"
    BY <1>2 DEF Stages, Running
<1> HIDE DEF o, s
<1>5. ASSUME Usages' = Usages PROVE Tx(t)'
    <2>1. \A m \in o.lines \ o.left : HoldsLine(t, m)'
        BY <1>1, <1>2 DEF Tx, Running, HoldsLine, dbVars
    <2>2. HoldsAccount(t)'
        BY <1>3, <1>4 DEF HoldsAccount
    <2>3. HoldsOnly(t)'
        BY <1>1, <1>2, <1>3, <1>4 DEF Tx, HoldsOnly
    <2> QED
        BY <1>1, <1>2, <1>3, <1>4, <1>5, <2>1, <2>2, <2>3 DEF Tx, Running
<1>6. lock' \in [Rows -> Checkouts \cup {Nobody}] /\ lock' = lock
    BY <1>1 DEF CheckoutInv, TypeOK
<1> QED
    BY <1>1, <1>2, <1>3, <1>4, <1>5, <1>6, OneMoves

LEMMA RedeemKeeps ==
    ASSUME CheckoutInv, NEW t \in Checkouts, Redeem(t)
    PROVE  CheckoutInv' /\ Quiet
<1> DEFINE u == order[t].user
<1>1. /\ stage[t] = "redeem" /\ Tx(t) /\ order[t] \in Orders /\ u \in Users
      /\ lock[PointsRow(u)] = Nobody /\ Take(t, PointsRow(u)) /\ points[u] >= order[t].redeem
      /\ stage' = [stage EXCEPT ![t] = "award"] /\ stage'[t] = "award"
      /\ UNCHANGED <<cartVars, dbVars, order>>
    BY DEF Redeem, AccountFree, EnoughPoints, Free, Goto, CheckoutInv, TypeOK, Tx, Running
<1>2. order' = [order EXCEPT ![t] = order[t]] /\ order'[t] = order[t]
    BY <1>1 DEF CheckoutInv, TypeOK
<1>3. PointsRow(u) \in Rows
    BY <1>1 DEF Rows
<1>4. /\ lock' \in [Rows -> Checkouts \cup {Nobody}] /\ lock'[PointsRow(u)] = t
      /\ \A x \in Checkouts \ {t}, y \in Rows : lock'[y] = x <=> lock[y] = x
      /\ \A y \in Rows : lock'[y] = t <=> y = PointsRow(u) \/ lock[y] = t
    BY <1>1, <1>3, TakeFrame DEF CheckoutInv
<1>5. ASSUME Usages' = Usages PROVE Tx(t)'
    <2>1. reserved' = reserved /\ points' = points
        BY <1>1 DEF dbVars
    <2>2. ASSUME NEW m \in order[t].lines \ order[t].left PROVE HoldsLine(t, m)'
        <3>1. HoldsLine(t, m) /\ m.variant \in Variants
            BY <1>1 DEF Tx, Running, Orders, Lines
        <3>2. BalanceRow(m.variant) \in Rows
            BY <3>1 DEF Rows
        <3> QED
            BY <1>4, <2>1, <3>1, <3>2 DEF HoldsLine
    <2>3. HoldsAccount(t)'
        BY <1>1, <1>2, <1>4, <2>1 DEF HoldsAccount
    <2>4. HoldsOnly(t)'
        BY <1>1, <1>2, <1>4 DEF Tx, HoldsOnly, Running
    <2> QED
        BY <1>1, <1>2, <1>5, <2>2, <2>3, <2>4 DEF Tx, Running
<1>6. "award" \in Stages \ {"done"} /\ stage[t] # "done"
    BY <1>1 DEF Stages, Running
<1> QED
    BY <1>1, <1>2, <1>4, <1>5, <1>6, OneMoves

LEMMA ReadPointsKeeps ==
    ASSUME CheckoutInv, NEW t \in Checkouts, ReadPoints(t)
    PROVE  CheckoutInv' /\ Quiet
<1> DEFINE u == order[t].user
           rows == {PointsRow(u)} \cup (IF order[t].coupon THEN {CouponRow} ELSE {})
           o == [order[t] EXCEPT !.newPoints = points[u] + Award - order[t].redeem, !.todo = rows]
<1>1. /\ stage[t] = "award" /\ Tx(t) /\ order[t] \in Orders /\ u \in Users /\ points[u] \in Nat
      /\ stage' = [stage EXCEPT ![t] = "flush"] /\ stage'[t] = "flush"
      /\ order' = [order EXCEPT ![t] = o]
      /\ UNCHANGED <<cartVars, dbVars, lock>>
    <2>1. stage[t] = "award" /\ Tx(t) /\ order[t] \in Orders /\ points \in [Users -> Nat]
        BY DEF ReadPoints, CheckoutInv, TypeOK
    <2>2. stage' = [stage EXCEPT ![t] = "flush"] /\ stage'[t] = "flush"
        BY DEF ReadPoints, Goto, CheckoutInv, TypeOK
    <2>3. order' = [order EXCEPT ![t] = o] /\ UNCHANGED <<cartVars, dbVars, lock>>
        BY DEF ReadPoints, CheckoutInv, TypeOK
    <2>4. u \in Users
        BY <2>1 DEF Tx, Running
    <2> QED
        BY <2>1, <2>2, <2>3, <2>4
<1>2. rows \subseteq Rows /\ PointsRow(u) \in rows /\ rows \subseteq {PointsRow(u), CouponRow}
    BY <1>1 DEF Rows
<1>3. points[u] + Award - order[t].redeem \in Nat
    <2>1. order[t].redeem \in Nat /\ (order[t].redeem > 0 => points[u] >= order[t].redeem)
        BY <1>1 DEF Tx, Running, HoldsAccount, Orders
    <2> QED
        BY <1>1, <2>1, CheckoutConstants
<1>4. /\ o \in Orders /\ o.todo = rows /\ o.left = order[t].left /\ o.lines = order[t].lines
      /\ o.user = u /\ o.redeem = order[t].redeem /\ o.seenUses = order[t].seenUses
    BY <1>1, <1>2, <1>3 DEF Orders
<1>5. order'[t] = o
    BY <1>1 DEF CheckoutInv, TypeOK
<1> HIDE DEF o, rows
<1>6. ASSUME Usages' = Usages PROVE Tx(t)'
    <2>1. \A m \in o.lines \ o.left : HoldsLine(t, m)'
        BY <1>1, <1>4 DEF Tx, Running, HoldsLine, dbVars
    <2>2. HoldsAccount(t)'
        BY <1>1, <1>2, <1>4, <1>5 DEF Tx, Running, HoldsAccount, dbVars
    <2>3. HoldsOnly(t)'
        BY <1>1, <1>4, <1>5 DEF Tx, HoldsOnly, Running
    <2> QED
        BY <1>1, <1>2, <1>4, <1>5, <1>6, <2>1, <2>2, <2>3 DEF Tx, Running
<1>7. lock' \in [Rows -> Checkouts \cup {Nobody}] /\ lock' = lock
    BY <1>1 DEF CheckoutInv, TypeOK
<1>8. "flush" \in Stages \ {"done"} /\ stage[t] # "done"
    BY <1>1 DEF Stages, Running
<1> QED
    BY <1>1, <1>4, <1>6, <1>7, <1>8, OneMoves

LEMMA FlushRowKeeps ==
    ASSUME CheckoutInv, NEW t \in Checkouts, NEW r \in Rows, FlushRow(t, r)
    PROVE  CheckoutInv' /\ Quiet
<1> DEFINE o == [order[t] EXCEPT !.todo = order[t].todo \ {r}]
<1>1. /\ stage[t] = "flush" /\ Tx(t) /\ order[t] \in Orders /\ order[t].user \in Users
      /\ order' = [order EXCEPT ![t] = o] /\ order'[t] = o
      /\ stage' = [stage EXCEPT ![t] = "flush"] /\ stage'[t] = "flush"
      /\ UNCHANGED <<cartVars, dbVars>>
    BY DEF FlushRow, CheckoutInv, TypeOK, Tx, Running
<1>2. /\ lock' \in [Rows -> Checkouts \cup {Nobody}] /\ lock'[r] = t
      /\ \A x \in Checkouts \ {t}, y \in Rows : lock'[y] = x <=> lock[y] = x
      /\ \A y \in Rows : lock'[y] = t <=> y = r \/ lock[y] = t
    BY TakeFrame DEF FlushRow, CheckoutInv
<1>3. /\ o \in Orders /\ o.todo = order[t].todo \ {r} /\ o.left = order[t].left
      /\ o.lines = order[t].lines /\ o.user = order[t].user /\ o.redeem = order[t].redeem
      /\ o.seenUses = order[t].seenUses
    BY <1>1 DEF Orders
<1> HIDE DEF o
<1>4. ASSUME Usages' = Usages PROVE Tx(t)'
    <2>1. reserved' = reserved /\ points' = points
        BY <1>1 DEF dbVars
    <2>2. ASSUME NEW m \in order[t].lines \ order[t].left PROVE HoldsLine(t, m)'
        <3>1. HoldsLine(t, m) /\ m.variant \in Variants
            BY <1>1 DEF Tx, Running, Orders, Lines
        <3>2. BalanceRow(m.variant) \in Rows
            BY <3>1 DEF Rows
        <3> QED
            BY <1>2, <2>1, <3>1, <3>2 DEF HoldsLine
    <2>3. HoldsAccount(t)'
        <3>1. PointsRow(order[t].user) \in Rows
            BY <1>1 DEF Rows
        <3> QED
            BY <1>1, <1>2, <1>3, <2>1, <3>1 DEF Tx, Running, HoldsAccount
    <2>4. HoldsOnly(t)'
        <3>1. r \in {PointsRow(order[t].user), CouponRow}
            BY <1>1 DEF FlushRow, Tx
        <3> QED
            BY <1>1, <1>2, <1>3, <3>1 DEF Tx, HoldsOnly, Running
    <2> QED
        BY <1>1, <1>3, <1>4, <2>2, <2>3, <2>4 DEF Tx, Running
<1>5. "flush" \in Stages \ {"done"} /\ stage[t] # "done"
    BY <1>1 DEF Stages, Running
<1> QED
    BY <1>1, <1>2, <1>3, <1>4, <1>5, OneMoves

LEMMA RollbackKeeps ==
    ASSUME CheckoutInv, NEW t \in Checkouts, stage[t] \in Running, Rollback(t)
    PROVE  CheckoutInv' /\ Quiet
<1>1. /\ stage' = [stage EXCEPT ![t] = "failed"] /\ stage'[t] = "failed"
      /\ order' = [order EXCEPT ![t] = NoOrder] /\ order'[t] = NoOrder
      /\ ReleaseAll(t) /\ UNCHANGED <<cartVars, dbVars>>
    BY DEF Rollback, Goto, CheckoutInv, TypeOK
<1>2. /\ lock' \in [Rows -> Checkouts \cup {Nobody}]
      /\ \A x \in Checkouts \ {t}, r \in Rows : lock'[r] = x <=> lock[r] = x
      /\ \A r \in Rows : lock'[r] # t
    BY <1>1, ReleaseFrame DEF CheckoutInv
<1>3. Tx(t)'
    BY <1>1, <1>2, UsagesFinite, CheckoutConstants
       DEF Tx, HoldsOnly, OneLineEach, Running, NoOrder
<1>4. "failed" \in Stages \ {"done"} /\ stage[t] # "done"
    BY DEF Stages, Running
<1> QED
    BY <1>1, <1>2, <1>3, <1>4, NoOrderTyped, OneMoves

(* A checkout in a cycle of waits waits, so it is running.                 *)
LEMMA AbortKeeps ==
    ASSUME CheckoutInv, NEW t \in Checkouts, Refuse(t) \/ Fail(t) \/ AbortDeadlock(t)
    PROVE  CheckoutInv' /\ Quiet
<1>1. Rollback(t)
    BY DEF Refuse, Fail, AbortDeadlock
<1>2. stage[t] \in Running
    <2>1. CASE AbortDeadlock(t)
        <3>1. WaitsFor(t) # {}
            BY <2>1 DEF AbortDeadlock, Deadlocked
        <3> QED
            BY <3>1 DEF WaitsFor, Running
    <2> QED
        BY <2>1 DEF Refuse, Fail, Running
<1> QED
    BY <1>1, <1>2, RollbackKeeps

-----------------------------------------------------------------------------
(* The cart edits, and the commit.                                         *)

(* Carts only.                                                             *)
LEMMA CartStep ==
    ASSUME CheckoutInv, cart' \in [Users -> SUBSET Lines], edits' \in 0..MaxEdits,
           CartsAreProper', UNCHANGED <<dbVars, txVars>>
    PROVE  CheckoutInv' /\ Quiet
<1>1. Quiet
    BY DEF Quiet, txVars
<1>2. CouponCounted' /\ StockCovers' /\ Usages' = Usages
    BY <1>1, QuietStep DEF CheckoutInv
<1>3. TypeOK'
    BY DEF CheckoutInv, TypeOK, dbVars, txVars
<1>4. ASSUME NEW t \in Checkouts PROVE Tx(t)'
    BY <1>2, OthersKeep DEF CheckoutInv, dbVars, txVars
<1> QED
    BY <1>1, <1>2, <1>3, <1>4 DEF CheckoutInv

(* What an edit makes of a proper cart is one: add_cart_item looks for the *)
(* variant first, and new lines have new ids.                              *)
LEMMA ProperStays ==
    ASSUME NEW u \in Users, NEW n \in Nat, NEW lines \in SUBSET Lines, ProperCart(lines, u, n)
    PROVE  /\ \A l \in lines : ProperCart(lines \ {l}, u, n + 1)
           /\ \A l \in lines : \A q \in 1..MaxQty :
                ProperCart((lines \ {l}) \cup {Changed(l, q)}, u, n + 1)
           /\ \A v \in Variants, q \in 1..MaxQty : LineOf(lines, v) = {} =>
                ProperCart(lines \cup {Line(<<u, n + 1>>, v, q)}, u, n + 1)
<1>1. /\ \A l \in lines : l.id[1] = u /\ l.id[2] \in Nat /\ l.id[2] <= n
      /\ \A l, m \in lines : l.variant = m.variant \/ l.id = m.id => l = m
    BY DEF ProperCart, Lines
<1>2. \A l \in lines : l.id[2] <= n + 1
    BY <1>1
<1>3. ASSUME NEW l \in lines PROVE ProperCart(lines \ {l}, u, n + 1)
    BY <1>1, <1>2 DEF ProperCart
<1>4. ASSUME NEW l \in lines, NEW q \in 1..MaxQty
      PROVE  ProperCart((lines \ {l}) \cup {Changed(l, q)}, u, n + 1)
    <2> DEFINE m == Changed(l, q)
    <2>1. m.id = l.id /\ m.variant = l.variant
        BY DEF Changed, Lines
    <2> HIDE DEF m
    <2>2. \A k \in lines \ {l} : k.variant # m.variant /\ k.id # m.id
        BY <1>1, <2>1
    <2> QED
        BY <1>1, <1>2, <2>1, <2>2 DEF ProperCart, m
<1>5. ASSUME NEW v \in Variants, NEW q \in 1..MaxQty, LineOf(lines, v) = {}
      PROVE  ProperCart(lines \cup {Line(<<u, n + 1>>, v, q)}, u, n + 1)
    <2> DEFINE m == Line(<<u, n + 1>>, v, q)
    <2>1. m.id = <<u, n + 1>> /\ m.variant = v /\ m.id[1] = u /\ m.id[2] = n + 1
        BY DEF Line
    <2> HIDE DEF m
    <2>2. \A k \in lines : k.variant # m.variant
        BY <1>5, <2>1 DEF LineOf
    <2>3. \A k \in lines : k.id # m.id
        BY <1>1, <2>1
    <2>4. m.id[2] <= n + 1
        BY <2>1
    <2>5. \A k \in lines \cup {m} : k.id[1] = u /\ k.id[2] <= n + 1
        BY <1>1, <1>2, <2>1, <2>4
    <2> QED
        BY <1>1, <2>2, <2>3, <2>5 DEF ProperCart, m
<1> QED
    BY <1>3, <1>4, <1>5

LEMMA EditKeeps ==
    ASSUME CheckoutInv, NEW u \in Users,
           \/ \E v \in Variants, q \in 1..MaxQty : AddItem(u, v, q)
           \/ \E l \in cart[u] : RemoveItem(u, l) \/ \E q \in 1..MaxQty : UpdateItem(u, l, q)
    PROVE  CheckoutInv' /\ Quiet /\ edits' # edits
<1>1. /\ edits \in 0..MaxEdits /\ edits < MaxEdits /\ edits' = edits + 1
      /\ UNCHANGED <<dbVars, txVars>>
    BY DEF AddItem, RemoveItem, UpdateItem, CheckoutInv, TypeOK
<1>2. edits' \in 0..MaxEdits /\ edits' # edits
    BY <1>1, CheckoutConstants
<1>3. PICK n \in Nat : n = 2 + edits /\ n + 1 = 2 + edits'
    BY <1>1
<1>4. /\ cart \in [Users -> SUBSET Lines] /\ cart[u] \in SUBSET Lines
      /\ \A x \in Users : ProperCart(cart[x], x, n)
    BY <1>3 DEF CheckoutInv, TypeOK, CartsAreProper
<1> DEFINE Fits(lines) == lines \in SUBSET Lines /\ ProperCart(lines, u, n + 1)
<1>5. \A l \in cart[u] : Fits(cart[u] \ {l})
    BY <1>4, ProperStays
<1>6. ASSUME NEW l \in cart[u], NEW q \in 1..MaxQty
      PROVE  Fits((cart[u] \ {l}) \cup {Changed(l, q)})
    <2>1. Changed(l, q) \in Lines
        BY <1>4 DEF Changed, Lines
    <2>2. ProperCart((cart[u] \ {l}) \cup {Changed(l, q)}, u, n + 1)
        BY <1>4, ProperStays
    <2> QED
        BY <1>4, <2>1, <2>2
<1>7. ASSUME NEW v \in Variants, NEW q \in 1..MaxQty, LineOf(cart[u], v) = {}
      PROVE  Fits(cart[u] \cup {Line(<<u, n + 1>>, v, q)})
    <2>1. Line(<<u, n + 1>>, v, q) \in Lines
        BY DEF Line, Lines
    <2>2. ProperCart(cart[u] \cup {Line(<<u, n + 1>>, v, q)}, u, n + 1)
        BY <1>4, <1>7, ProperStays
    <2> QED
        BY <1>4, <2>1, <2>2
<1> HIDE DEF Fits
<1>8. \E lines : Fits(lines) /\ cart' = [cart EXCEPT ![u] = lines]
    <2>1. ASSUME NEW v \in Variants, NEW q \in 1..MaxQty, AddItem(u, v, q)
          PROVE  \E lines : Fits(lines) /\ cart' = [cart EXCEPT ![u] = lines]
        <3>1. CASE LineOf(cart[u], v) = {} /\
                     cart' = [cart EXCEPT ![u] = cart[u] \cup {Line(<<u, n + 1>>, v, q)}]
            BY <1>7, <3>1
        <3>2. ASSUME NEW l \in LineOf(cart[u], v), l.quantity + q <= MaxQty,
                     cart' = [cart EXCEPT ![u] = (cart[u] \ {l}) \cup {Changed(l, l.quantity + q)}]
              PROVE  \E lines : Fits(lines) /\ cart' = [cart EXCEPT ![u] = lines]
            <4>1. l \in cart[u] /\ l.quantity \in 1..MaxQty
                BY <1>4 DEF LineOf, Lines
            <4>2. l.quantity + q \in 1..MaxQty
                BY <3>2, <4>1, CheckoutConstants
            <4> QED
                BY <1>6, <3>2, <4>1, <4>2
        <3> QED
            BY <1>3, <2>1, <3>1, <3>2 DEF AddItem
    <2>2. ASSUME NEW l \in cart[u], RemoveItem(u, l)
          PROVE  \E lines : Fits(lines) /\ cart' = [cart EXCEPT ![u] = lines]
        BY <1>5, <2>2 DEF RemoveItem
    <2>3. ASSUME NEW l \in cart[u], NEW q \in 1..MaxQty, UpdateItem(u, l, q)
          PROVE  \E lines : Fits(lines) /\ cart' = [cart EXCEPT ![u] = lines]
        BY <1>6, <2>3 DEF UpdateItem
    <2> QED
        BY <2>1, <2>2, <2>3
<1>9. cart' \in [Users -> SUBSET Lines] /\ CartsAreProper'
    <2>1. PICK lines : Fits(lines) /\ cart' = [cart EXCEPT ![u] = lines]
        BY <1>8
    <2>2. cart'[u] = lines /\ \A x \in Users \ {u} : cart'[x] = cart[x]
        BY <1>4, <2>1
    <2>3. \A x \in Users \ {u} : ProperCart(cart[x], x, n + 1)
        <3>1. \A x \in Users : \A l \in cart[x] : l.id[2] \in Nat
            BY <1>4 DEF Lines
        <3> QED
            BY <1>4, <3>1 DEF ProperCart
    <2> QED
        BY <1>3, <1>4, <2>1, <2>2, <2>3 DEF Fits, CartsAreProper
<1> QED
    BY <1>1, <1>2, <1>9, CartStep

(* What a set of lines says of a variant.                                  *)
LEMMA QuantityOfLine ==
    ASSUME NEW lines \in SUBSET Lines, NEW v \in Variants
    PROVE  /\ QuantityOf(lines, v) \in Nat
           /\ (\A l \in lines : l.variant # v) => QuantityOf(lines, v) = 0
           /\ (\E l \in lines : l.variant = v) =>
                  \E l \in lines : /\ l.variant = v /\ QuantityOf(lines, v) = l.quantity
                                   /\ l.quantity > 0
<1>1. \A l \in lines : l.quantity \in Nat /\ l.quantity > 0
    BY CheckoutConstants DEF Lines
<1> DEFINE some == CHOOSE l \in LineOf(lines, v) : TRUE
<1>2. LineOf(lines, v) # {} => some \in lines /\ some.variant = v
    BY DEF LineOf
<1>3. QuantityOf(lines, v) = IF LineOf(lines, v) = {} THEN 0 ELSE some.quantity
    BY DEF QuantityOf
<1> HIDE DEF some
<1> QED
    BY <1>1, <1>2, <1>3 DEF LineOf

LEMMA CommitKeeps ==
    ASSUME CheckoutInv, NEW t \in Checkouts, Commit(t)
    PROVE  /\ CheckoutInv'
           /\ Promise!Place(t)
           /\ \A u \in Users : \A l \in cart[u] \ cart'[u] : Buys(t, l)
<1> DEFINE o == order[t]
           n == [NoOrder EXCEPT !.user = o.user, !.lines = o.lines, !.coupon = o.coupon,
                                !.redeem = o.redeem]
           q(v) == QuantityOf(o.lines, v)
<1>1. /\ stage[t] = "flush" /\ o.todo = {} /\ o \in Orders /\ o.left = {} /\ o.lines # {}
      /\ o.user \in Users /\ o.lines \in SUBSET Lines /\ o.newPoints \in Nat
      /\ o.seenUses \in Nat /\ o.seenUses < MaxUses /\ o.seenUses <= Cardinality(Usages)
      /\ lock[PointsRow(o.user)] = t /\ \A l \in o.lines : HoldsLine(t, l)
    BY DEF Commit, CheckoutInv, TypeOK, Tx, Running, HoldsAccount, Orders
<1>2. /\ stage' = [stage EXCEPT ![t] = "done"] /\ order' = [order EXCEPT ![t] = n]
      /\ reserved' = [v \in Variants |-> reserved[v] + q(v)]
      /\ uses' = (IF o.coupon THEN o.seenUses + 1 ELSE uses)
      /\ exhausted' = (exhausted \/ (o.coupon /\ Exhausts(t)))
      /\ points' = [points EXCEPT ![o.user] = o.newPoints]
      /\ cart' = [cart EXCEPT ![o.user] = ClearLines(@, o.lines)]
      /\ ReleaseAll(t) /\ edits' = edits
    BY DEF Commit, Goto
<1>3. /\ n \in Orders /\ n.lines = o.lines /\ n.coupon = o.coupon /\ n.seenUses = 0 /\ n.left = {}
      /\ n.todo = {}
    BY <1>1, NoOrderTyped DEF Orders, NoOrder
<1>4. /\ stage'[t] = "done" /\ order'[t] = n
      /\ stage' \in [Checkouts -> Stages] /\ order' \in [Checkouts -> Orders]
      /\ \A x \in Checkouts \ {t} : stage'[x] = stage[x] /\ order'[x] = order[x]
    BY <1>2, <1>3 DEF CheckoutInv, TypeOK, Stages
<1>5. \A v \in Variants :
        /\ q(v) \in Nat /\ reserved'[v] = reserved[v] + q(v)
        /\ reserved[v] \in Nat /\ OnHand[v] \in Nat /\ reserved'[v] <= OnHand[v]
        /\ q(v) # 0 => lock[BalanceRow(v)] = t
    <2> SUFFICES ASSUME NEW v \in Variants
                 PROVE  /\ q(v) \in Nat /\ reserved'[v] = reserved[v] + q(v)
                        /\ reserved[v] \in Nat /\ OnHand[v] \in Nat /\ reserved'[v] <= OnHand[v]
                        /\ q(v) # 0 => lock[BalanceRow(v)] = t
        OBVIOUS
    <2>1. /\ q(v) \in Nat /\ reserved[v] \in Nat /\ OnHand[v] \in Nat
          /\ reserved'[v] = reserved[v] + q(v) /\ reserved[v] <= OnHand[v]
        BY <1>1, <1>2, QuantityOfLine, CheckoutConstants DEF CheckoutInv, TypeOK, StockCovers
    <2>2. CASE \A l \in o.lines : l.variant # v
        <3>1. q(v) = 0
            BY <1>1, <2>2, QuantityOfLine
        <3> QED
            BY <2>1, <3>1
    <2>3. CASE \E l \in o.lines : l.variant = v
        <3>1. PICK l \in o.lines : l.variant = v /\ q(v) = l.quantity
            BY <1>1, <2>3, QuantityOfLine
        <3>2. HoldsLine(t, l)
            BY <1>1
        <3> QED
            BY <2>1, <3>1, <3>2 DEF HoldsLine
    <2> QED
        BY <2>2, <2>3
<1>6. \E v \in Variants : q(v) # 0
    <2>1. PICK l \in o.lines : TRUE
        BY <1>1
    <2>2. l.variant \in Variants
        BY <1>1, <2>1 DEF Lines
    <2>3. PICK m \in o.lines : q(l.variant) = m.quantity /\ m.quantity > 0
        BY <1>1, <2>1, <2>2, QuantityOfLine
    <2> QED
        BY <2>2, <2>3
<1>7. /\ lock' \in [Rows -> Checkouts \cup {Nobody}]
      /\ \A x \in Checkouts \ {t}, r \in Rows : lock'[r] = x <=> lock[r] = x
      /\ \A r \in Rows : lock'[r] # t
    BY <1>2, ReleaseFrame DEF CheckoutInv
<1>8. Usages' = (IF o.coupon THEN Usages \cup {t} ELSE Usages) /\ t \notin Usages
    <2>1. \A x \in Checkouts \ {t} : x \in Usages' <=> x \in Usages
        BY <1>4 DEF Usages
    <2>2. (t \in Usages' <=> o.coupon) /\ t \notin Usages
        BY <1>1, <1>3, <1>4 DEF Usages
    <2>3. Usages \subseteq Checkouts /\ Usages' \subseteq Checkouts
        BY DEF Usages
    <2> QED
        BY <2>1, <2>2, <2>3
<1>9. CouponCounted' /\ uses' \in 0..MaxUses
    <2>1. Cardinality(Usages') = IF o.coupon THEN Cardinality(Usages) + 1 ELSE Cardinality(Usages)
        BY <1>8, UsagesFinite, FS_AddElement
    <2>2. uses \in 0..MaxUses /\ uses <= Cardinality(Usages)
          /\ (exhausted => Cardinality(Usages) >= MaxUses)
        BY DEF CheckoutInv, TypeOK, CouponCounted, ClosedOnlyWhenUsedUp
    <2>3. Exhausts(t) => o.seenUses + 1 >= MaxUses
        BY DEF Exhausts
    <2>4. Cardinality(Usages) \in Nat /\ MaxUses \in Nat
        BY UsagesFinite, CheckoutConstants
    <2>5. CASE o.coupon
        <3>1. /\ uses' = o.seenUses + 1 /\ Cardinality(Usages') = Cardinality(Usages) + 1
              /\ exhausted' => exhausted \/ o.seenUses + 1 >= MaxUses
            BY <1>2, <2>1, <2>3, <2>5
        <3> QED
            BY <1>1, <2>2, <2>4, <3>1 DEF CouponCounted, ClosedOnlyWhenUsedUp
    <2>6. CASE ~o.coupon
        <3>1. /\ uses' = uses /\ Cardinality(Usages') = Cardinality(Usages)
              /\ exhausted' => exhausted
            BY <1>2, <2>1, <2>6
        <3> QED
            BY <2>2, <3>1 DEF CouponCounted, ClosedOnlyWhenUsedUp
    <2> QED
        BY <2>5, <2>6
<1>10. TypeOK'
    <2>1. cart' \in [Users -> SUBSET Lines]
        BY <1>1, <1>2 DEF CheckoutInv, TypeOK, ClearLines
    <2>2. reserved' \in [Variants -> Nat]
        <3>1. \A v \in Variants : reserved[v] + q(v) \in Nat
            BY <1>5
        <3> QED
            BY <1>2, <3>1
    <2>3. points' \in [Users -> Nat]
        BY <1>1, <1>2 DEF CheckoutInv, TypeOK
    <2>4. exhausted' \in BOOLEAN
        BY <1>2
    <2> QED
        BY <1>2, <1>4, <1>7, <1>9, <2>1, <2>2, <2>3, <2>4 DEF CheckoutInv, TypeOK
<1>11. ASSUME NEW x \in Checkouts \ {t} PROVE Tx(x)'
    <2>1. \A v \in Variants : lock[BalanceRow(v)] = x => reserved'[v] = reserved[v]
        BY <1>5
    <2>2. \A u \in Users : lock[PointsRow(u)] = x => points'[u] = points[u]
        BY <1>1, <1>2 DEF CheckoutInv, TypeOK
    <2>3. Usages \subseteq Usages'
        BY <1>8
    <2> QED
        BY <1>4, <1>7, <2>1, <2>2, <2>3, OthersKeep DEF CheckoutInv
<1>12. Tx(t)'
    <2>1. OneLineEach(o.lines)
        BY DEF CheckoutInv, Tx
    <2>2. HoldsOnly(t)'
        BY <1>7 DEF HoldsOnly
    <2>3. 0 < MaxUses /\ 0 <= Cardinality(Usages')
        BY UsagesFinite, CheckoutConstants
    <2> QED
        BY <1>3, <1>4, <2>1, <2>2, <2>3 DEF Tx, Running
<1>13. StockCovers'
    BY <1>5 DEF StockCovers
<1>14. Promise!Place(t)
    <2>1. \A x \in Checkouts \ {t} : Ordered(x)' = Ordered(x)
        BY <1>4 DEF Ordered
    <2>2. Ordered(t) = [v \in Variants |-> 0] /\ Ordered(t)' = [v \in Variants |-> q(v)]
        BY <1>1, <1>3, <1>4 DEF Ordered
    <2>3. \A v \in Variants :
            /\ q(v) <= OnHand[v] - reserved[v]
            /\ OnHand[v] - reserved'[v] = OnHand[v] - reserved[v] - q(v)
        BY <1>5
    <2> HIDE DEF q
    <2>4. Ordered(t)' # [v \in Variants |-> 0]
        BY <1>6, <2>2
    <2> QED
        BY <2>1, <2>2, <2>3, <2>4 DEF Promise!Place, Promise!Nothing
<1>15. ASSUME NEW u \in Users, NEW l \in cart[u] \ cart'[u] PROVE Buys(t, l)
    BY <1>1, <1>2, <1>4, <1>15 DEF CheckoutInv, TypeOK, ClearLines, Buys
<1>16. CartsAreProper'
    <2>1. \A u \in Users : cart'[u] \subseteq cart[u]
        BY <1>1, <1>2 DEF CheckoutInv, TypeOK, ClearLines
    <2> QED
        BY <1>2, <2>1 DEF CheckoutInv, CartsAreProper, ProperCart
<1> QED
    BY <1>9, <1>10, <1>11, <1>12, <1>13, <1>14, <1>15, <1>16 DEF CheckoutInv

-----------------------------------------------------------------------------

LEMMA Beginning == Init => CheckoutInv /\ Promise!Init
<1> SUFFICES ASSUME Init PROVE CheckoutInv /\ Promise!Init
    OBVIOUS
<1>1. TypeOK
    <2>1. cart \in [Users -> SUBSET Lines] /\ edits \in 0..MaxEdits
        BY CheckoutConstants DEF Init
    <2>2. reserved \in [Variants -> Nat] /\ points \in [Users -> Nat] /\ exhausted \in BOOLEAN
        BY CheckoutConstants DEF Init
    <2>3. uses \in 0..MaxUses
        <3>1. MaxUses \in Nat
            BY CheckoutConstants
        <3> QED
            BY <3>1 DEF Init
    <2> QED
        BY <2>1, <2>2, <2>3, NoOrderTyped DEF Init, TypeOK, Stages
<1>2. Usages = {}
    BY DEF Init, Usages
<1>3. CouponCounted
    BY <1>2, FS_EmptySet DEF Init, CouponCounted, ClosedOnlyWhenUsedUp
<1>4. StockCovers
    BY CheckoutConstants DEF Init, StockCovers
<1>5. ASSUME NEW t \in Checkouts PROVE Tx(t)
    <2>1. order[t] = NoOrder /\ stage[t] = "new" /\ \A r \in Rows : lock[r] # t
        BY CheckoutConstants DEF Init
    <2> QED
        BY <2>1, UsagesFinite, CheckoutConstants
           DEF Tx, HoldsOnly, OneLineEach, Running, NoOrder
<1>6. CartsAreProper
    BY CheckoutConstants DEF Init, CartsAreProper
<1>7. Promise!Init
    <2>1. \A v \in Variants : OnHand[v] - reserved[v] \in Nat
        BY CheckoutConstants DEF Init
    <2>2. \A t \in Checkouts : Ordered(t) = [v \in Variants |-> 0]
        BY DEF Init, Ordered
    <2> QED
        BY <2>1, <2>2 DEF Promise!Init, Promise!Nothing
<1> QED
    BY <1>1, <1>3, <1>4, <1>5, <1>6, <1>7 DEF CheckoutInv

StockKept ==
    [Promise!Next]_<<[v \in Variants |-> OnHand[v] - reserved[v]], [t \in Checkouts |-> Ordered(t)]>>

ClearedKept ==
    edits' = edits =>
        \A u \in Users : \A l \in cart[u] \ cart'[u] : \E t \in Checkouts : Buys(t, l)

LEMMA StepKeeps == CheckoutInv /\ [Next]_vars => CheckoutInv' /\ StockKept /\ ClearedKept
<1> SUFFICES ASSUME CheckoutInv, [Next]_vars PROVE CheckoutInv' /\ StockKept /\ ClearedKept
    OBVIOUS
<1>1. ASSUME Quiet PROVE StockKept
    BY <1>1, QuietStep DEF CheckoutInv, StockKept
<1>2. ASSUME UNCHANGED cartVars PROVE ClearedKept
    BY <1>2 DEF cartVars, ClearedKept
<1>3. ASSUME NEW u \in Users,
             \/ \E v \in Variants, q \in 1..MaxQty : AddItem(u, v, q)
             \/ \E l \in cart[u] : RemoveItem(u, l) \/ \E q \in 1..MaxQty : UpdateItem(u, l, q)
      PROVE  CheckoutInv' /\ StockKept /\ ClearedKept
    BY <1>1, <1>3, EditKeeps DEF ClearedKept
<1>4. ASSUME NEW u \in Users, NEW t \in Checkouts, NEW coupon \in BOOLEAN,
             NEW redeem \in {0, Spend}, LoadCart(t, u, coupon, redeem)
      PROVE  CheckoutInv' /\ StockKept /\ ClearedKept
    BY <1>1, <1>2, <1>4, LoadCartKeeps DEF LoadCart
<1>5. ASSUME NEW t \in Checkouts, ReserveLine(t)
      PROVE  CheckoutInv' /\ StockKept /\ ClearedKept
    BY <1>1, <1>2, <1>5, ReserveLineKeeps DEF ReserveLine
<1>6. ASSUME NEW t \in Checkouts, ReadCoupon(t)
      PROVE  CheckoutInv' /\ StockKept /\ ClearedKept
    BY <1>1, <1>2, <1>6, ReadCouponKeeps DEF ReadCoupon
<1>7. ASSUME NEW t \in Checkouts, Redeem(t)
      PROVE  CheckoutInv' /\ StockKept /\ ClearedKept
    BY <1>1, <1>2, <1>7, RedeemKeeps DEF Redeem
<1>8. ASSUME NEW t \in Checkouts, ReadPoints(t)
      PROVE  CheckoutInv' /\ StockKept /\ ClearedKept
    BY <1>1, <1>2, <1>8, ReadPointsKeeps DEF ReadPoints
<1>9. ASSUME NEW t \in Checkouts, NEW r \in Rows, FlushRow(t, r)
      PROVE  CheckoutInv' /\ StockKept /\ ClearedKept
    BY <1>1, <1>2, <1>9, FlushRowKeeps DEF FlushRow
<1>10. ASSUME NEW t \in Checkouts, Commit(t)
       PROVE  CheckoutInv' /\ StockKept /\ ClearedKept
    BY <1>10, CommitKeeps DEF StockKept, ClearedKept, Promise!Next
<1>11. ASSUME NEW t \in Checkouts, Refuse(t) \/ Fail(t) \/ AbortDeadlock(t)
       PROVE  CheckoutInv' /\ StockKept /\ ClearedKept
    BY <1>1, <1>2, <1>11, AbortKeeps DEF Refuse, Fail, AbortDeadlock, Rollback
<1>12. CASE UNCHANGED vars
    <2>1. UNCHANGED <<cart, edits, dbVars, txVars>>
        BY <1>12 DEF vars, cartVars
    <2>2. CartsAreProper'
        BY <2>1 DEF CheckoutInv, CartsAreProper
    <2>3. CheckoutInv' /\ Quiet
        BY <2>1, <2>2, CartStep DEF CheckoutInv, TypeOK
    <2> QED
        BY <1>1, <1>2, <1>12, <2>3 DEF vars
<1> QED
    BY <1>3, <1>4, <1>5, <1>6, <1>7, <1>8, <1>9, <1>10, <1>11, <1>12 DEF Next

LEMMA Invariance == Spec => []CheckoutInv
BY Beginning, StepKeeps, PTL DEF Spec

-----------------------------------------------------------------------------

(* Carts, rows, locks and what each checkout has read stay well typed; no  *)
(* account goes below zero (orders/service.py, promotions/service.py).     *)
THEOREM TypeCorrect == Spec => []TypeOK
<1>1. CheckoutInv => TypeOK
    BY DEF CheckoutInv
<1> QED
    BY <1>1, Invariance, PTL

(* A coupon is closed only after max_uses orders used it, although its     *)
(* count is read without a lock and written at the flush                   *)
(* (validate_coupon, apply_coupon_to_order).                               *)
THEOREM ClosedOnlyWhenUsedUpHolds == Spec => []ClosedOnlyWhenUsedUp
<1>1. CheckoutInv => ClosedOnlyWhenUsedUp
    BY DEF CheckoutInv, CouponCounted
<1> QED
    BY <1>1, Invariance, PTL

(* Between redeem_loyalty_points and the commit the account still covers   *)
(* the redemption.                                                         *)
THEOREM RedemptionStaysCoveredHolds == Spec => []RedemptionStaysCovered
<1>1. CheckoutInv => RedemptionStaysCovered
    <2> SUFFICES ASSUME CheckoutInv, NEW t \in Checkouts, stage[t] \in {"award", "flush"}
                 PROVE  points[order[t].user] >= order[t].redeem
        BY DEF RedemptionStaysCovered
    <2>1. HoldsAccount(t) /\ order[t].user \in Users
        BY DEF CheckoutInv, Tx, Running
    <2>2. points[order[t].user] \in Nat /\ order[t].redeem \in Nat
        BY <2>1 DEF CheckoutInv, TypeOK, Orders
    <2> QED
        BY <2>1, <2>2 DEF HoldsAccount
<1> QED
    BY <1>1, Invariance, PTL

(* A line leaves a cart only by an edit or by the commit of an order it is *)
(* part of (the deletes at the end of create_order_from_cart).             *)
THEOREM OnlyOrderedLinesClearedHolds == Spec => OnlyOrderedLinesCleared
<1>1. CheckoutInv /\ [Next]_vars => ClearedKept
    BY StepKeeps
<1> QED
    BY <1>1, Invariance, PTL DEF Spec, OnlyOrderedLinesCleared, ClearedKept

(* A checkout implements AtomicOrders: all lines at once, only what is     *)
(* available, once for each order (_reserve_cart_inventory to the commit). *)
THEOREM StockTakenAtomicallyHolds == Spec => StockTakenAtomically
<1>1. Init => Promise!Init
    BY Beginning
<1>2. CheckoutInv /\ [Next]_vars
        => [Promise!Next]_<<[v \in Variants |-> OnHand[v] - reserved[v]],
                            [t \in Checkouts |-> Ordered(t)]>>
    BY StepKeeps DEF StockKept
<1> QED
    BY <1>1, <1>2, Invariance, PTL DEF Spec, StockTakenAtomically, Promise!Spec

(* A cart never has two lines of a variant, which is what QuantityOf and   *)
(* the loop of _reserve_cart_inventory rest on, and an id names one line   *)
(* (add_cart_item; its unique constraint is never needed).                 *)
THEOREM CartsStayProper == Spec => []CartsAreProper
<1>1. CheckoutInv => CartsAreProper
    BY DEF CheckoutInv
<1> QED
    BY <1>1, Invariance, PTL

(* A checkout that cannot take its next row waits for checkouts that are   *)
(* running, never for itself and never for one that is over: its session   *)
(* gave its rows back (transaction, get_db).                               *)
THEOREM WaitsAreForTheRunning == Spec => []WaitsForTheRunning
<1>1. CheckoutInv => WaitsForTheRunning
    <2> SUFFICES ASSUME CheckoutInv, NEW t \in Checkouts, Blocked(t)
                 PROVE  /\ WaitsFor(t) # {}
                        /\ WaitsFor(t) \subseteq {x \in Checkouts \ {t} : stage[x] \in Running}
        BY DEF WaitsForTheRunning
    <2>1. /\ lock \in [Rows -> Checkouts \cup {Nobody}] /\ order[t] \in Orders
          /\ Tx(t) /\ stage[t] \in Running
        BY DEF CheckoutInv, TypeOK, Blocked, Running
    <2>2. WaitsFor(t) \subseteq {x \in Checkouts \ {t} : stage[x] \in Running}
        <3>1. \A x \in Checkouts, r \in Rows : lock[r] = x => stage[x] \in Running
            BY DEF CheckoutInv, Tx, HoldsOnly
        <3> QED
            BY <2>1, <3>1 DEF WaitsFor
    <2> DEFINE Waits(r) ==
            \/ stage[t] = "reserve" /\ r = BalanceRow(NextLine(t).variant)
            \/ stage[t] = "redeem" /\ r = PointsRow(order[t].user)
            \/ stage[t] = "flush" /\ r \in order[t].todo
    <2>0. ASSUME NEW r \in Rows, lock[r] \notin {Nobody, t}, Waits(r) PROVE WaitsFor(t) # {}
        <3>1. lock[r] \in WaitsFor(t)
            BY <2>0 DEF WaitsFor
        <3> QED
            BY <3>1
    <2>3. CASE stage[t] = "reserve"
        <3>1. order[t].left # {} /\ order[t].left \subseteq order[t].lines
            BY <2>1, <2>3 DEF Tx
        <3>2. PICK l \in order[t].left : l = NextLine(t) /\ l \in Lines
            BY <3>1, NextLineIsLeft DEF CheckoutInv
        <3>3. l.variant \in Variants
            BY <3>2 DEF Lines
        <3>4. BalanceRow(l.variant) \in Rows
            BY <3>3 DEF Rows
        <3>5. lock[BalanceRow(l.variant)] # t
            <4>1. SUFFICES ASSUME lock[BalanceRow(l.variant)] = t PROVE FALSE
                OBVIOUS
            <4>2. PICK m \in order[t].lines \ order[t].left :
                        BalanceRow(l.variant) = BalanceRow(m.variant)
                BY <2>1, <2>3, <3>4, <4>1 DEF Tx, HoldsOnly
            <4>3. m = l
                BY <2>1, <3>1, <3>2, <4>2 DEF Tx, OneLineEach, BalanceRow
            <4> QED
                BY <3>2, <4>2, <4>3
        <3>6. lock[BalanceRow(l.variant)] # Nobody
            BY <2>3, <3>2 DEF Blocked, Free
        <3>7. Waits(BalanceRow(l.variant))
            BY <2>3, <3>2
        <3> HIDE DEF Waits
        <3> QED
            BY <2>0, <2>2, <3>4, <3>5, <3>6, <3>7
    <2>4. CASE stage[t] = "redeem"
        <3>1. PointsRow(order[t].user) \in Rows
            BY <2>1 DEF Tx, Rows
        <3>2. lock[PointsRow(order[t].user)] # t
            BY <2>1, <2>4, <3>1 DEF Tx, HoldsOnly, PointsRow, BalanceRow
        <3>3. lock[PointsRow(order[t].user)] # Nobody
            BY <2>4 DEF Blocked, Free
        <3>4. Waits(PointsRow(order[t].user))
            BY <2>4
        <3> HIDE DEF Waits
        <3> QED
            BY <2>0, <2>2, <3>1, <3>2, <3>3, <3>4
    <2>5. CASE stage[t] = "flush"
        <3>1. PICK r \in order[t].todo : lock[r] \notin {Nobody, t}
            BY <2>5 DEF Blocked
        <3>2. r \in Rows
            BY <2>1, <3>1 DEF Orders
        <3>3. Waits(r)
            BY <2>5, <3>1
        <3> HIDE DEF Waits
        <3> QED
            BY <2>0, <2>2, <3>1, <3>2, <3>3
    <2> QED
        BY <2>2, <2>3, <2>4, <2>5 DEF Blocked
<1> QED
    BY <1>1, Invariance, PTL

-----------------------------------------------------------------------------
(* Checkouts that wait in a circle. A checkout locks the balances in the   *)
(* order of its lines' numbers, which no two of its lines share.           *)

Numbered(lines) == \A l, m \in lines : l.id[2] = m.id[2] => l = m
InSequence ==
    \A t \in Checkouts :
        /\ Numbered(order[t].lines)
        /\ \A l \in order[t].lines \ order[t].left, m \in order[t].left : l.id[2] < m.id[2]

(* The order of a cart's lines agrees with a ranking of the variants.      *)
Sorted(t, rank) ==
    \A l, m \in order[t].lines : l.id[2] < m.id[2] => rank[l.variant] < rank[m.variant]

(* Of two checkouts of one customer one has the account, one the coupon.   *)
OneCustomer(S) ==
    \E x, y \in S : /\ x # y /\ order[x].user = order[y].user
                    /\ lock[PointsRow(order[x].user)] = x /\ lock[CouponRow] = y

Circle(S) == S # {} /\ \A t \in S : WaitsFor(t) \cap S # {}
CirclesExplained ==
    \A S \in SUBSET Checkouts : Circle(S) =>
        \/ OneCustomer(S)
        \/ \A n \in Nat : \A rank \in [Variants -> 0..n] : \E t \in S : ~Sorted(t, rank)

LEMMA NumberedCart ==
    ASSUME CheckoutInv, NEW u \in Users
    PROVE  Numbered(cart[u])
<1> SUFFICES ASSUME NEW l \in cart[u], NEW m \in cart[u], l.id[2] = m.id[2] PROVE l = m
    BY DEF Numbered
<1>1. l \in Lines /\ m \in Lines /\ l.id[1] = u /\ m.id[1] = u
    BY DEF CheckoutInv, TypeOK, CartsAreProper, ProperCart
<1>2. l.id = m.id
    BY <1>1 DEF Lines
<1> QED
    BY <1>2 DEF CheckoutInv, CartsAreProper, ProperCart

LEMMA SequenceStep == CheckoutInv /\ InSequence /\ [Next]_vars => InSequence'
<1> SUFFICES ASSUME CheckoutInv, InSequence, [Next]_vars PROVE InSequence'
    OBVIOUS
<1> DEFINE Fine(o) ==
        /\ Numbered(o.lines)
        /\ \A l \in o.lines \ o.left, m \in o.left : l.id[2] < m.id[2]
<1>1. /\ \A t \in Checkouts : Fine(order[t])
      /\ (\A t \in Checkouts : Fine(order'[t])) => InSequence'
      /\ order \in [Checkouts -> Orders]
    BY DEF InSequence, Numbered, CheckoutInv, TypeOK
<1>2. ASSUME NEW t \in Checkouts, NEW o, Fine(o), order' = [order EXCEPT ![t] = o]
      PROVE  InSequence'
    <2>1. order'[t] = o /\ \A x \in Checkouts \ {t} : order'[x] = order[x]
        BY <1>1, <1>2
    <2> HIDE DEF Fine
    <2> QED
        BY <1>1, <1>2, <2>1
<1>3. ASSUME NEW t \in Checkouts, NEW o, o.lines = order[t].lines, o.left = order[t].left
      PROVE  Fine(o)
    BY <1>1, <1>3
<1>4. ASSUME NEW o, o.left = {}, Numbered(o.lines) PROVE Fine(o)
    BY <1>4
<1>5. ASSUME NEW t \in Checkouts, NEW u \in Users, NEW coupon \in BOOLEAN,
             NEW redeem \in {0, Spend}, LoadCart(t, u, coupon, redeem)
      PROVE  InSequence'
    <2> DEFINE o == [NoOrder EXCEPT !.user = u, !.lines = cart[u], !.left = cart[u],
                                    !.coupon = coupon, !.redeem = redeem]
    <2>1. o.lines = cart[u] /\ o.left = cart[u]
        BY DEF NoOrder
    <2>2. Fine(o)
        BY <2>1, NumberedCart
    <2> QED
        BY <1>2, <1>5, <2>2 DEF LoadCart
<1>6. ASSUME NEW t \in Checkouts, ReserveLine(t) PROVE InSequence'
    <2>1. order[t].left # {} /\ order[t].left \subseteq order[t].lines /\ order[t] \in Orders
        BY <1>6 DEF ReserveLine, CheckoutInv, TypeOK, Tx, Running
    <2>2. PICK k \in order[t].left : k = NextLine(t) /\ \A m \in order[t].left : k.id[2] <= m.id[2]
        BY <2>1, NextLineIsLeft DEF CheckoutInv
    <2> DEFINE o == [order[t] EXCEPT !.left = order[t].left \ {k}]
    <2>3. o.left = order[t].left \ {k} /\ o.lines = order[t].lines
        BY <2>1 DEF Orders
    <2>4. order' = [order EXCEPT ![t] = o]
        BY <1>6, <2>2 DEF ReserveLine
    <2>5. \A m \in order[t].left \ {k} : k.id[2] < m.id[2]
        <3>1. \A m \in order[t].lines : m.id[2] \in Nat
            BY <2>1 DEF Orders, Lines
        <3>2. \A m \in order[t].left \ {k} : k.id[2] # m.id[2]
            BY <1>1, <2>1 DEF Numbered
        <3> QED
            BY <2>1, <2>2, <3>1, <3>2
    <2> HIDE DEF o
    <2>6. Fine(o)
        BY <1>1, <2>1, <2>3, <2>5
    <2> QED
        BY <1>2, <2>4, <2>6
<1>7. ASSUME NEW t \in Checkouts, ReadCoupon(t) PROVE InSequence'
    <2>1. order' = [order EXCEPT ![t] = [order[t] EXCEPT !.seenUses = uses]]
        BY <1>7 DEF ReadCoupon
    <2>2. Fine([order[t] EXCEPT !.seenUses = uses])
        BY <1>1, <1>3 DEF Orders
    <2> HIDE DEF Fine
    <2> QED
        BY <1>2, <2>1, <2>2
<1>8. ASSUME NEW t \in Checkouts, ReadPoints(t) PROVE InSequence'
    <2> DEFINE u == order[t].user
               o == [order[t] EXCEPT
                        !.newPoints = points[u] + Award - order[t].redeem,
                        !.todo = {PointsRow(u)} \cup (IF order[t].coupon THEN {CouponRow} ELSE {})]
    <2>1. order' = [order EXCEPT ![t] = o]
        BY <1>8 DEF ReadPoints
    <2>2. o.lines = order[t].lines /\ o.left = order[t].left
        BY <1>1 DEF Orders
    <2> HIDE DEF o, Fine
    <2> QED
        BY <1>2, <1>3, <2>1, <2>2
<1>9. ASSUME NEW t \in Checkouts, NEW r \in Rows, FlushRow(t, r) PROVE InSequence'
    <2> DEFINE o == [order[t] EXCEPT !.todo = order[t].todo \ {r}]
    <2>1. order' = [order EXCEPT ![t] = o]
        BY <1>9 DEF FlushRow
    <2>2. o.lines = order[t].lines /\ o.left = order[t].left
        BY <1>1 DEF Orders
    <2> HIDE DEF o, Fine
    <2> QED
        BY <1>2, <1>3, <2>1, <2>2
<1>10. ASSUME NEW t \in Checkouts, Commit(t) PROVE InSequence'
    <2> DEFINE o == [NoOrder EXCEPT !.user = order[t].user, !.lines = order[t].lines,
                                    !.coupon = order[t].coupon, !.redeem = order[t].redeem]
    <2>1. order' = [order EXCEPT ![t] = o]
        BY <1>10 DEF Commit
    <2>2. o.lines = order[t].lines /\ o.left = {}
        BY DEF NoOrder
    <2> HIDE DEF o
    <2>3. Fine(o)
        BY <1>1, <1>4, <2>2
    <2> HIDE DEF Fine
    <2> QED
        BY <1>2, <2>1, <2>3
<1>11. ASSUME NEW t \in Checkouts, Rollback(t) PROVE InSequence'
    <2>1. Fine(NoOrder)
        BY DEF NoOrder, Numbered
    <2> HIDE DEF Fine
    <2> QED
        BY <1>2, <1>11, <2>1 DEF Rollback
<1>12. CASE UNCHANGED order
    BY <1>12 DEF InSequence
<1>13. \/ UNCHANGED order
       \/ \E t \in Checkouts :
            \/ \E u \in Users, coupon \in BOOLEAN, redeem \in {0, Spend} :
                LoadCart(t, u, coupon, redeem)
            \/ ReserveLine(t) \/ ReadCoupon(t) \/ ReadPoints(t)
            \/ (\E r \in Rows : FlushRow(t, r))
            \/ Commit(t) \/ Rollback(t)
    BY DEF Next, vars, txVars, AddItem, RemoveItem, UpdateItem, Redeem, Refuse, Fail,
           AbortDeadlock
<1> HIDE DEF Fine
<1> QED
    BY <1>5, <1>6, <1>7, <1>8, <1>9, <1>10, <1>11, <1>12, <1>13

(* Whom a checkout waits for, by where it stands. A member of a circle is  *)
(* waits itself, so that it is at its balances, its points or its flush.   *)
LEMMA WhoWaits ==
    ASSUME CheckoutInv, NEW t \in Checkouts, NEW x \in WaitsFor(t)
    PROVE  /\ x \in Checkouts \ {t}
           /\ \/ /\ stage[t] = "reserve" /\ stage[x] \in Running
                 /\ \E l \in order[x].lines \ order[x].left : l.variant = NextLine(t).variant
              \/ /\ stage[t] \in {"redeem", "flush"} /\ stage[x] \in {"award", "flush"}
                 /\ order[t].user = order[x].user
                 /\ lock[PointsRow(order[x].user)] = x
              \/ /\ stage[t] = "flush" /\ stage[x] \in {"award", "flush"}
                 /\ lock[CouponRow] = x
<1>1. PICK r \in Rows :
        /\ x = lock[r] /\ lock[r] \notin {Nobody, t}
        /\ \/ stage[t] = "reserve" /\ r = BalanceRow(NextLine(t).variant)
           \/ stage[t] = "redeem" /\ r = PointsRow(order[t].user)
           \/ stage[t] = "flush" /\ r \in order[t].todo
    BY DEF WaitsFor
<1>2. x \in Checkouts \ {t} /\ HoldsOnly(x)
    BY <1>1 DEF CheckoutInv, TypeOK, Tx
<1>3. /\ stage[x] \in Running
      /\ \/ \E l \in order[x].lines \ order[x].left : r = BalanceRow(l.variant)
         \/ stage[x] \in {"award", "flush"} /\ r \in {PointsRow(order[x].user), CouponRow}
    BY <1>1, <1>2 DEF HoldsOnly
<1>4. CASE stage[t] = "reserve"
    <2>1. r = BalanceRow(NextLine(t).variant)
        BY <1>1, <1>4
    <2> QED
        BY <1>2, <1>3, <1>4, <2>1 DEF BalanceRow, PointsRow, CouponRow
<1>5. CASE stage[t] = "redeem"
    <2>1. r = PointsRow(order[t].user)
        BY <1>1, <1>5
    <2> QED
        BY <1>1, <1>2, <1>3, <1>5, <2>1 DEF BalanceRow, PointsRow, CouponRow
<1>6. CASE stage[t] = "flush"
    <2>1. r \in {PointsRow(order[t].user), CouponRow}
        BY <1>1, <1>6 DEF CheckoutInv, Tx
    <2> QED
        BY <1>1, <1>2, <1>3, <1>6, <2>1 DEF BalanceRow, PointsRow, CouponRow
<1> QED
    BY <1>1, <1>4, <1>5, <1>6

LEMMA CirclesHaveACause == CheckoutInv /\ InSequence => CirclesExplained
<1> SUFFICES ASSUME CheckoutInv, InSequence, NEW S \in SUBSET Checkouts, Circle(S)
             PROVE  \/ OneCustomer(S)
                    \/ \A n \in Nat : \A rank \in [Variants -> 0..n] :
                            \E t \in S : ~Sorted(t, rank)
    BY DEF CirclesExplained
<1>1. \A t \in S : \E x \in S : x \in WaitsFor(t)
    BY DEF Circle
<1>2. \A t \in S : stage[t] \in {"reserve", "redeem", "flush"}
    BY <1>1, WhoWaits
<1>3. CASE \E t \in S : stage[t] # "reserve"
    <2>1. PICK t \in S : stage[t] = "flush"
        BY <1>1, <1>2, <1>3, WhoWaits
    (* The holder of the coupon waits for the account of its customer.     *)
    <2>2. ASSUME NEW y \in S, lock[CouponRow] = y PROVE OneCustomer(S)
        <3>1. PICK x \in S : x \in WaitsFor(y)
            BY <1>1
        <3>2. x # y /\ stage[y] = "flush"
            <4>1. stage[y] \in {"award", "flush"}
                BY <2>2 DEF CheckoutInv, Tx, HoldsOnly, Rows, CouponRow, BalanceRow
            <4> QED
                BY <1>2, <3>1, <4>1, WhoWaits
        <3>3. order[y].user = order[x].user /\ lock[PointsRow(order[x].user)] = x
            BY <2>2, <3>1, <3>2, WhoWaits
        <3> QED
            BY <2>2, <3>2, <3>3 DEF OneCustomer
    <2>3. PICK x \in S : x \in WaitsFor(t)
        BY <1>1
    <2>4. CASE lock[CouponRow] = x
        BY <2>2, <2>4
    (* The holder of the account waits for the coupon.                     *)
    <2>5. CASE lock[CouponRow] # x
        <3>1. stage[x] = "flush" /\ lock[PointsRow(order[x].user)] = x
            BY <1>2, <2>1, <2>3, <2>5, WhoWaits
        <3>2. PICK y \in S : y \in WaitsFor(x)
            BY <1>1
        <3>3. lock[CouponRow] = y
            BY <3>1, <3>2, WhoWaits
        <3> QED
            BY <2>2, <3>3
    <2> QED
        BY <2>4, <2>5
<1>4. CASE \A t \in S : stage[t] = "reserve"
    <2> SUFFICES ASSUME NEW n \in Nat, NEW rank \in [Variants -> 0..n],
                        \A t \in S : Sorted(t, rank)
                 PROVE  FALSE
        OBVIOUS
    <2>1. ASSUME NEW t \in S
          PROVE  /\ NextLine(t) \in order[t].left /\ NextLine(t) \in order[t].lines
                 /\ NextLine(t).variant \in Variants
        <3>1. order[t].left # {} /\ order[t].left \subseteq order[t].lines
            BY <1>4 DEF CheckoutInv, Tx, Running
        <3> QED
            BY <3>1, NextLineIsLeft DEF CheckoutInv, Lines
    <2> DEFINE next(t) == rank[NextLine(t).variant]
               rest == {n - next(t) : t \in S}
    <2>2. \A t \in S : next(t) \in 0..n
        BY <2>1
    <2>3. rest \subseteq Nat /\ rest # {}
        BY <2>2 DEF Circle
    <2>4. PICK least \in rest : \A y \in rest : least <= y
        BY <2>3, LeastExists
    <2>5. PICK t \in S : least = n - next(t)
        BY <2>4
    <2>6. PICK x \in S : x \in WaitsFor(t)
        BY <1>1
    <2>7. PICK l \in order[x].lines \ order[x].left : l.variant = NextLine(t).variant
        BY <1>4, <2>6, WhoWaits
    <2>8. l.id[2] < NextLine(x).id[2]
        BY <2>1, <2>7 DEF InSequence
    <2>9. rank[l.variant] < next(x)
        BY <2>1, <2>7, <2>8 DEF Sorted
    <2>10. next(t) < next(x)
        BY <2>7, <2>9
    <2>11. n - next(t) <= n - next(x)
        BY <2>4, <2>5
    <2> HIDE DEF next
    <2> QED
        BY <2>2, <2>10, <2>11
<1> QED
    BY <1>3, <1>4

(* Checkouts wait in a circle only if their carts disagree about the order *)
(* of the variants (_reserve_cart_inventory locks the balances in the      *)
(* order of the lines), or if two of one customer flush the account and    *)
(* the coupon crosswise (the flush of create_order_from_cart). Were the    *)
(* balances locked in a fixed order of variants, only these would be left. *)
THEOREM CirclesHaveAReason == Spec => []CirclesExplained
<1>1. Init => InSequence
    BY DEF Init, InSequence, NoOrder, Numbered
<1> QED
    BY <1>1, Beginning, StepKeeps, SequenceStep, CirclesHaveACause, Invariance, PTL DEF Spec
====
