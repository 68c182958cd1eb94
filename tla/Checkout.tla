---- MODULE Checkout ----
(***************************************************************************)
(* create_order_from_cart (app/modules/orders/service.py) with the cart    *)
(* edits, coupons and loyalty points it meets, statement by statement:     *)
(* PostgreSQL READ COMMITTED, where a plain SELECT sees the last commit    *)
(* and takes no lock, FOR UPDATE and UPDATE wait for the row, and an ORM   *)
(* UPDATE writes the value computed from what the session read earlier.    *)
(*                                                                         *)
(* A checkout reads the cart, locks the balance of each line in cart order,*)
(* reads the coupon, locks and reads the loyalty account (or only reads it *)
(* when no point is redeemed), writes both at its flush, and commits. The  *)
(* effects show at the commit. A cart edit takes its locks, does its work  *)
(* and commits without waiting for anything but another cart edit, and is  *)
(* one action; adding an item first locks the user, which a checkout holds *)
(* (by its order's foreign key) from the order's INSERT to its commit.     *)
(*                                                                         *)
(* The twins defined beside a check (ForgotX, ClearAll, ExhaustsEarly,     *)
(* NeverDeadlocked) are mutants of it and used by nothing else.            *)
(*                                                                         *)
(* Left out: prices, taxes and the totals. The stock counts are of one     *)
(* fulfillment location.                                                   *)
(***************************************************************************)
EXTENDS Naturals, FiniteSets

CONSTANTS
    Users,
    Variants,
    Checkouts,    \* calls of create_order_from_cart
    Nobody,       \* holder of a free row lock
    OnHand,       \* on_hand_quantity of each variant
    MaxUses,      \* the coupon's max_uses
    MaxPerUser,   \* its max_uses_per_customer
    Points,       \* points_balance of every account at the start
    Spend,        \* points a redeeming order asks for
    Award,        \* points an order earns
    Starts,       \* the carts and the number of edits to start from
    MaxQty,       \* bound: quantity of a cart line (the code's is 999)
    MaxEdits      \* bound: number of cart edits

(* A cart line. Its id names the cart and its place by created_at.         *)
Lines == [id : Users \X Nat, variant : Variants, quantity : 1..MaxQty]
Line(id, v, q) == [id |-> id, variant |-> v, quantity |-> q]

(* One line of a variant (uq_cart_items_cart_variant); an id names a line, *)
(* and the lines of user u have been numbered up to n.                     *)
ProperCart(lines, u, n) ==
    /\ \A l, m \in lines : l.variant = m.variant \/ l.id = m.id => l = m
    /\ \A l \in lines : l.id[1] = u /\ l.id[2] <= n

ASSUME CheckoutConstants ==
    /\ OnHand \in [Variants -> Nat]
    /\ Nobody \notin Checkouts /\ IsFiniteSet(Checkouts)
    /\ Starts \subseteq [cart : [Users -> SUBSET Lines], edits : 0..MaxEdits]
    /\ \A start \in Starts, u \in Users : ProperCart(start.cart[u], u, 2 + start.edits)
    /\ MaxUses \in Nat \ {0} /\ MaxPerUser \in Nat \ {0}
    /\ Points \in Nat /\ Spend \in Nat \ {0} /\ Award \in Nat \ {0}
    /\ MaxQty \in Nat /\ MaxEdits \in Nat

VARIABLES
    cart,       \* the lines of each user's active cart
    edits,      \* number of cart edits so far; numbers the lines they add
    reserved,   \* reserved_quantity of each variant
    uses,       \* coupons.uses_count
    exhausted,  \* coupons.status is EXHAUSTED
    points,     \* loyalty_accounts.points_balance
    lock,       \* which checkout holds each row lock
    stage,      \* how far each checkout is
    order       \* what each checkout asked for and has read so far

dbVars == <<reserved, uses, exhausted, points>>
cartVars == <<cart, edits>>
txVars == <<lock, stage, order>>
vars == <<cartVars, dbVars, txVars>>

Running == {"reserve", "coupon", "redeem", "award", "flush"}
Stages == {"new", "done", "failed"} \cup Running

(* The rows a checkout locks: balances, loyalty accounts and the coupon.   *)
BalanceRow(v) == <<"balance", v>>
PointsRow(u) == <<"points", u>>
CouponRow == <<"coupon", Nobody>>
Rows == {BalanceRow(v) : v \in Variants} \cup {PointsRow(u) : u \in Users} \cup {CouponRow}

NoOrder == [user |-> Nobody, lines |-> {}, coupon |-> FALSE, redeem |-> 0,
            left |-> {}, seenUses |-> 0, newPoints |-> 0, todo |-> {}]

Init ==
    /\ \E start \in Starts : cart = start.cart /\ edits = start.edits
    /\ reserved = [v \in Variants |-> 0]
    /\ uses = 0
    /\ exhausted = FALSE
    /\ points = [u \in Users |-> Points]
    /\ lock = [r \in Rows |-> Nobody]
    /\ stage = [t \in Checkouts |-> "new"]
    /\ order = [t \in Checkouts |-> NoOrder]

-----------------------------------------------------------------------------
(* Cart edits (app/modules/cart/service.py), each serialised by the cart.  *)

LineOf(lines, v) == {l \in lines : l.variant = v}
Changed(l, q) == [l EXCEPT !.quantity = q]
IdsOf(lines) == {l.id : l \in lines}

(* The order row this user's checkout inserted is not committed yet.       *)
OrderPending(u) ==
    \E t \in Checkouts : order[t].user = u /\ stage[t] \in {"redeem", "award", "flush"}

AddItem(u, v, q) ==
    /\ edits < MaxEdits
    /\ ~OrderPending(u)
    /\ edits' = edits + 1
    /\ \/ /\ LineOf(cart[u], v) = {}
          /\ cart' = [cart EXCEPT ![u] = @ \cup {Line(<<u, 2 + edits'>>, v, q)}]
       \/ \E l \in LineOf(cart[u], v) :
            /\ l.quantity + q <= MaxQty
            /\ cart' = [cart EXCEPT ![u] = (@ \ {l}) \cup {Changed(l, l.quantity + q)}]
    /\ UNCHANGED <<dbVars, txVars>>

UpdateItem(u, l, q) ==
    /\ edits < MaxEdits
    /\ edits' = edits + 1
    /\ q # l.quantity
    /\ cart' = [cart EXCEPT ![u] = (@ \ {l}) \cup {Changed(l, q)}]
    /\ UNCHANGED <<dbVars, txVars>>

RemoveItem(u, l) ==
    /\ edits < MaxEdits
    /\ edits' = edits + 1
    /\ cart' = [cart EXCEPT ![u] = @ \ {l}]
    /\ UNCHANGED <<dbVars, txVars>>

-----------------------------------------------------------------------------
(* The checkout.                                                           *)

Goto(t, s) == stage' = [stage EXCEPT ![t] = s]
Free(r) == lock[r] = Nobody
Take(t, r) == lock' = [lock EXCEPT ![r] = t]
ReleaseAll(t) == lock' = [r \in Rows |-> IF lock[r] = t THEN Nobody ELSE lock[r]]

Usages == {t \in Checkouts : stage[t] = "done" /\ order[t].coupon}
UsagesOf(u) == {t \in Usages : order[t].user = u}

(* _lock_active_cart loads the cart and its lines and locks neither.       *)
LoadCart(t, u, coupon, redeem) ==
    /\ stage[t] = "new"
    /\ cart[u] # {}
    /\ order' = [order EXCEPT ![t] = [NoOrder EXCEPT !.user = u, !.lines = cart[u],
                                        !.left = cart[u], !.coupon = coupon, !.redeem = redeem]]
    /\ Goto(t, "reserve")
    /\ UNCHANGED <<cartVars, dbVars, lock>>

(* _reserve_cart_inventory: the next line's balance, FOR UPDATE. The held  *)
(* balance is re-read at the lock, and nobody else reads it until the end. *)
NextLine(t) == CHOOSE l \in order[t].left : \A m \in order[t].left : l.id[2] <= m.id[2]
InStock(t) == reserved[NextLine(t).variant] + NextLine(t).quantity <= OnHand[NextLine(t).variant]
ForgotLock(t) == InStock(t)
CanReserve(t) == Free(BalanceRow(NextLine(t).variant)) /\ InStock(t)

AfterReserve(t) ==
    IF order[t].coupon THEN "coupon" ELSE IF order[t].redeem > 0 THEN "redeem" ELSE "award"

ReserveLine(t) ==
    /\ stage[t] = "reserve"
    /\ CanReserve(t)
    /\ Take(t, BalanceRow(NextLine(t).variant))
    /\ order' = [order EXCEPT ![t].left = @ \ {NextLine(t)}]
    /\ IF order'[t].left = {} THEN Goto(t, AfterReserve(t)) ELSE UNCHANGED stage
    /\ UNCHANGED <<cartVars, dbVars>>

(* validate_coupon: a plain read of the coupon and of the usages.          *)
CouponUsable(u) ==
    /\ ~exhausted
    /\ uses < MaxUses
    /\ Cardinality(UsagesOf(u)) < MaxPerUser

ReadCoupon(t) ==
    /\ stage[t] = "coupon"
    /\ CouponUsable(order[t].user)
    /\ order' = [order EXCEPT ![t].seenUses = uses]
    /\ Goto(t, IF order[t].redeem > 0 THEN "redeem" ELSE "award")
    /\ UNCHANGED <<cartVars, dbVars, lock>>

(* redeem_loyalty_points: the account FOR UPDATE, checked and decremented. *)
ForgotBalance(t) == TRUE
EnoughPoints(t) == points[order[t].user] >= order[t].redeem

ForgotAccountLock(t) == TRUE
AccountFree(t) == Free(PointsRow(order[t].user))

Redeem(t) ==
    /\ stage[t] = "redeem"
    /\ AccountFree(t)
    /\ EnoughPoints(t)
    /\ Take(t, PointsRow(order[t].user))
    /\ Goto(t, "award")
    /\ UNCHANGED <<cartVars, dbVars, order>>

(* award_loyalty_points: get_or_create_loyalty_account reads the account   *)
(* without a lock (a redeeming session holds it already) and the award is  *)
(* added to what was read.                                                 *)
ReadPoints(t) ==
    LET u == order[t].user
    IN  /\ stage[t] = "award"
        /\ order' = [order EXCEPT
                       ![t].newPoints = points[u] + Award - order[t].redeem,
                       ![t].todo = {PointsRow(u)} \cup
                                   (IF order[t].coupon THEN {CouponRow} ELSE {})]
        /\ Goto(t, "flush")
        /\ UNCHANGED <<cartVars, dbVars, lock>>

(* One UPDATE of the flush before the reservations are consumed. The ORM   *)
(* orders unrelated tables as it likes.                                    *)
FlushRow(t, r) ==
    /\ stage[t] = "flush"
    /\ r \in order[t].todo
    /\ lock[r] \in {Nobody, t}
    /\ Take(t, r)
    /\ order' = [order EXCEPT ![t].todo = @ \ {r}]
    /\ UNCHANGED <<cartVars, dbVars, stage>>

(* The cart lines the checkout deletes: those it loaded, by id.            *)
ClearAll(lines, bought) == {}
ClearLines(lines, bought) == {l \in lines : l.id \notin IdsOf(bought)}

QuantityOf(lines, v) ==
    IF LineOf(lines, v) = {} THEN 0 ELSE (CHOOSE l \in LineOf(lines, v) : TRUE).quantity

ExhaustsEarly(t) == order[t].seenUses + 2 >= MaxUses
Exhausts(t) == order[t].seenUses + 1 >= MaxUses

(* The commit: the order, its consumed holds, the coupon usage, the points *)
(* and the cleared cart become visible together, and the locks go.         *)
Commit(t) ==
    LET o == order[t]
    IN  /\ stage[t] = "flush"
        /\ o.todo = {}
        /\ Goto(t, "done")
        /\ reserved' = [v \in Variants |-> reserved[v] + QuantityOf(o.lines, v)]
        /\ uses' = IF o.coupon THEN o.seenUses + 1 ELSE uses
        /\ exhausted' = (exhausted \/ (o.coupon /\ Exhausts(t)))
        /\ points' = [points EXCEPT ![o.user] = o.newPoints]
        /\ cart' = [cart EXCEPT ![o.user] = ClearLines(@, o.lines)]
        /\ ReleaseAll(t)
        /\ order' = [order EXCEPT ![t] = [NoOrder EXCEPT
                        !.user = o.user, !.lines = o.lines,
                        !.coupon = o.coupon, !.redeem = o.redeem]]
        /\ UNCHANGED edits

Rollback(t) ==
    /\ Goto(t, "failed")
    /\ ReleaseAll(t)
    /\ order' = [order EXCEPT ![t] = NoOrder]
    /\ UNCHANGED <<cartVars, dbVars>>

(* Insufficient stock, an unusable coupon, too few points: found out when  *)
(* the row is read, so for a locking read only once the lock is free.      *)
Refuse(t) ==
    /\ \/ stage[t] = "reserve" /\ Free(BalanceRow(NextLine(t).variant)) /\ ~InStock(t)
       \/ stage[t] = "coupon" /\ ~CouponUsable(order[t].user)
       \/ stage[t] = "redeem" /\ Free(PointsRow(order[t].user)) /\ ~EnoughPoints(t)
    /\ Rollback(t)

(* Any other exception (no serviceable address, a price that is gone, a    *)
(* compliance refusal) or a lost connection.                               *)
Fail(t) == stage[t] \in Running /\ Rollback(t)

(* PostgreSQL: a checkout in a cycle of lock waits is aborted.             *)
WaitsFor(t) ==
    {lock[r] : r \in {x \in Rows :
        /\ lock[x] \notin {Nobody, t}
        /\ \/ stage[t] = "reserve" /\ x = BalanceRow(NextLine(t).variant)
           \/ stage[t] = "redeem" /\ x = PointsRow(order[t].user)
           \/ stage[t] = "flush" /\ x \in order[t].todo}}

NeverDeadlocked(t) == FALSE
Deadlocked(t) ==
    \E S \in SUBSET Checkouts :
        /\ t \in S
        /\ UNION {WaitsFor(x) \cap S : x \in S} = S
        /\ \A x \in S : WaitsFor(x) \cap S # {}

AbortDeadlock(t) == Deadlocked(t) /\ Rollback(t)

Next ==
    \/ \E u \in Users :
        \/ \E v \in Variants, q \in 1..MaxQty : AddItem(u, v, q)
        \/ \E l \in cart[u] :
            \/ RemoveItem(u, l)
            \/ \E q \in 1..MaxQty : UpdateItem(u, l, q)
        \/ \E t \in Checkouts, coupon \in BOOLEAN, redeem \in {0, Spend} :
            LoadCart(t, u, coupon, redeem)
    \/ \E t \in Checkouts :
        \/ ReserveLine(t) \/ ReadCoupon(t) \/ Redeem(t) \/ ReadPoints(t)
        \/ \E r \in Rows : FlushRow(t, r)
        \/ Commit(t) \/ Refuse(t) \/ Fail(t) \/ AbortDeadlock(t)

(* The server runs a started request on; the customer need not start one,  *)
(* edit a cart or fail.                                                    *)
Progress(t) ==
    \/ ReserveLine(t) \/ ReadCoupon(t) \/ Redeem(t) \/ ReadPoints(t)
    \/ \E r \in Rows : FlushRow(t, r)
    \/ Commit(t) \/ Refuse(t) \/ AbortDeadlock(t)

Spec == Init /\ [][Next]_vars /\ \A t \in Checkouts : WF_vars(Progress(t))

-----------------------------------------------------------------------------

Orders == [user : Users \cup {Nobody}, lines : SUBSET Lines, coupon : BOOLEAN, redeem : Nat,
           left : SUBSET Lines, seenUses : Nat, newPoints : Nat, todo : SUBSET Rows]

TypeOK ==
    /\ cart \in [Users -> SUBSET Lines]
    /\ edits \in 0..MaxEdits
    /\ reserved \in [Variants -> Nat]
    /\ uses \in 0..MaxUses
    /\ exhausted \in BOOLEAN
    /\ points \in [Users -> Nat]
    /\ lock \in [Rows -> Checkouts \cup {Nobody}]
    /\ stage \in [Checkouts -> Stages]
    /\ order \in [Checkouts -> Orders]

Ordered(t) ==
    [v \in Variants |-> IF stage[t] = "done" THEN QuantityOf(order[t].lines, v) ELSE 0]

(* Stock is taken in whole orders, never beyond what is on hand, although  *)
(* a checkout locks its balances one by one, two of them may deadlock, and *)
(* the cart it orders from was read without a lock.                        *)
Promise == INSTANCE AtomicOrders WITH
    available <- [v \in Variants |-> OnHand[v] - reserved[v]],
    taken <- [t \in Checkouts |-> Ordered(t)]
StockTakenAtomically == Promise!Spec

(* A line leaves a cart only by a customer's edit or by the commit of an   *)
(* order it is part of: a line added while the checkout runs stays         *)
(* (docs/orders.md, "clears the cart").                                    *)
Buys(t, l) == l.id \in IdsOf(order[t].lines) /\ stage[t] = "flush" /\ stage'[t] = "done"
OnlyOrderedLinesCleared ==
    [][edits' = edits =>
         \A u \in Users : \A l \in cart[u] \ cart'[u] : \E t \in Checkouts : Buys(t, l)]_vars

(* A coupon is closed only after max_uses orders used it: lost updates of  *)
(* uses_count never close a campaign early.                                *)
ClosedOnlyWhenUsedUp == exhausted => Cardinality(Usages) >= MaxUses

(* redeem_loyalty_points checks the balance once. Until its checkout ends  *)
(* the account still covers the redemption: neither another redemption nor *)
(* the unlocked write of an award takes those points away in between.      *)
RedemptionStaysCovered ==
    \A t \in Checkouts :
        stage[t] \in {"award", "flush"} => points[order[t].user] >= order[t].redeem

(* Every started checkout commits or is rolled back, deadlocks included.   *)
CheckoutsEnd == \A t \in Checkouts : stage[t] \in Running ~> stage[t] \in {"done", "failed"}

(* docs/orders.md: "atomic checkout that locks the cart": a cart line is   *)
(* bought once.                                                            *)
LineOrderedOnce ==
    \A t1, t2 \in {t \in Checkouts : stage[t] = "done"} :
        t1 # t2 => IdsOf(order[t1].lines) \cap IdsOf(order[t2].lines) = {}
====
