---- MODULE Inventory ----
(***************************************************************************)
(* The stock authority: inventory_balances, the stock_adjustments ledger   *)
(* and the inventory_reservations, as app/modules/inventory/service.py and *)
(* the checkout's _reserve_cart_inventory change them.                     *)
(*                                                                         *)
(* adjust_stock, reserve_stock and the checkout's hold take the balance    *)
(* row with SELECT ... FOR UPDATE before they read anything they later     *)
(* write, so each of their transactions is one action. release_reservation *)
(* is not: it first loads the reservation without a lock, and the session  *)
(* hands back that same object when the row is selected FOR UPDATE after   *)
(* the balance (no populate_existing), so its decision is taken on the     *)
(* status the first read saw. It is two actions.                           *)
(*                                                                         *)
(* A call that raises leaves the database as it was (the transaction rolls *)
(* back) and is no step of the model. The CHECK constraints of the table   *)
(* are not guards here: the invariants show the code does not need them.   *)
(***************************************************************************)
EXTENDS Integers, FiniteSets, Quantities

CONSTANTS
    Stock,      \* the location/variant pairs, one balance row each
    HoldKeys,   \* the reservation keys of a pair
    AdjKeys,    \* the idempotency keys of a pair's adjustments
    Releasers,  \* concurrent calls of release_reservation
    MaxQty,     \* bound: the largest quantity of one call
    MaxOnHand,  \* bound: the largest stock of a pair
    MaxClock    \* bound: the last instant

ASSUME InventoryConstants ==
    /\ IsFiniteSet(HoldKeys)
    /\ IsFiniteSet(AdjKeys)
    /\ MaxQty \in Nat \ {0}
    /\ MaxOnHand \in Nat
    /\ MaxClock \in Nat

VARIABLES
    active,       \* pairs whose location and variant are both active
    onHand,       \* inventory_balances.on_hand_quantity; no row reads as 0
    reserved,     \* inventory_balances.reserved_quantity; no row reads as 0
    adjustments,  \* quantity_delta of a pair's adjustment per key, 0: no row
    status,       \* status of a pair's reservation per key, "none": no row
    qty,          \* its quantity
    expires,      \* its expires_at
    clock,        \* the database and application servers' wall clock
    release,      \* the reservation object each releaser loaded
    overRefunded  \* history: quantity returned for holds that were not active

vars == <<active, onHand, reserved, adjustments, status, qty, expires, clock,
          release, overRefunded>>

Statuses == {"active", "released", "expired", "consumed"}
Idle == [stage |-> "idle"]
Loaded(s, k) == [stage |-> "loaded", stock |-> s, key |-> k, seen |-> status[s][k]]

Quantity == 1..MaxQty
Deltas == (-MaxQty..MaxQty) \ {0}
Instants == 0..MaxClock

Init ==
    /\ active \in SUBSET Stock
    /\ onHand = [s \in Stock |-> 0]
    /\ reserved = [s \in Stock |-> 0]
    /\ adjustments = [s \in Stock |-> [k \in AdjKeys |-> 0]]
    /\ status = [s \in Stock |-> [k \in HoldKeys |-> "none"]]
    /\ qty = [s \in Stock |-> [k \in HoldKeys |-> 0]]
    /\ expires = [s \in Stock |-> [k \in HoldKeys |-> 0]]
    /\ clock = 0
    /\ release = [c \in Releasers |-> Idle]
    /\ overRefunded = [s \in Stock |-> 0]

(* The quantity that the live holds of pair s stand for.                   *)
Live == {"active", "consumed"}
LiveQty(s) == [k \in HoldKeys |-> IF status[s][k] \in Live THEN qty[s][k] ELSE 0]
Held(s) == Total(LiveQty(s), MaxQty)

(* Catalogue and location administration, outside the inventory service.   *)
SetActive(s) ==
    /\ active' = IF s \in active THEN active \ {s} ELSE active \cup {s}
    /\ UNCHANGED <<onHand, reserved, adjustments, status, qty, expires, clock,
                   release, overRefunded>>

Tick ==
    /\ clock < MaxClock
    /\ clock' = clock + 1
    /\ UNCHANGED <<active, onHand, reserved, adjustments, status, qty, expires,
                   release, overRefunded>>

(* What adjust_stock checks under the balance lock. A known key returns    *)
(* the balance or raises a conflict, and changes nothing. The Forgot...     *)
(* twins, here and below, are mutants: the same check forgotten.           *)
ForgotKey(s, k) == TRUE
NewKey(s, k) == adjustments[s][k] = 0
ForgotHolds(s, d) == onHand[s] + d >= 0
CoversHolds(s, d) == onHand[s] + d >= reserved[s]

AdjustStock(s, k, d) ==
    /\ s \in active
    /\ NewKey(s, k)
    /\ CoversHolds(s, d)
    /\ onHand[s] + d <= MaxOnHand
    /\ onHand' = [onHand EXCEPT ![s] = @ + d]
    /\ adjustments' = [adjustments EXCEPT ![s][k] = d]
    /\ UNCHANGED <<active, reserved, status, qty, expires, clock, release,
                   overRefunded>>

(* inward_stock_grn and write_off_breakage_waste of                        *)
(* app/modules/warehouse/service.py, which are what adjusts stock.         *)
InwardStock(s, k, q) == AdjustStock(s, k, q)
WriteOffStock(s, k, q) == AdjustStock(s, k, -q)

(* _expire_reservations: the active holds of s that ran out at t, and the  *)
(* reserved quantity and the statuses it leaves.                           *)
ForgotStatus(s, t) == {k \in HoldKeys : status[s][k] # "none" /\ expires[s][k] <= t}
Due(s, t) == {k \in HoldKeys : status[s][k] = "active" /\ expires[s][k] <= t}
DueQty(s, t) == [k \in HoldKeys |-> IF k \in Due(s, t) THEN qty[s][k] ELSE 0]
ForgotRefund(s, t) == reserved[s]
ReservedAfterExpiry(s, t) == reserved[s] - Total(DueQty(s, t), MaxQty)
StatusAfterExpiry(s, t) ==
    [k \in HoldKeys |-> IF k \in Due(s, t) THEN "expired" ELSE status[s][k]]

(* reserve_stock with a new key. t is the instant the call read the clock, *)
(* before it waited for the balance row.                                   *)
ReserveStock(s, k, q, t, e) ==
    /\ s \in active
    /\ t <= clock
    /\ e > t
    /\ ReservedAfterExpiry(s, t) >= 0
    /\ status[s][k] = "none"
    /\ onHand[s] - ReservedAfterExpiry(s, t) >= q
    /\ reserved' = [reserved EXCEPT ![s] = ReservedAfterExpiry(s, t) + q]
    /\ status' = [status EXCEPT ![s] = [StatusAfterExpiry(s, t) EXCEPT ![k] = "active"]]
    /\ qty' = [qty EXCEPT ![s][k] = q]
    /\ expires' = [expires EXCEPT ![s][k] = e]
    /\ UNCHANGED <<active, onHand, adjustments, clock, release, overRefunded>>

(* reserve_stock repeated with the key and quantity of a hold that is      *)
(* still active after the expiry: the hold is returned and the expiry of   *)
(* the others commits. Any other known key raises, which also undoes the   *)
(* expiry.                                                                 *)
ReserveReplay(s, k, q, t) ==
    /\ s \in active
    /\ t <= clock
    /\ ReservedAfterExpiry(s, t) >= 0
    /\ StatusAfterExpiry(s, t)[k] = "active"
    /\ qty[s][k] = q
    /\ reserved' = [reserved EXCEPT ![s] = ReservedAfterExpiry(s, t)]
    /\ status' = [status EXCEPT ![s] = StatusAfterExpiry(s, t)]
    /\ UNCHANGED <<active, onHand, adjustments, qty, expires, clock, release,
                   overRefunded>>

(* One line of a checkout that commits: _reserve_cart_inventory holds the  *)
(* quantity without expiring anything, create_order_from_cart marks the    *)
(* hold consumed, and no other transaction ever sees it active.            *)
CheckoutHold(s, k, q, t) ==
    /\ t <= clock
    /\ status[s][k] = "none"
    /\ onHand[s] - reserved[s] >= q
    /\ reserved' = [reserved EXCEPT ![s] = @ + q]
    /\ status' = [status EXCEPT ![s][k] = "consumed"]
    /\ qty' = [qty EXCEPT ![s][k] = q]
    /\ expires' = [expires EXCEPT ![s][k] = t + 1]
    /\ UNCHANGED <<active, onHand, adjustments, clock, release, overRefunded>>

(* release_reservation up to its first SELECT, which takes no lock.        *)
ReleaseLoad(c, s, k) ==
    /\ release[c] = Idle
    /\ status[s][k] # "none"
    /\ release' = [release EXCEPT ![c] = Loaded(s, k)]
    /\ UNCHANGED <<active, onHand, reserved, adjustments, status, qty, expires,
                   clock, overRefunded>>

(* The check after the decrement: a negative balance raises.               *)
ForgotSign(s, k) == TRUE
CanRefund(s, k) == reserved[s] - qty[s][k] >= 0

(* The rest of release_reservation, serialised by the balance row but      *)
(* decided on the loaded object. expires_at and quantity never change, so  *)
(* the loaded ones are the stored ones.                                    *)
ReleaseCommit(c) ==
    LET s == release[c].stock
        k == release[c].key
    IN  /\ release[c].stage = "loaded"
        /\ release[c].seen = "active"
        /\ CanRefund(s, k)
        /\ status' = [status EXCEPT ![s][k] =
                        IF expires[s][k] <= clock THEN "expired" ELSE "released"]
        /\ reserved' = [reserved EXCEPT ![s] = @ - qty[s][k]]
        /\ overRefunded' = [overRefunded EXCEPT ![s] =
                              IF status[s][k] = "active" THEN @ ELSE @ + qty[s][k]]
        /\ release' = [release EXCEPT ![c] = Idle]
        /\ UNCHANGED <<active, onHand, adjustments, qty, expires, clock>>

(* release_reservation that ends without an effect: the loaded status was  *)
(* not active, or the balance would become negative and the call raises.   *)
ReleaseNoEffect(c) ==
    /\ release[c].stage = "loaded"
    /\ \/ release[c].seen # "active"
       \/ ~CanRefund(release[c].stock, release[c].key)
    /\ release' = [release EXCEPT ![c] = Idle]
    /\ UNCHANGED <<active, onHand, reserved, adjustments, status, qty, expires,
                   clock, overRefunded>>

Next ==
    \/ Tick
    \/ \E s \in Stock :
        \/ SetActive(s)
        \/ \E k \in AdjKeys, q \in Quantity : InwardStock(s, k, q) \/ WriteOffStock(s, k, q)
        \/ \E k \in HoldKeys, q \in Quantity, t \in Instants :
            \/ \E e \in 1..(MaxClock + 1) : ReserveStock(s, k, q, t, e)
            \/ ReserveReplay(s, k, q, t)
            \/ CheckoutHold(s, k, q, t)
        \/ \E c \in Releasers, k \in HoldKeys : ReleaseLoad(c, s, k)
    \/ \E c \in Releasers : ReleaseCommit(c) \/ ReleaseNoEffect(c)

Spec == Init /\ [][Next]_vars

-----------------------------------------------------------------------------

TypeOK ==
    /\ active \in SUBSET Stock
    /\ onHand \in [Stock -> Nat]
    /\ reserved \in [Stock -> Nat]
    /\ adjustments \in [Stock -> [AdjKeys -> -MaxQty..MaxQty]]
    /\ status \in [Stock -> [HoldKeys -> Statuses \cup {"none"}]]
    /\ qty \in [Stock -> [HoldKeys -> 0..MaxQty]]
    /\ expires \in [Stock -> [HoldKeys -> Nat]]
    /\ clock \in Nat
    /\ release \in [Releasers ->
                      {Idle} \cup [stage : {"loaded"}, stock : Stock,
                                   key : HoldKeys, seen : Statuses]]
    /\ overRefunded \in [Stock -> Nat]

(* The guards of adjust_stock, reserve_stock and release_reservation keep  *)
(* 0 <= reserved <= on hand by themselves, whatever the interleaving of    *)
(* releases on stale objects.                                              *)
ReservedWithinStock == \A s \in Stock : reserved[s] <= onHand[s]

(* The on-hand quantity is the sum of the recorded deltas: adjust_stock    *)
(* applies a delta once per idempotency key, and nothing else moves stock. *)
Received(s) == [k \in AdjKeys |-> IF adjustments[s][k] > 0 THEN adjustments[s][k] ELSE 0]
Removed(s) == [k \in AdjKeys |-> IF adjustments[s][k] < 0 THEN -adjustments[s][k] ELSE 0]
LedgerExplainsOnHand ==
    \A s \in Stock :
        onHand[s] = Total(Received(s), MaxQty) - Total(Removed(s), MaxQty)

(* Every unit of a live hold is counted in reserved, except the units that *)
(* release_reservation gave back for a hold that was no longer active.     *)
(* Hence reserved never counts a hold that is gone, and it is exact as     *)
(* long as no release worked on a stale object.                            *)
HoldsAccounted == \A s \in Stock : reserved[s] + overRefunded[s] = Held(s)

(* A hold a checkout consumed keeps its status and its quantity: neither   *)
(* an expiry nor a release that loaded the row earlier takes it back.      *)
ConsumedIsFinal ==
    [][\A s \in Stock, k \in HoldKeys :
         status[s][k] = "consumed" =>
            status'[s][k] = "consumed" /\ qty'[s][k] = qty[s][k]]_vars

(* The concurrency contract of docs/inventory.md: the live holds of a pair *)
(* never add up to more than its stock. release_reservation breaks it.     *)
NoOversell == \A s \in Stock : Held(s) <= onHand[s]

(* docs/inventory.md: "Release is idempotent": what is no longer active is *)
(* not given back again.                                                   *)
ReleaseIsIdempotent == \A s \in Stock : overRefunded[s] = 0
====
