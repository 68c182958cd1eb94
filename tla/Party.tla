---- MODULE Party ----
(***************************************************************************)
(* Party mode (app/modules/party/service.py): a host's shared cart that    *)
(* guests fill, the host locks and then orders.                            *)
(*                                                                         *)
(* Every operation on a party first takes its party_sessions row FOR       *)
(* UPDATE and holds it to the end of its transaction: Enter is that lock   *)
(* with what the operation reads under it, and Join, Add, ... are the      *)
(* writes and the commit. A call that is refused changes nothing and is no *)
(* step; Abort is one that fails after its lock. A checkout moreover locks *)
(* the balances of what it orders one after the other (ReserveLine) before *)
(* it commits, and two of different parties may meet there.                *)
(*                                                                         *)
(* A cart item is named by who added it and its variant, which is how the  *)
(* code finds it again. Prices and totals are in Billing.                  *)
(*                                                                         *)
(* Unlocked, AnyTime, ForgotLock and LastItem are mutants of the           *)
(* definitions that follow them and used by nothing else.                  *)
(*                                                                         *)
(* Left out: spending_limit_minor, which nothing reads; notes, nicknames;  *)
(* the coupon, which is validated and never recorded; the host's points.   *)
(***************************************************************************)
EXTENDS Naturals, FiniteSets, FiniteSetsExt, Quantities

CONSTANTS
    Parties,
    Users,
    Hosts,      \* bound: the users who create parties
    MaxSeats,   \* bound: number of party_participants rows
    Variants,
    Calls,      \* requests in progress
    Nobody,     \* holder of a free row, the user of an anonymous guest
    OnHand,     \* on_hand_quantity of each variant
    Bundles,    \* the curated packs that may be created: quantities by variant
    MaxQty,     \* bound: quantity of a cart item of each variant
    MaxOrders   \* bound: number of orders

ASSUME PartyConstants ==
    /\ Nobody \notin Calls \cup Users \cup Parties
    /\ Hosts \subseteq Users
    /\ OnHand \in [Variants -> Nat]
    /\ Bundles \subseteq [Variants -> Nat]
    /\ MaxSeats \in Nat /\ MaxQty \in [Variants -> Nat] /\ MaxOrders \in Nat

VARIABLES
    status,    \* of a party: "none", "active", "locked" or "ordered"
    host,      \* its host_user_id
    seat,      \* the participants: party, user and role
    cart,      \* quantity of each participant's item of each variant, 0: no item
    packs,     \* the curated packs
    reserved,  \* reserved_quantity of each variant
    taken,     \* the lines of each order
    orderOf,   \* the party of each order
    relocked,  \* history: how often an ordered party was locked again
    lock,      \* the call that holds each party's row
    balance,   \* the call that holds each variant's inventory_balances row
    call       \* what each running call does and has read

roomVars == <<status, host, seat, relocked>>
stockVars == <<reserved, taken, orderOf>>
locks == <<lock, balance>>
vars == <<roomVars, cart, packs, stockVars, locks, call>>

Statuses == {"none", "active", "locked", "ordered"}
Seats == 1..MaxSeats
Orders == 1..MaxOrders
NoSeat == [party |-> Nobody, user |-> Nobody, role |-> "none"]
NoItems == [v \in Variants |-> 0]
Idle == [op |-> "none", party |-> Nobody, users |-> {},
         items |-> [m \in {} |-> NoItems], left |-> {}]

MembersOf(p) == {m \in Seats : seat[m].party = p}
OrdersOf(p) == {n \in Orders : orderOf[n] = p}

Init ==
    /\ status = [p \in Parties |-> "none"]
    /\ host = [p \in Parties |-> Nobody]
    /\ seat = [m \in Seats |-> NoSeat]
    /\ cart = [m \in Seats |-> NoItems]
    /\ packs = {}
    /\ reserved = [v \in Variants |-> 0]
    /\ taken = [n \in Orders |-> NoItems]
    /\ orderOf = [n \in Orders |-> Nobody]
    /\ relocked = [p \in Parties |-> 0]
    /\ lock = [p \in Parties |-> Nobody]
    /\ balance = [v \in Variants |-> Nobody]
    /\ call = [c \in Calls |-> Idle]

(* Participants are inserted in the order of their numbers.                *)
NextSeat(m) == seat[m] = NoSeat /\ \A x \in 1..(m - 1) : seat[x] # NoSeat

(* create_party_session: the party with its host as first participant.     *)
CreateSession(p, u, m) ==
    /\ status[p] = "none"
    /\ NextSeat(m)
    /\ status' = [status EXCEPT ![p] = "active"]
    /\ host' = [host EXCEPT ![p] = u]
    /\ seat' = [seat EXCEPT ![m] = [party |-> p, user |-> u, role |-> "host"]]
    /\ UNCHANGED <<cart, packs, stockVars, relocked, locks, call>>

(* create_party_pack.                                                      *)
CreatePack(k) ==
    /\ packs' = packs \cup {k}
    /\ UNCHANGED <<roomVars, cart, stockVars, locks, call>>

-----------------------------------------------------------------------------
(* The lock of a party, the status that each operation asks for under it,  *)
(* and what it reads.                                                      *)

Unlocked(p) == TRUE
RowFree(p) == lock[p] = Nobody

AnyTime == {"active", "locked", "ordered"}
Joinable == {"active", "locked"}
Editable == {"active"}
Orderable == {"active", "locked"}

Allowed(op) ==
    CASE op = "join" -> Joinable
      [] op = "edit" -> Editable
      [] op = "lock" -> AnyTime
      [] op = "checkout" -> Orderable

Ops == {"join", "edit", "lock", "checkout"}

(* The items of a cart with identical variants consolidated, and the       *)
(* variants among them, which a checkout has to reserve.                   *)
LastItem(items, v) == Max({items[m][v] : m \in DOMAIN items})
VariantTotal(items, v) == Total([m \in DOMAIN items |-> items[m][v]], MaxQty[v])
Consolidated(items) == [v \in Variants |-> VariantTotal(items, v)]
Wanted(items) == {v \in Variants : Consolidated(items)[v] > 0}

(* An empty cart is not checked out.                                       *)
Enter(c, op, p) ==
    LET items == [m \in MembersOf(p) |-> cart[m]]
        left == IF op = "checkout" THEN Wanted(items) ELSE {}
    IN  /\ call[c] = Idle
        /\ RowFree(p)
        /\ status[p] \in Allowed(op)
        /\ op = "checkout" => left # {}
        /\ lock' = [lock EXCEPT ![p] = c]
        /\ call' = [call EXCEPT ![c] =
                      [op |-> op, party |-> p,
                       users |-> {seat[m].user : m \in MembersOf(p)},
                       items |-> items, left |-> left]]
        /\ UNCHANGED <<roomVars, cart, packs, stockVars, balance>>

Leave(c) ==
    /\ call' = [call EXCEPT ![c] = Idle]
    /\ lock' = [p \in Parties |-> IF lock[p] = c THEN Nobody ELSE lock[p]]
    /\ balance' = [v \in Variants |-> IF balance[v] = c THEN Nobody ELSE balance[v]]

(* The transaction is rolled back: no price, no location, too little stock *)
(* at any of its lines, not the host, a lost connection, or two checkouts  *)
(* that wait for each other's balances, of which PostgreSQL aborts one.    *)
Abort(c) ==
    /\ call[c] # Idle
    /\ Leave(c)
    /\ UNCHANGED <<roomVars, cart, packs, stockVars>>

-----------------------------------------------------------------------------
(* The rest of each operation.                                             *)

(* join_party_session: a registered user who is in already keeps the seat. *)
Join(c, u, m) ==
    /\ call[c].op = "join"
    /\ u # Nobody => u \notin call[c].users
    /\ NextSeat(m)
    /\ seat' = [seat EXCEPT ![m] = [party |-> call[c].party, user |-> u, role |-> "guest"]]
    /\ Leave(c)
    /\ UNCHANGED <<status, host, relocked, cart, packs, stockVars>>

(* What an item is after q more of it were added to what was read.         *)
Added(c, m, v, q) == call[c].items[m][v] + q

(* add_item_to_party_cart, by a participant of the party.                  *)
AddItem(c, m, v, q) ==
    /\ call[c].op = "edit"
    /\ m \in DOMAIN call[c].items
    /\ Added(c, m, v, q) <= MaxQty[v]
    /\ cart' = [cart EXCEPT ![m][v] = Added(c, m, v, q)]
    /\ Leave(c)
    /\ UNCHANGED <<roomVars, packs, stockVars>>

(* add_party_pack_to_party_cart: all items of the pack or none.            *)
AddPack(c, m, k) ==
    /\ call[c].op = "edit"
    /\ m \in DOMAIN call[c].items
    /\ \A v \in Variants : Added(c, m, v, k[v]) <= MaxQty[v]
    /\ cart' = [cart EXCEPT ![m] = [v \in Variants |-> Added(c, m, v, k[v])]]
    /\ Leave(c)
    /\ UNCHANGED <<roomVars, packs, stockVars>>

(* update_party_cart_item and remove_party_cart_item (q = 0), asked for by *)
(* the participant x: who added the item, or a host. The participant is    *)
(* looked up by id alone, so that the host may be another party's.         *)
MayEdit(x, m) == seat[x] # NoSeat /\ (x = m \/ seat[x].role = "host")

UpdateItem(c, x, m, v, q) ==
    /\ call[c].op = "edit"
    /\ m \in DOMAIN call[c].items
    /\ call[c].items[m][v] > 0
    /\ MayEdit(x, m)
    /\ cart' = [cart EXCEPT ![m][v] = q]
    /\ Leave(c)
    /\ UNCHANGED <<roomVars, packs, stockVars>>

(* lock_party_cart, by the host, whatever the status.                      *)
LockCart(c) ==
    LET p == call[c].party
    IN  /\ call[c].op = "lock"
        /\ status' = [status EXCEPT ![p] = "locked"]
        /\ relocked' = [relocked EXCEPT ![p] = @ + (IF status[p] = "ordered" THEN 1 ELSE 0)]
        /\ Leave(c)
        /\ UNCHANGED <<host, seat, cart, packs, stockVars>>

(* checkout_party_cart, by the host: the balance of each variant, in the   *)
(* order of a dictionary whose items were loaded in no order. The balance  *)
(* is read at its lock, and reserved_quantity is written at the commit.    *)
Available(v) == OnHand[v] - reserved[v]
InStock(c, v) == Consolidated(call[c].items)[v] <= Available(v)
ForgotLock(c, v) == InStock(c, v)
CanReserve(c, v) == balance[v] = Nobody /\ InStock(c, v)

ReserveLine(c, v) ==
    /\ call[c].op = "checkout"
    /\ v \in call[c].left
    /\ CanReserve(c, v)
    /\ balance' = [balance EXCEPT ![v] = c]
    /\ call' = [call EXCEPT ![c].left = @ \ {v}]
    /\ UNCHANGED <<roomVars, cart, packs, stockVars, lock>>

(* The order is placed and everything becomes visible.                     *)
CheckoutCart(c, n) ==
    LET p == call[c].party
        lines == Consolidated(call[c].items)
    IN  /\ call[c].op = "checkout"
        /\ call[c].left = {}
        /\ orderOf[n] = Nobody /\ \A x \in 1..(n - 1) : orderOf[x] # Nobody
        /\ reserved' = [v \in Variants |-> reserved[v] + lines[v]]
        /\ taken' = [taken EXCEPT ![n] = lines]
        /\ orderOf' = [orderOf EXCEPT ![n] = p]
        /\ status' = [status EXCEPT ![p] = "ordered"]
        /\ Leave(c)
        /\ UNCHANGED <<host, seat, relocked, cart, packs>>

Next ==
    \/ \E p \in Parties, u \in Hosts, m \in Seats : CreateSession(p, u, m)
    \/ \E k \in Bundles \ packs : CreatePack(k)
    \/ \E c \in Calls :
        \/ \E op \in Ops, p \in Parties : Enter(c, op, p)
        \/ Abort(c)
        \/ \E m \in Seats :
            \/ \E u \in Users \cup {Nobody} : Join(c, u, m)
            \/ \E v \in Variants : \E q \in 1..MaxQty[v] : AddItem(c, m, v, q)
            \/ \E k \in packs : AddPack(c, m, k)
            \/ \E x \in Seats, v \in Variants : \E q \in 0..MaxQty[v] : UpdateItem(c, x, m, v, q)
        \/ LockCart(c)
        \/ \E v \in Variants : ReserveLine(c, v)
        \/ \E n \in Orders : CheckoutCart(c, n)

Spec == Init /\ [][Next]_vars

-----------------------------------------------------------------------------

TypeOK ==
    /\ status \in [Parties -> Statuses]
    /\ host \in [Parties -> Users \cup {Nobody}]
    /\ seat \in [Seats -> [party : Parties \cup {Nobody}, user : Users \cup {Nobody},
                           role : {"none", "host", "guest"}]]
    /\ cart \in [Seats -> [Variants -> Nat]]
    /\ \A m \in Seats, v \in Variants : cart[m][v] <= MaxQty[v]
    /\ packs \subseteq Bundles
    /\ reserved \in [Variants -> Nat]
    /\ taken \in [Orders -> [Variants -> Nat]]
    /\ orderOf \in [Orders -> Parties \cup {Nobody}]
    /\ relocked \in [Parties -> Nat]
    /\ lock \in [Parties -> Calls \cup {Nobody}]
    /\ balance \in [Variants -> Calls \cup {Nobody}]
    /\ DOMAIN call = Calls
    /\ \A c \in Calls :
        /\ DOMAIN call[c] = DOMAIN Idle
        /\ call[c].op \in Ops \cup {"none"}
        /\ call[c].users \subseteq Users \cup {Nobody}
        /\ DOMAIN call[c].items \subseteq Seats
        /\ call[c].left \subseteq Variants
        /\ call[c] # Idle => call[c].party \in Parties /\ lock[call[c].party] = c

(* An order takes the whole cart of its party, consolidated, and that cart *)
(* is what it stays: however locks, edits, joins and orders are interleaved*)
(* nothing is added to, changed in or removed from a cart that was ordered.*)
OrdersMatchTheCart ==
    \A p \in Parties : \A n \in OrdersOf(p) :
        \A v \in Variants :
            taken[n][v] = Total([m \in MembersOf(p) |-> cart[m][v]], MaxQty[v])

(* Parties that share a location take their stock all lines at once, only  *)
(* what is available, once per order (ADR 0014, "inventory is reserved     *)
(* atomically"), although each checkout locks and checks the balances one  *)
(* by one and the checkout of another party runs, commits or is rolled back*)
(* between any two of them.                                                *)
Promise == INSTANCE AtomicOrders WITH
    Checkouts <- Orders,
    available <- [v \in Variants |-> Available(v)],
    taken <- taken
StockTakenAtomically == Promise!Spec

(* A party is ordered once; only the host who locks it again, which        *)
(* lock_party_cart allows, can order it again, and once for each time.     *)
OrderedOncePerLock ==
    \A p \in Parties : Cardinality(OrdersOf(p)) <= 1 + relocked[p]
====
