---- MODULE Billing ----
(***************************************************************************)
(* What one customer pays: the prices of a variant                         *)
(* (app/modules/pricing/service.py), the snapshot a cart line keeps of one,*)
(* VIP memberships (app/modules/memberships/service.py) and the amounts    *)
(* create_order_from_cart puts them together to. Totals has the arithmetic;*)
(* stock, locks and points are in Checkout.                                *)
(*                                                                         *)
(* Price writes lock the variant or the price and are one action each.     *)
(* Subscribing, cancelling and ordering read the membership without a lock *)
(* and write some awaits later, what they write computed from what they    *)
(* read: two actions each. GET /memberships/me and /savings flush a lazy   *)
(* expiry that nobody commits, and are no step.                            *)
(*                                                                         *)
(* A price row is named by its starts_at, which is unique for a variant and*)
(* currency. Taxes are the default rate of the one category the code uses. *)
(*                                                                         *)
(* KeepSnapshot, KeepOther and Revive are mutants of the definitions that  *)
(* follow them and used by nothing else.                                   *)
(***************************************************************************)
EXTENDS Totals, FiniteSets

CONSTANTS
    MaxTime,      \* bound: the clock, in days
    PriceWrites,  \* the arguments of set_variant_price: start, ends, amount
    Never,        \* ends_at of a price without end
    Plans,
    Duration,     \* duration_days of each plan
    FreeFrom,     \* free_delivery_min_order_minor of each plan
    Calls,        \* requests in progress
    MaxMembers,   \* bound: customer_memberships rows
    MaxLines,     \* bound: ids of cart lines, one more than Calls is enough
    MaxOrders,    \* bound: number of orders
    MaxRequests   \* bound: number of requests of any kind

ASSUME BillingConstants ==
    /\ MaxTime \in Nat /\ MaxMembers \in Nat /\ MaxLines \in Nat
    /\ MaxOrders \in Nat /\ MaxRequests \in Nat
    /\ Never > MaxTime
    /\ PriceWrites \subseteq [start : 0..MaxTime, ends : Nat, amount : Nat]
    /\ \A w \in PriceWrites : w.start < w.ends
    /\ Plans # {}
    /\ Duration \in [Plans -> Nat \ {0}] /\ FreeFrom \in [Plans -> Nat]

VARIABLES
    now,      \* the clock
    requests, \* number of requests so far
    price,    \* the price row of each start
    offered,  \* the plans that exist
    line,     \* the cart line: its id (0: none) and its price snapshot
    shown,    \* history: the current price when the line was last touched
    member,   \* the customer's membership rows
    orders,   \* the amounts of each order
    call,     \* what each running call does and has read
    raced     \* history: a subscription wrote over rows that had changed

prices == <<price, offered>>
vars == <<now, requests, prices, line, shown, member, orders, call, raced>>

DeliveryFee == 2900
DefaultBps == 1800

Starts == 0..MaxTime
Rows == 1..MaxMembers
NoPrice == [amount |-> 0, ends |-> 0, active |-> FALSE]
NoLine == [id |-> 0, start |-> 0, amount |-> 0]
NoRow == [plan |-> CHOOSE p \in Plans : TRUE, status |-> "none", expires |-> 0]
Idle == [op |-> "none", plan |-> CHOOSE p \in Plans : TRUE, at |-> 0, row |-> 0, was |-> NoRow,
         actives |-> {}, line |-> NoLine, shown |-> 0, start |-> 0]

Init ==
    /\ now = 0 /\ requests = 0
    /\ price = [s \in Starts |-> NoPrice]
    /\ offered = {}
    /\ line = NoLine /\ shown = 0
    /\ member = [r \in Rows |-> NoRow]
    /\ orders = {}
    /\ call = [c \in Calls |-> Idle]
    /\ raced = FALSE

Request == requests < MaxRequests /\ requests' = requests + 1

Tick ==
    /\ now < MaxTime
    /\ now' = now + 1
    /\ UNCHANGED <<requests, prices, line, shown, member, orders, call, raced>>

-----------------------------------------------------------------------------
(* Prices.                                                                 *)

(* set_variant_price creates the price of that start or overwrites it (an   *)
(* inactive one is one that is deactivated next).                          *)
SetVariantPrice(w) ==
    /\ Request
    /\ price' = [price EXCEPT ![w.start] =
                    [amount |-> w.amount, ends |-> w.ends, active |-> TRUE]]
    /\ UNCHANGED <<now, offered, line, shown, member, orders, call, raced>>

DeactivatePrice(s) ==
    /\ Request
    /\ price[s].active
    /\ price' = [price EXCEPT ![s].active = FALSE]
    /\ UNCHANGED <<now, offered, line, shown, member, orders, call, raced>>

(* get_current_variant_price: the latest start of those in effect.         *)
InEffect == {s \in Starts : price[s].active /\ s <= now /\ price[s].ends > now}
Current == CHOOSE s \in InEffect : \A x \in InEffect : x <= s

(* add_cart_item and update_cart_item snapshot the current price. A line   *)
(* that was removed comes back as another row: its id is one that no       *)
(* running checkout has loaded.                                            *)
Loaded == {call[c].line.id : c \in Calls}
NextLine(id) == id \notin Loaded /\ \A x \in 1..(id - 1) : x \in Loaded

Snapshot(id) == [id |-> id, start |-> Current, amount |-> price[Current].amount]
KeepSnapshot(id) == IF line = NoLine THEN Snapshot(id) ELSE line
SnapshotPrice(id) == Snapshot(id)

TouchLine(id) ==
    /\ Request
    /\ InEffect # {}
    /\ IF line = NoLine THEN NextLine(id) ELSE id = line.id
    /\ line' = SnapshotPrice(id)
    /\ shown' = price[Current].amount
    /\ UNCHANGED <<now, prices, member, orders, call, raced>>

RemoveLine ==
    /\ Request
    /\ line # NoLine
    /\ line' = NoLine /\ shown' = 0
    /\ UNCHANGED <<now, prices, member, orders, call, raced>>

-----------------------------------------------------------------------------
(* Memberships.                                                            *)

CreatePlan(p) ==
    /\ Request
    /\ p \notin offered
    /\ offered' = offered \cup {p}
    /\ UNCHANGED <<now, price, line, shown, member, orders, call, raced>>

(* get_customer_active_membership: the active row that expires last, if it *)
(* is in force. If it is not it is expired on the way, even so.            *)
Actives == {r \in Rows : member[r].status = "active"}
Lasting == {r \in Actives : \A x \in Actives : member[x].expires <= member[r].expires}
ReadMembership(k, op, p, r) ==
    [op |-> op, plan |-> p, at |-> now, row |-> r,
     was |-> IF r = 0 THEN NoRow ELSE member[r], actives |-> Actives,
     line |-> k.line, shown |-> k.shown, start |-> k.start]
InForce(k) == k.row # 0 /\ k.was.expires > k.at

Found == IF Lasting = {} THEN {0} ELSE Lasting

(* A subscription or a cancellation begins.                                *)
ReadFor(c, op, p) ==
    /\ Request
    /\ call[c] = Idle
    /\ op = "subscribe" => p \in offered
    /\ \E r \in Found : call' = [call EXCEPT ![c] = ReadMembership(Idle, op, p, r)]
    /\ UNCHANGED <<now, prices, line, shown, member, orders, raced>>

Finish(c) == call' = [call EXCEPT ![c] = Idle]

(* subscribe_to_plan: the same plan is extended ...                        *)
Revive(k) == [member[k.row] EXCEPT !.expires = k.was.expires + Duration[k.plan],
                                   !.status = "active"]
Extended(k) == [member[k.row] EXCEPT !.expires = k.was.expires + Duration[k.plan]]

Extend(c) ==
    LET k == call[c]
    IN  /\ k.op = "subscribe"
        /\ InForce(k) /\ k.was.plan = k.plan
        /\ member' = [member EXCEPT ![k.row] = Extended(k)]
        /\ Finish(c)
        /\ UNCHANGED <<now, requests, prices, line, shown, orders, raced>>

(* ... another plan, or a lapsed row, is expired and a new row inserted.   *)
KeepOther(k) == {}
Superseded(k) == IF k.row = 0 THEN {} ELSE {k.row}

Subscribe(c, r) ==
    LET k == call[c]
    IN  /\ k.op = "subscribe"
        /\ ~(InForce(k) /\ k.was.plan = k.plan)
        /\ member[r] = NoRow /\ \A x \in 1..(r - 1) : member[x] # NoRow
        /\ member' = [x \in Rows |->
              IF x = r THEN [plan |-> k.plan, status |-> "active",
                             expires |-> k.at + Duration[k.plan]]
              ELSE IF x \in Superseded(k) THEN [member[x] EXCEPT !.status = "expired"]
              ELSE member[x]]
        /\ raced' = (raced \/ ~(Actives \subseteq k.actives))
        /\ Finish(c)
        /\ UNCHANGED <<now, requests, prices, line, shown, orders>>

(* cancel_membership.                                                      *)
Cancel(c) ==
    LET k == call[c]
    IN  /\ k.op = "cancel"
        /\ InForce(k)
        /\ member' = [member EXCEPT ![k.row].status = "cancelled"]
        /\ Finish(c)
        /\ UNCHANGED <<now, requests, prices, line, shown, orders, raced>>

(* The plan is gone, nothing to cancel, or a lost connection.              *)
Abort(c) ==
    /\ call[c] # Idle
    /\ Finish(c)
    /\ UNCHANGED <<now, requests, prices, line, shown, member, orders, raced>>

-----------------------------------------------------------------------------
(* create_order_from_cart: the cart is read; later the current price, whose*)
(* row the order names, and the membership; the commit is later still.     *)

LoadCart(c) ==
    /\ Request
    /\ call[c] = Idle
    /\ line # NoLine
    /\ Cardinality(orders) < MaxOrders
    /\ call' = [call EXCEPT ![c] = [Idle EXCEPT !.op = "cart", !.line = line, !.shown = shown]]
    /\ UNCHANGED <<now, prices, line, shown, member, orders, raced>>

PriceOrder(c) ==
    /\ call[c].op = "cart"
    /\ InEffect # {}
    /\ \E r \in Found :
        call' = [call EXCEPT ![c] =
                    [ReadMembership(call[c], "order", call[c].was.plan, r) EXCEPT
                        !.start = Current]]
    /\ UNCHANGED <<now, requests, prices, line, shown, member, orders, raced>>

(* The amounts: the line's snapshot is charged, not the price it names.    *)
Amounts(k, off, points) ==
    LET subtotal == k.line.amount
        tax == DefaultTax(subtotal, DefaultBps)
        fee == Fee(subtotal, DeliveryFee, InForce(k), FreeFrom[k.was.plan])
    IN  [amount |-> subtotal, price |-> k.start, shown |-> k.shown, member |-> InForce(k),
         fee |-> fee, total |-> Total(subtotal, off, points, tax, fee)]

Lapsed(k) == IF k.row # 0 /\ ~InForce(k) THEN {k.row} ELSE {}

(* Only the line that was loaded is deleted from the cart.                 *)
CommitOrder(c, off, points) ==
    LET k == call[c]
    IN  /\ k.op = "order"
        /\ orders' = orders \cup {Amounts(k, off, points)}
        /\ member' = [r \in Rows |-> IF r \in Lapsed(k)
                                     THEN [member[r] EXCEPT !.status = "expired"]
                                     ELSE member[r]]
        /\ IF line.id = k.line.id THEN line' = NoLine /\ shown' = 0
                                  ELSE UNCHANGED <<line, shown>>
        /\ Finish(c)
        /\ UNCHANGED <<now, requests, prices, raced>>

(* Neither coupon nor points, or 20 percent up to 50 rupees and 400 points.*)
Offs(amount) == {<<0, 0>>, <<PercentOff(amount, 2000, 5000), 400>>}

Next ==
    \/ Tick
    \/ \E w \in PriceWrites : SetVariantPrice(w)
    \/ \E s \in Starts : DeactivatePrice(s)
    \/ \E id \in 1..MaxLines : TouchLine(id)
    \/ RemoveLine
    \/ \E p \in Plans : CreatePlan(p)
    \/ \E c \in Calls :
        \/ \E p \in Plans : ReadFor(c, "subscribe", p)
        \/ ReadFor(c, "cancel", Idle.plan)
        \/ Extend(c) \/ Cancel(c) \/ Abort(c)
        \/ \E r \in Rows : Subscribe(c, r)
        \/ LoadCart(c) \/ PriceOrder(c)
        \/ \E o \in Offs(call[c].line.amount) : CommitOrder(c, o[1], o[2])

Spec == Init /\ [][Next]_vars

-----------------------------------------------------------------------------

Statuses == {"none", "active", "expired", "cancelled"}
Members == [plan : Plans, status : Statuses, expires : Nat]
Snapshots == [id : 0..MaxLines, start : Starts, amount : Nat]

TypeOK ==
    /\ now \in 0..MaxTime /\ requests \in 0..MaxRequests
    /\ price \in [Starts -> [amount : Nat, ends : Nat, active : BOOLEAN]]
    /\ offered \subseteq Plans
    /\ line \in Snapshots /\ shown \in Nat
    /\ member \in [Rows -> Members]
    /\ \A o \in orders : o.total \in Nat /\ o.total >= o.fee
    /\ call \in [Calls -> [op : {"none", "subscribe", "cancel", "cart", "order"}, plan : Plans,
                           at : 0..MaxTime, row : Rows \cup {0}, was : Members,
                           actives : SUBSET Rows, line : Snapshots, shown : Nat,
                           start : Starts]]
    /\ raced \in BOOLEAN

(* A customer has two active memberships only if a subscription went by a  *)
(* table of memberships to which another one had added since: switching,   *)
(* extending, lapsing and cancelling never leave a second one behind.      *)
OneMembershipUnlessRaced == ~raced => Cardinality(Actives) <= 1

(* A membership that was cancelled or has expired never comes back, not    *)
(* even by an extension that found it active and commits afterwards.       *)
EndedStaysEnded ==
    [][\A r \in Rows : member[r].status \in {"expired", "cancelled"} =>
                         member'[r].status \in {"expired", "cancelled"}]_vars

(* An order charges the price that was current when the customer last      *)
(* touched the line, however prices are set, lapse and are deactivated     *)
(* until then, in between and while the checkout runs (docs/cart.md,       *)
(* "Price behavior").                                                      *)
ChargedAsShown == \A o \in orders : o.amount = o.shown
====
