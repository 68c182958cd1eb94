---- MODULE Customers ----
(***************************************************************************)
(* What the shop knows of one customer: the addresses and the coverage of  *)
(* postal codes (app/modules/addresses/service.py), the identity document  *)
(* (app/modules/compliance/service.py), and the orders that rest on them.  *)
(*                                                                         *)
(* Address writes lock the user's row for their whole transaction: Enter,  *)
(* Clear (the bulk UPDATE of the other defaults) and Commit are their      *)
(* steps. A KYC submission and an order lock nothing of all this: they     *)
(* read, and write some awaits later. Coverage writes lock the location    *)
(* and are one action each.                                                *)
(*                                                                         *)
(* The partial unique index on the default address is left out, so that    *)
(* OneDefault tells whether it is ever needed. Locations stay active; the  *)
(* litres of an order are never passed to the check and are left out.      *)
(*                                                                         *)
(* Unlocked and AnyAge are mutants of the definitions they stand beside   *)
(* and used by nothing else.                                               *)
(***************************************************************************)
EXTENDS Integers, FiniteSets

CONSTANTS
    MaxAddresses,   \* bound: customer_addresses rows
    Places,         \* the postal code and state of an address
    Pins,           \* postal codes
    Locations,      \* fulfillment locations, by their id
    CoverageWrites, \* the arguments of upsert_coverage
    Ages,           \* age a document may state
    LegalAge,       \* of each state: its regulation, or the default of 21
    Calls,          \* requests in progress
    MaxRequests,    \* bound: number of requests of any kind
    Nobody          \* holder of the free user row

ASSUME CustomerConstants ==
    /\ MaxAddresses \in Nat /\ MaxRequests \in Nat
    /\ Locations \subseteq Nat /\ Ages \subseteq Nat
    /\ CoverageWrites \subseteq
         [location : Locations, pin : Pins, priority : Nat, active : BOOLEAN]
    /\ \A p \in Places : p.pin \in Pins /\ LegalAge[p.state] \in Nat
    /\ Places # {} /\ Nobody \notin Calls

VARIABLES
    address,   \* customer_addresses, by number in the order of insertion
    userLock,  \* the request that holds the user's row
    coverage,  \* fulfillment_coverages of each location and postal code
    kyc,       \* the customer_kycs row; age -1 when there is none
    stated,    \* history: the ages of the documents submitted
    closed,    \* states with a dry day or closed shops at the moment
    call,      \* what each running request does and has read
    orders,    \* the orders placed, with their compliance log
    requests   \* number of requests so far

vars == <<address, userLock, coverage, kyc, stated, closed, call, orders, requests>>

Addresses == 1..MaxAddresses
States == {p.state : p \in Places}
AnyPlace == CHOOSE p \in Places : TRUE
NoAddress == [made |-> FALSE, active |-> FALSE, default |-> FALSE, place |-> AnyPlace]
NoKyc == [age |-> -1, verified |-> FALSE]
Idle == [op |-> "none", addr |-> 0, place |-> AnyPlace, default |-> FALSE, cleared |-> {},
         kyc |-> NoKyc, age |-> 0, location |-> 0, alcohol |-> FALSE, stale |-> FALSE]
AddressOps == {"clear", "write", "deactivate"}
OrderOps == {"order", "resolved", "complied"}

Init ==
    /\ address = [a \in Addresses |-> NoAddress]
    /\ userLock = Nobody
    /\ coverage = [l \in Locations |-> [p \in Pins |-> [active |-> FALSE, priority |-> 0]]]
    /\ kyc = NoKyc
    /\ stated = {}
    /\ closed = {}
    /\ call = [c \in Calls |-> Idle]
    /\ orders = {}
    /\ requests = 0

Request == requests < MaxRequests /\ requests' = requests + 1

(* History: marks the orders, in progress or placed, that rest on one of   *)
(* these addresses or on the coverage of one of these postal codes.        *)
Stale(rows, addrs, pins) ==
    [c \in Calls |-> [rows[c] EXCEPT !.stale = @ \/
        (rows[c].op \in OrderOps /\ (rows[c].addr \in addrs \/ rows[c].place.pin \in pins))]]
StaleOrders(addrs, pins) ==
    {[o EXCEPT !.stale = @ \/ o.addr \in addrs \/ o.place.pin \in pins] : o \in orders}

-----------------------------------------------------------------------------
(* Addresses. Every write begins with the user's row, FOR UPDATE, and,     *)
(* except for an insert, the address, which must be active.                *)

Unlocked == TRUE
UserFree == userLock = Nobody

NextAddress(a) == ~address[a].made /\ \A x \in 1..(a - 1) : address[x].made
Owned(a) == address[a].active

Enter(c, op, a, place, default) ==
    /\ Request
    /\ call[c] = Idle
    /\ UserFree
    /\ userLock' = c
    /\ call' = [call EXCEPT ![c] = [Idle EXCEPT !.op = op, !.addr = a, !.place = place,
                                                !.default = default]]
    /\ UNCHANGED <<address, coverage, kyc, stated, closed, orders>>

WriteOp(default) == IF default THEN "clear" ELSE "write"

CreateAddress(c, a, place, default) ==
    /\ NextAddress(a)
    /\ Enter(c, WriteOp(default), a, place, default)

(* set_default_address is an update that leaves the place as it is.        *)
UpdateAddress(c, a, place, default) ==
    /\ Owned(a)
    /\ Enter(c, WriteOp(default), a, place, default)

(* update_address without is_default.                                      *)
MoveAddress(c, a, place) ==
    /\ Owned(a)
    /\ Enter(c, "write", a, place, address[a].default)

DeactivateAddress(c, a) ==
    /\ Owned(a)
    /\ Enter(c, "deactivate", a, address[a].place, FALSE)

(* _clear_default_address: the rows the UPDATE finds, all but this one.    *)
Defaults == {a \in Addresses : address[a].active /\ address[a].default}

Clear(c) ==
    /\ call[c].op = "clear"
    /\ call' = [call EXCEPT ![c].op = "write", ![c].cleared = Defaults \ {call[c].addr}]
    /\ UNCHANGED <<address, userLock, coverage, kyc, stated, closed, orders, requests>>

Written(k) ==
    [made |-> TRUE, active |-> k.op # "deactivate", default |-> k.default, place |-> k.place]

Commit(c) ==
    LET k == call[c]
    IN  /\ k.op \in {"write", "deactivate"}
        /\ address' = [a \in Addresses |->
              IF a = k.addr THEN Written(k)
              ELSE IF a \in k.cleared THEN [address[a] EXCEPT !.default = FALSE]
              ELSE address[a]]
        /\ userLock' = Nobody
        /\ call' = Stale([call EXCEPT ![c] = Idle], {k.addr}, {})
        /\ orders' = StaleOrders({k.addr}, {})
        /\ UNCHANGED <<coverage, kyc, stated, closed, requests>>

(* Any refusal, error or lost connection before the commit.                *)
Abort(c) ==
    /\ call[c] # Idle
    /\ userLock' = IF userLock = c THEN Nobody ELSE userLock
    /\ call' = [call EXCEPT ![c] = Idle]
    /\ UNCHANGED <<address, coverage, kyc, stated, closed, orders, requests>>

-----------------------------------------------------------------------------
(* Coverage: upsert_coverage; deactivate_coverage is an upsert of the same *)
(* priority.                                                               *)

CoverageIs(l, pin, row) ==
    /\ Request
    /\ coverage' = [coverage EXCEPT ![l][pin] = row]
    /\ call' = Stale(call, {}, {pin})
    /\ orders' = StaleOrders({}, {pin})
    /\ UNCHANGED <<address, userLock, kyc, stated, closed>>

UpsertCoverage(w) ==
    CoverageIs(w.location, w.pin, [active |-> w.active, priority |-> w.priority])

DeactivateCoverage(l, pin) ==
    /\ coverage[l][pin].active
    /\ CoverageIs(l, pin, [coverage[l][pin] EXCEPT !.active = FALSE])

(* The first, by priority and id, of the active ones.                      *)
Before(l, x, pin) ==
    \/ coverage[l][pin].priority < coverage[x][pin].priority
    \/ coverage[l][pin].priority = coverage[x][pin].priority /\ l < x
Covering(pin) == {l \in Locations : coverage[l][pin].active}
FirstOf(pin) == {l \in Covering(pin) : \A x \in Covering(pin) \ {l} : Before(l, x, pin)}

-----------------------------------------------------------------------------
(* The identity document: submit_customer_kyc.                             *)

Adult(age) == age >= 18

SubmitKyc(c, age) ==
    /\ Request
    /\ call[c] = Idle
    /\ call' = [call EXCEPT ![c] = [Idle EXCEPT !.op = "kyc", !.age = age, !.kyc = kyc]]
    /\ UNCHANGED <<address, userLock, coverage, kyc, stated, closed, orders>>

(* The flush writes the columns that differ from what was read, and no     *)
(* others. An insert beside another insert fails on the unique key.        *)
Flushed(read, new, now) == IF new # read THEN new ELSE now
Resubmitted(k) ==
    [age |-> Flushed(k.kyc.age, k.age, kyc.age),
     verified |-> Flushed(k.kyc.verified, Adult(k.age), kyc.verified)]

WriteKyc(c) ==
    LET k == call[c]
    IN  /\ k.op = "kyc"
        /\ k.kyc = NoKyc => kyc = NoKyc
        /\ kyc' = Resubmitted(k)
        /\ stated' = stated \cup {k.age}
        /\ call' = [call EXCEPT ![c] = Idle]
        /\ UNCHANGED <<address, userLock, coverage, closed, orders, requests>>

-----------------------------------------------------------------------------
(* create_order_from_cart, as far as it reads all this.                    *)

(* The environment: the day and the hour.                                  *)
Calendar(states) ==
    /\ Request
    /\ closed' = states
    /\ UNCHANGED <<address, userLock, coverage, kyc, stated, call, orders>>

ValidateAddress(c, a, alcohol) ==
    /\ Request
    /\ call[c] = Idle
    /\ Owned(a)
    /\ call' = [call EXCEPT ![c] = [Idle EXCEPT !.op = "order", !.addr = a, !.alcohol = alcohol,
                                                !.place = address[a].place]]
    /\ UNCHANGED <<address, userLock, coverage, kyc, stated, closed, orders>>

(* resolve_fulfillment_location: the address must be active still, but the *)
(* session returns the row it has, whatever the postal code is by now.     *)
Resolve(c, l) ==
    /\ call[c].op = "order"
    /\ Owned(call[c].addr)
    /\ l \in FirstOf(call[c].place.pin)
    /\ call' = [call EXCEPT ![c].op = "resolved", ![c].location = l]
    /\ UNCHANGED <<address, userLock, coverage, kyc, stated, closed, orders, requests>>

(* verify_alcohol_compliance, when a line is alcohol.                      *)
AnyAge(state) == kyc.verified
OfAge(state) == kyc.verified /\ kyc.age >= LegalAge[state]

Comply(c) ==
    LET state == call[c].place.state
    IN  /\ call[c].op = "resolved"
        /\ call[c].alcohol => OfAge(state) /\ state \notin closed
        /\ call' = [call EXCEPT ![c].op = "complied"]
        /\ UNCHANGED <<address, userLock, coverage, kyc, stated, closed, orders, requests>>

(* The order, and for alcohol its delivery_compliance_logs row.            *)
PlaceOrder(c) ==
    LET k == call[c]
    IN  /\ k.op = "complied"
        /\ orders' = orders \cup
              {[addr |-> k.addr, place |-> k.place, location |-> k.location,
                alcohol |-> k.alcohol, stale |-> k.stale, handed |-> FALSE, age |-> FALSE]}
        /\ call' = [call EXCEPT ![c] = Idle]
        /\ UNCHANGED <<address, userLock, coverage, kyc, stated, closed, requests>>

(* verify_delivery_handover with the right code, by anybody, as often as   *)
(* they like; the last answer to the age stands.                           *)
VerifyHandover(o, confirmed) ==
    /\ Request
    /\ o \in orders /\ o.alcohol
    /\ orders' = (orders \ {o}) \cup {[o EXCEPT !.handed = TRUE, !.age = confirmed]}
    /\ UNCHANGED <<address, userLock, coverage, kyc, stated, closed, call>>

Next ==
    \/ \E c \in Calls :
        \/ \E a \in Addresses :
            \/ \E p \in Places : \E d \in BOOLEAN :
                CreateAddress(c, a, p, d) \/ UpdateAddress(c, a, p, d)
            \/ \E p \in Places : MoveAddress(c, a, p)
            \/ DeactivateAddress(c, a)
            \/ \E alcohol \in BOOLEAN : ValidateAddress(c, a, alcohol)
        \/ Clear(c) \/ Commit(c) \/ Abort(c)
        \/ \E age \in Ages : SubmitKyc(c, age)
        \/ WriteKyc(c)
        \/ \E l \in Locations : Resolve(c, l)
        \/ Comply(c) \/ PlaceOrder(c)
    \/ \E w \in CoverageWrites : UpsertCoverage(w)
    \/ \E l \in Locations, p \in Pins : DeactivateCoverage(l, p)
    \/ \E states \in SUBSET States : Calendar(states)
    \/ \E o \in orders, yes \in BOOLEAN : VerifyHandover(o, yes)

Spec == Init /\ [][Next]_vars

-----------------------------------------------------------------------------

Rows == [made : BOOLEAN, active : BOOLEAN, default : BOOLEAN, place : Places]
Documents == [age : Ages \cup {-1}, verified : BOOLEAN]
Ops == {"none", "kyc"} \cup AddressOps \cup OrderOps
CallRecords ==
    [op : Ops, addr : Addresses \cup {0}, place : Places, default : BOOLEAN,
     cleared : SUBSET Addresses, kyc : Documents, age : Ages \cup {0},
     location : Locations \cup {0}, alcohol : BOOLEAN, stale : BOOLEAN]
Call == {k \in CallRecords :
            /\ k.op = "kyc" => k.age \in Ages
            /\ k.op \in AddressOps \cup OrderOps => k.addr \in Addresses
            /\ k.op \in {"resolved", "complied"} => k.location \in Locations}
Order == [addr : Addresses, place : Places, location : Locations, alcohol : BOOLEAN,
          stale : BOOLEAN, handed : BOOLEAN, age : BOOLEAN]

TypeOK ==
    /\ address \in [Addresses -> Rows]
    /\ userLock \in Calls \cup {Nobody}
    /\ coverage \in [Locations -> [Pins -> [active : BOOLEAN, priority : Nat]]]
    /\ kyc \in Documents
    /\ stated \subseteq Ages
    /\ closed \subseteq States
    /\ call \in [Calls -> Call]
    /\ \A c \in Calls : call[c].op \in AddressOps => userLock = c
    /\ orders \subseteq Order
    /\ \A o \in orders : o.age => o.handed /\ o.alcohol
    /\ requests \in 0..MaxRequests

(* However many requests of a customer create, edit and delete addresses   *)
(* at once, one address at most is the default (docs/addresses-and-        *)
(* serviceability.md), and no request is refused by the unique index: the  *)
(* lock on the user's row is enough.                                       *)
OneDefault == Cardinality(Defaults) <= 1

(* An order is sent from the first location that covers the postal code of *)
(* its address as long as nobody edits the address or the coverage of its  *)
(* postal code, be it after the order or while it is being placed. (Orders *)
(* keep no copy of the address: afterwards nothing holds it to this.)      *)
OrdersSuitTheirAddress ==
    \A o \in orders :
        ~o.stale =>
            /\ Owned(o.addr)
            /\ address[o.addr].place = o.place
            /\ o.location \in Covering(o.place.pin)
            /\ ~\E l \in Covering(o.place.pin) : Before(l, o.location, o.place.pin)

(* Alcohol is sold only to a customer who has submitted a document of the  *)
(* legal age of the address's state: not even concurrent submissions,      *)
(* whose writes mix in one row, open a way round it.                       *)
MinorsNeverBuy ==
    \A o \in orders : o.alcohol => \E age \in stated : age >= LegalAge[o.place.state]
====
