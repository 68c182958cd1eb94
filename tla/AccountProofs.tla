---- MODULE AccountProofs ----
(***************************************************************************)
(* What holds of a customer's account: of what Customers says about its    *)
(* addresses and documents, and of the token sessions that speak for it.   *)
(*                                                                         *)
(* Customers, for any number of addresses, requests and places. Each       *)
(* property has an invariant about the requests in the middle of their     *)
(* work: Prepared, what an address write that holds the user's lock knows  *)
(* of the defaults; Sober, that every age in sight was submitted; Suited,  *)
(* what an order in progress may count on while nobody has marked it stale.*)
(*                                                                         *)
(* Sessions, for any number of sessions and of requests at once: the state *)
(* is well typed, a family has one active session at most, and what is     *)
(* active in a family after a reuse goes back to a rotation that ran while *)
(* the family was being revoked. SessionInv adds what a request in         *)
(* progress knows: a rotation still holds an active session, and a         *)
(* revocation has found whatever is active in its family or will know it   *)
(* as racing.                                                              *)
(***************************************************************************)
EXTENDS Customers, Sessions, FiniteSetTheorems, TLAPS

OneOnly == \A a, b \in Defaults : a = b

Prepared ==
    \A c \in Calls :
        call[c].op = "write" /\ call[c].default =>
            Defaults \subseteq call[c].cleared \cup {call[c].addr}

IInv == TypeOK /\ OneOnly /\ Prepared

-----------------------------------------------------------------------------
(* Facts about single values.                                              *)

LEMMA Values ==
    /\ AnyPlace \in Places
    /\ NoAddress \in Rows
    /\ NoKyc \in Documents
    /\ Idle \in Call
    /\ Idle.op = "none"
<1>1. AnyPlace \in Places
    BY CustomerConstants DEF AnyPlace
<1>2. NoKyc \in Documents
    BY DEF NoKyc, Documents
<1> QED
    BY <1>1, <1>2 DEF NoAddress, Rows, Idle, Call, CallRecords, Ops, AddressOps, OrderOps

(* Marking what has become stale changes nothing else.                     *)
LEMMA StaleIsCall ==
    ASSUME NEW rows \in [Calls -> Call], NEW addrs, NEW pins
    PROVE  /\ Stale(rows, addrs, pins) \in [Calls -> Call]
           /\ \A c \in Calls : /\ Stale(rows, addrs, pins)[c].op = rows[c].op
                               /\ Stale(rows, addrs, pins)[c].default = rows[c].default
                               /\ Stale(rows, addrs, pins)[c].cleared = rows[c].cleared
                               /\ Stale(rows, addrs, pins)[c].addr = rows[c].addr
                               /\ Stale(rows, addrs, pins)[c].place = rows[c].place
                               /\ Stale(rows, addrs, pins)[c].alcohol = rows[c].alcohol
<1> DEFINE new == Stale(rows, addrs, pins)
<1>1. ASSUME NEW c \in Calls
      PROVE  /\ new[c] \in Call
             /\ new[c].op = rows[c].op
             /\ new[c].default = rows[c].default
             /\ new[c].cleared = rows[c].cleared
             /\ new[c].addr = rows[c].addr
             /\ new[c].place = rows[c].place
             /\ new[c].alcohol = rows[c].alcohol
    <2> DEFINE flag == rows[c].stale \/ (rows[c].op \in OrderOps
                         /\ (rows[c].addr \in addrs \/ rows[c].place.pin \in pins))
    <2>1. rows[c] \in Call
        BY <1>1
    <2>2. new[c] = [rows[c] EXCEPT !.stale = flag]
        BY <1>1 DEF Stale
    <2>3. flag \in BOOLEAN
        BY <2>1 DEF Call, CallRecords
    <2> HIDE DEF flag, new
    <2> QED
        BY <2>1, <2>2, <2>3 DEF Call, CallRecords
<1>2. new = [c \in Calls |-> new[c]]
    BY DEF Stale
<1> HIDE DEF new
<1>3. /\ new \in [Calls -> Call]
      /\ \A c \in Calls : /\ new[c].op = rows[c].op
                          /\ new[c].default = rows[c].default
                          /\ new[c].cleared = rows[c].cleared
                          /\ new[c].addr = rows[c].addr
                          /\ new[c].place = rows[c].place
                          /\ new[c].alcohol = rows[c].alcohol
    BY <1>1, <1>2
<1> QED
    BY <1>3 DEF new

LEMMA StaleOrdersAreOrders ==
    ASSUME TypeOK, NEW addrs, NEW pins
    PROVE  /\ StaleOrders(addrs, pins) \subseteq Order
           /\ \A o \in StaleOrders(addrs, pins) : o.age => o.handed /\ o.alcohol
           /\ \A o \in StaleOrders(addrs, pins) :
                 \E x \in orders : x.place = o.place /\ x.alcohol = o.alcohol
<1>1. ASSUME NEW o \in orders
      PROVE  LET n == [o EXCEPT !.stale = @ \/ o.addr \in addrs \/ o.place.pin \in pins]
             IN  /\ n \in Order /\ (n.age => n.handed /\ n.alcohol)
                 /\ n.place = o.place /\ n.alcohol = o.alcohol
    <2> DEFINE flag == o.stale \/ o.addr \in addrs \/ o.place.pin \in pins
               n == [o EXCEPT !.stale = flag]
    <2>1. o \in Order /\ (o.age => o.handed /\ o.alcohol)
        BY DEF TypeOK
    <2>2. flag \in BOOLEAN
        BY <2>1 DEF Order
    <2> HIDE DEF flag
    <2>3. /\ n \in Order /\ n.age = o.age /\ n.handed = o.handed /\ n.alcohol = o.alcohol
          /\ n.place = o.place
        BY <2>1, <2>2 DEF Order
    <2> QED
        BY <2>1, <2>3 DEF flag
<1>2. ASSUME NEW m \in StaleOrders(addrs, pins)
      PROVE  /\ m \in Order /\ (m.age => m.handed /\ m.alcohol)
             /\ \E x \in orders : x.place = m.place /\ x.alcohol = m.alcohol
    <2>1. PICK o \in orders :
              m = [o EXCEPT !.stale = @ \/ o.addr \in addrs \/ o.place.pin \in pins]
        BY DEF StaleOrders
    <2> QED
        BY <1>1, <2>1
<1> QED
    BY <1>2

(* A request that puts a well-formed record in its place.                  *)
LEMMA CallStep ==
    ASSUME call \in [Calls -> Call], NEW c \in Calls, NEW k \in Call,
           call' = [call EXCEPT ![c] = k]
    PROVE  /\ call' \in [Calls -> Call]
           /\ call'[c] = k
           /\ \A x \in Calls \ {c} : call'[x] = call[x]
OBVIOUS

-----------------------------------------------------------------------------
(* Type correctness.                                                       *)

LEMMA TypeInit == Init => TypeOK
<1> SUFFICES ASSUME Init PROVE TypeOK
    OBVIOUS
<1>1. address \in [Addresses -> Rows] /\ kyc \in Documents /\ call \in [Calls -> Call]
    BY Values DEF Init
<1>2. \A c \in Calls : call[c].op \notin AddressOps
    BY Values DEF Init, AddressOps
<1>3. coverage \in [Locations -> [Pins -> [active : BOOLEAN, priority : Nat]]]
    BY DEF Init
<1>4. requests \in 0..MaxRequests
    BY CustomerConstants DEF Init
<1> QED
    BY <1>1, <1>2, <1>3, <1>4 DEF Init, TypeOK, Order

(* The beginning of an address write.                                      *)
LEMMA EnterType ==
    ASSUME TypeOK, NEW c \in Calls, NEW op \in AddressOps, NEW a \in Addresses,
           NEW place \in Places, NEW default \in BOOLEAN, Enter(c, op, a, place, default)
    PROVE  TypeOK' /\ call'[c].op = op /\ call'[c].addr = a /\ call'[c].default = default
                   /\ \A x \in Calls \ {c} : call'[x] = call[x]
<1> DEFINE k == [Idle EXCEPT !.op = op, !.addr = a, !.place = place, !.default = default]
<1>1. k \in Call /\ k.op = op /\ k.addr = a /\ k.default = default
    BY Values DEF Call, CallRecords, Ops, AddressOps, OrderOps
<1>2. call' = [call EXCEPT ![c] = k]
    BY DEF Enter
<1> HIDE DEF k
<1>3. /\ call' \in [Calls -> Call] /\ call'[c] = k
      /\ \A x \in Calls \ {c} : call'[x] = call[x]
    BY <1>1, <1>2, CallStep DEF TypeOK
<1>4. \A x \in Calls \ {c} : call'[x].op \notin AddressOps
    BY <1>3, CustomerConstants DEF TypeOK, Enter, UserFree
<1>5. requests' \in 0..MaxRequests
    BY CustomerConstants DEF TypeOK, Enter, Request
<1> QED
    BY <1>1, <1>3, <1>4, <1>5 DEF TypeOK, Enter

LEMMA CoverageType ==
    ASSUME TypeOK, NEW l \in Locations, NEW pin \in Pins,
           NEW row \in [active : BOOLEAN, priority : Nat], CoverageIs(l, pin, row)
    PROVE  TypeOK'
<1>1. call' \in [Calls -> Call] /\ \A c \in Calls : call'[c].op = call[c].op
    BY StaleIsCall DEF TypeOK, CoverageIs
<1>2. orders' \subseteq Order /\ \A o \in orders' : o.age => o.handed /\ o.alcohol
    BY StaleOrdersAreOrders DEF CoverageIs
<1>3. coverage' \in [Locations -> [Pins -> [active : BOOLEAN, priority : Nat]]]
    BY DEF TypeOK, CoverageIs
<1>4. requests' \in 0..MaxRequests
    BY CustomerConstants DEF TypeOK, CoverageIs, Request
<1> QED
    BY <1>1, <1>2, <1>3, <1>4 DEF TypeOK, CoverageIs

(* A request that only changes what it knows, and is no address write.     *)
LEMMA ReadType ==
    ASSUME TypeOK, NEW c \in Calls, NEW k \in Call, k.op \notin AddressOps,
           call[c].op \notin AddressOps,
           call' = [call EXCEPT ![c] = k],
           requests' \in 0..MaxRequests,
           UNCHANGED <<address, userLock, coverage, kyc, stated, closed, orders>>
    PROVE  TypeOK'
<1>1. /\ call' \in [Calls -> Call] /\ call'[c] = k
      /\ \A x \in Calls \ {c} : call'[x] = call[x]
    BY CallStep DEF TypeOK
<1> QED
    BY <1>1 DEF TypeOK

LEMMA CreateEnters ==
    ASSUME NEW c \in Calls, NEW a \in Addresses, NEW place \in Places, NEW d \in BOOLEAN,
           CreateAddress(c, a, place, d) \/ UpdateAddress(c, a, place, d)
    PROVE  WriteOp(d) \in AddressOps /\ Enter(c, WriteOp(d), a, place, d)
BY DEF CreateAddress, UpdateAddress, WriteOp, AddressOps

LEMMA MoveEnters ==
    ASSUME TypeOK, NEW c \in Calls, NEW a \in Addresses, NEW place \in Places,
           MoveAddress(c, a, place)
    PROVE  address[a].default \in BOOLEAN /\ Enter(c, "write", a, place, address[a].default)
BY DEF TypeOK, Rows, MoveAddress

LEMMA DeactivateEnters ==
    ASSUME TypeOK, NEW c \in Calls, NEW a \in Addresses, DeactivateAddress(c, a)
    PROVE  address[a].place \in Places /\ Enter(c, "deactivate", a, address[a].place, FALSE)
BY DEF TypeOK, Rows, DeactivateAddress

LEMMA CoverageWritesAre ==
    /\ \A w \in CoverageWrites : UpsertCoverage(w) =>
          /\ w.location \in Locations /\ w.pin \in Pins
          /\ [active |-> w.active, priority |-> w.priority] \in [active : BOOLEAN, priority : Nat]
          /\ CoverageIs(w.location, w.pin, [active |-> w.active, priority |-> w.priority])
    /\ \A l \in Locations, pin \in Pins : TypeOK /\ DeactivateCoverage(l, pin) =>
          /\ [coverage[l][pin] EXCEPT !.active = FALSE] \in [active : BOOLEAN, priority : Nat]
          /\ CoverageIs(l, pin, [coverage[l][pin] EXCEPT !.active = FALSE])
<1>1. \A w \in CoverageWrites : w \in [location : Locations, pin : Pins, priority : Nat,
                                       active : BOOLEAN]
    BY CustomerConstants
<1>2. ASSUME NEW w \in CoverageWrites, UpsertCoverage(w)
      PROVE  /\ w.location \in Locations /\ w.pin \in Pins
             /\ [active |-> w.active, priority |-> w.priority]
                    \in [active : BOOLEAN, priority : Nat]
             /\ CoverageIs(w.location, w.pin, [active |-> w.active, priority |-> w.priority])
    BY <1>1, <1>2 DEF UpsertCoverage
<1>3. ASSUME NEW l \in Locations, NEW pin \in Pins, TypeOK, DeactivateCoverage(l, pin)
      PROVE  /\ [coverage[l][pin] EXCEPT !.active = FALSE]
                    \in [active : BOOLEAN, priority : Nat]
             /\ CoverageIs(l, pin, [coverage[l][pin] EXCEPT !.active = FALSE])
    <2>1. coverage[l][pin] \in [active : BOOLEAN, priority : Nat]
        BY <1>3 DEF TypeOK
    <2>2. [coverage[l][pin] EXCEPT !.active = FALSE] \in [active : BOOLEAN, priority : Nat]
        BY <2>1
    <2>3. CoverageIs(l, pin, [coverage[l][pin] EXCEPT !.active = FALSE])
        BY <1>3 DEF DeactivateCoverage
    <2> QED
        BY <2>2, <2>3
<1> QED
    BY <1>2, <1>3

LEMMA CommitType == ASSUME TypeOK, NEW c \in Calls, Commit(c) PROVE TypeOK'
<1> DEFINE k == call[c]
           idle == [call EXCEPT ![c] = Idle]
<1>1. k \in Call /\ k.op \in AddressOps /\ userLock = c
    BY DEF TypeOK, Commit, AddressOps
<1>2. idle \in [Calls -> Call] /\ \A x \in Calls : idle[x].op \notin AddressOps
    BY <1>1, Values, CustomerConstants DEF TypeOK, AddressOps
<1>3. call' \in [Calls -> Call] /\ \A x \in Calls : call'[x].op \notin AddressOps
    <2> HIDE DEF idle
    <2>1. call' = Stale(idle, {k.addr}, {})
        BY DEF Commit, idle
    <2> QED
        BY <1>2, <2>1, StaleIsCall
<1>4. orders' \subseteq Order /\ \A o \in orders' : o.age => o.handed /\ o.alcohol
    BY StaleOrdersAreOrders DEF Commit
<1>5. Written(k) \in Rows
    BY <1>1 DEF Written, Rows, Call, CallRecords
<1>6. address' \in [Addresses -> Rows]
    BY <1>5 DEF Commit, TypeOK, Rows
<1> QED
    BY <1>3, <1>4, <1>6 DEF TypeOK, Commit

LEMMA TypeStep == TypeOK /\ [Next]_vars => TypeOK'
<1> SUFFICES ASSUME TypeOK, [Next]_vars PROVE TypeOK'
    OBVIOUS
<1>1. ASSUME NEW c \in Calls, NEW a \in Addresses, NEW p \in Places, NEW d \in BOOLEAN,
             CreateAddress(c, a, p, d) \/ UpdateAddress(c, a, p, d)
      PROVE  TypeOK'
    BY <1>1, CreateEnters, EnterType
<1>2. ASSUME NEW c \in Calls, NEW a \in Addresses, NEW p \in Places, MoveAddress(c, a, p)
      PROVE  TypeOK'
    BY <1>2, MoveEnters, EnterType DEF AddressOps
<1>3. ASSUME NEW c \in Calls, NEW a \in Addresses, DeactivateAddress(c, a)
      PROVE  TypeOK'
    BY <1>3, DeactivateEnters, EnterType DEF AddressOps
<1>4. ASSUME NEW c \in Calls, NEW a \in Addresses, NEW alcohol \in BOOLEAN,
             ValidateAddress(c, a, alcohol)
      PROVE  TypeOK'
    <2> DEFINE k == [Idle EXCEPT !.op = "order", !.addr = a, !.alcohol = alcohol,
                                 !.place = address[a].place]
    <2>1. k \in Call /\ k.op \notin AddressOps
        BY Values DEF TypeOK, Rows, Call, CallRecords, Ops, AddressOps, OrderOps
    <2>2. call[c].op \notin AddressOps
        BY <1>4, Values DEF ValidateAddress, AddressOps
    <2>3. call' = [call EXCEPT ![c] = k]
        BY <1>4 DEF ValidateAddress
    <2> HIDE DEF k
    <2>4. requests' \in 0..MaxRequests
        BY <1>4, CustomerConstants DEF ValidateAddress, Request, TypeOK
    <2> QED
        BY <1>4, <2>1, <2>2, <2>3, <2>4, ReadType DEF ValidateAddress
<1>5. ASSUME NEW c \in Calls, Clear(c) PROVE TypeOK'
    <2> DEFINE k == [call[c] EXCEPT !.op = "write", !.cleared = Defaults \ {call[c].addr}]
    <2>1. call[c] \in Call /\ userLock = c
        BY <1>5 DEF TypeOK, Clear, AddressOps
    <2>2. k \in Call
        BY <1>5, <2>1 DEF Clear, Call, CallRecords, Ops, AddressOps, OrderOps, Defaults
    <2>3. call' = [call EXCEPT ![c] = k]
        BY <1>5 DEF Clear
    <2> HIDE DEF k
    <2>4. /\ call' \in [Calls -> Call]
          /\ \A x \in Calls \ {c} : call'[x] = call[x]
        BY <2>2, <2>3, CallStep DEF TypeOK
    <2> QED
        BY <1>5, <2>1, <2>4 DEF TypeOK, Clear
<1>6. ASSUME NEW c \in Calls, Commit(c) PROVE TypeOK'
    BY <1>6, CommitType
<1>7. ASSUME NEW c \in Calls, Abort(c) PROVE TypeOK'
    <2>1. /\ call' \in [Calls -> Call] /\ call'[c] = Idle
          /\ \A x \in Calls \ {c} : call'[x] = call[x]
        BY <1>7, Values, CallStep DEF TypeOK, Abort
    <2>2. \A x \in Calls : call'[x].op \in AddressOps => userLock' = x
        BY <1>7, <2>1, Values DEF TypeOK, Abort, AddressOps
    <2> QED
        BY <1>7, <2>1, <2>2 DEF TypeOK, Abort
<1>8. ASSUME NEW c \in Calls, NEW age \in Ages, SubmitKyc(c, age) PROVE TypeOK'
    <2> DEFINE k == [Idle EXCEPT !.op = "kyc", !.age = age, !.kyc = kyc]
    <2>1. k \in Call /\ k.op \notin AddressOps
        BY Values DEF TypeOK, Call, CallRecords, Ops, AddressOps, OrderOps
    <2>2. call[c].op \notin AddressOps
        BY <1>8, Values DEF SubmitKyc, AddressOps
    <2>3. call' = [call EXCEPT ![c] = k]
        BY <1>8 DEF SubmitKyc
    <2> HIDE DEF k
    <2>4. requests' \in 0..MaxRequests
        BY <1>8, CustomerConstants DEF SubmitKyc, Request, TypeOK
    <2> QED
        BY <1>8, <2>1, <2>2, <2>3, <2>4, ReadType DEF SubmitKyc
<1>9. ASSUME NEW c \in Calls, WriteKyc(c) PROVE TypeOK'
    <2> USE <1>9
    <2>1. /\ call' \in [Calls -> Call] /\ call'[c] = Idle
          /\ \A x \in Calls \ {c} : call'[x] = call[x]
        BY Values, CallStep DEF TypeOK, WriteKyc
    <2>2. call[c] \in Call
        BY DEF TypeOK
    <2> DEFINE k == call[c]
    <2>3. k.kyc \in Documents /\ k.age \in Ages
        BY <2>2 DEF WriteKyc, Call, CallRecords
    <2>4. Adult(k.age) \in BOOLEAN
        BY DEF Adult
    <2>5. kyc' = Resubmitted(k) /\ stated' = stated \cup {k.age} /\ kyc \in Documents
        BY DEF WriteKyc, TypeOK
    <2> HIDE DEF k
    <2>6. Flushed(k.kyc.age, k.age, kyc.age) \in Ages \cup {-1}
        BY <2>3, <2>5 DEF Flushed, Documents
    <2>7. Flushed(k.kyc.verified, Adult(k.age), kyc.verified) \in BOOLEAN
        <3>1. CASE Adult(k.age) # k.kyc.verified
            BY <2>4, <3>1 DEF Flushed
        <3>2. CASE ~(Adult(k.age) # k.kyc.verified)
            <4>1. kyc.verified \in BOOLEAN
                BY <2>5 DEF Documents
            <4> QED
                BY <3>2, <4>1 DEF Flushed
        <3> QED
            BY <3>1, <3>2
    <2>8. kyc' \in Documents
        <3> DEFINE old == Flushed(k.kyc.age, k.age, kyc.age)
                   ok == Flushed(k.kyc.verified, Adult(k.age), kyc.verified)
        <3>1. kyc' = [age |-> old, verified |-> ok]
            BY <2>5 DEF Resubmitted
        <3> HIDE DEF old, ok
        <3>2. old \in Ages \cup {-1} /\ ok \in BOOLEAN
            BY <2>6, <2>7 DEF old, ok
        <3> QED
            BY <3>1, <3>2 DEF Documents
    <2>9. stated' \subseteq Ages
        BY <2>3, <2>5 DEF TypeOK
    <2> QED
        BY <2>1, <2>8, <2>9, Values DEF TypeOK, WriteKyc, AddressOps
<1>10. ASSUME NEW c \in Calls, NEW l \in Locations, Resolve(c, l) PROVE TypeOK'
    <2> DEFINE k == [call[c] EXCEPT !.op = "resolved", !.location = l]
    <2>0. call[c] \in Call /\ call[c].op = "order"
        BY <1>10 DEF TypeOK, Resolve
    <2>1. k \in Call /\ k.op \notin AddressOps /\ call[c].op \notin AddressOps
        BY <2>0 DEF Call, CallRecords, Ops, AddressOps, OrderOps
    <2>2. call' = [call EXCEPT ![c] = k] /\ requests' \in 0..MaxRequests
        BY <1>10 DEF Resolve, TypeOK
    <2> HIDE DEF k
    <2> QED
        BY <1>10, <2>1, <2>2, ReadType DEF Resolve
<1>11. ASSUME NEW c \in Calls, Comply(c) PROVE TypeOK'
    <2> DEFINE k == [call[c] EXCEPT !.op = "complied"]
    <2>0. call[c] \in Call /\ call[c].op = "resolved"
        BY <1>11 DEF TypeOK, Comply
    <2>1. k \in Call /\ k.op \notin AddressOps /\ call[c].op \notin AddressOps
        BY <2>0 DEF Call, CallRecords, Ops, AddressOps, OrderOps
    <2>2. call' = [call EXCEPT ![c] = k] /\ requests' \in 0..MaxRequests
        BY <1>11 DEF Comply, TypeOK
    <2> HIDE DEF k
    <2> QED
        BY <1>11, <2>1, <2>2, ReadType DEF Comply
<1>12. ASSUME NEW c \in Calls, PlaceOrder(c) PROVE TypeOK'
    <2> DEFINE k == call[c]
               o == [addr |-> k.addr, place |-> k.place, location |-> k.location,
                     alcohol |-> k.alcohol, stale |-> k.stale, handed |-> FALSE, age |-> FALSE]
    <2>1. /\ call' \in [Calls -> Call] /\ call'[c] = Idle
          /\ \A x \in Calls \ {c} : call'[x] = call[x]
        BY <1>12, Values, CallStep DEF TypeOK, PlaceOrder
    <2>2. k \in Call /\ k.op = "complied"
        BY <1>12 DEF TypeOK, PlaceOrder
    <2>3. /\ k.addr \in Addresses /\ k.location \in Locations
          /\ k.place \in Places /\ k.alcohol \in BOOLEAN /\ k.stale \in BOOLEAN
        BY <2>2 DEF Call, CallRecords, OrderOps
    <2>4. o \in Order /\ o.age = FALSE
        BY <2>3 DEF Order
    <2>5. orders' = orders \cup {o}
        BY <1>12 DEF PlaceOrder
    <2> HIDE DEF o
    <2> QED
        BY <1>12, <2>1, <2>4, <2>5, Values DEF TypeOK, PlaceOrder, AddressOps
<1>13. ASSUME NEW w \in CoverageWrites, UpsertCoverage(w) PROVE TypeOK'
    BY <1>13, CoverageWritesAre, CoverageType
<1>14. ASSUME NEW l \in Locations, NEW pin \in Pins, DeactivateCoverage(l, pin) PROVE TypeOK'
    BY <1>14, CoverageWritesAre, CoverageType
<1>15. ASSUME NEW states \in SUBSET States, Calendar(states) PROVE TypeOK'
    BY <1>15, CustomerConstants DEF Calendar, Request, TypeOK
<1>16. ASSUME NEW o \in orders, NEW confirmed \in BOOLEAN, VerifyHandover(o, confirmed)
       PROVE  TypeOK'
    <2> DEFINE n == [o EXCEPT !.handed = TRUE, !.age = confirmed]
    <2>1. o \in Order /\ o.alcohol
        BY <1>16 DEF TypeOK, VerifyHandover
    <2>2. n \in Order /\ (n.age => n.handed /\ n.alcohol)
        BY <2>1 DEF Order
    <2>3. orders' = (orders \ {o}) \cup {n}
        BY <1>16 DEF VerifyHandover
    <2> HIDE DEF n
    <2>4. requests' \in 0..MaxRequests
        BY <1>16, CustomerConstants DEF VerifyHandover, Request, TypeOK
    <2> QED
        BY <1>16, <2>2, <2>3, <2>4 DEF TypeOK, VerifyHandover
<1>17. CASE UNCHANGED vars
    BY <1>17 DEF TypeOK, vars
<1> QED
    BY <1>1, <1>2, <1>3, <1>4, <1>5, <1>6, <1>7, <1>8, <1>9, <1>10, <1>11, <1>12, <1>13,
       <1>14, <1>15, <1>16, <1>17 DEF Next

-----------------------------------------------------------------------------
(* One default.                                                            *)

(* A step of a request that is not about to write a default, and writes no *)
(* address.                                                                *)
LEMMA Quiet ==
    ASSUME IInv, UNCHANGED address,
           \A c \in Calls : \/ ~(call'[c].op = "write" /\ call'[c].default)
                           \/ /\ call[c].op = "write" /\ call[c].default
                              /\ call'[c].addr = call[c].addr
                              /\ call'[c].cleared = call[c].cleared
    PROVE  OneOnly' /\ Prepared'
<1>1. Defaults' = Defaults
    BY DEF Defaults
<1>2. OneOnly'
    BY <1>1 DEF IInv, OneOnly
<1>3. Prepared'
    BY <1>1 DEF IInv, Prepared
<1> QED
    BY <1>2, <1>3

LEMMA EnterStep ==
    ASSUME IInv, NEW c \in Calls, NEW op \in AddressOps, NEW a \in Addresses,
           NEW place \in Places, NEW default \in BOOLEAN, Enter(c, op, a, place, default),
           op = "write" /\ default => Defaults \subseteq {a}
    PROVE  OneOnly' /\ Prepared'
<1>1. Defaults' = Defaults
    BY DEF Defaults, Enter
<1>2. /\ call'[c].op = op /\ call'[c].addr = a /\ call'[c].default = default
      /\ \A x \in Calls \ {c} : call'[x] = call[x]
    BY EnterType DEF IInv
<1>3. OneOnly'
    BY <1>1 DEF IInv, OneOnly
<1>4. ASSUME NEW x \in Calls, call'[x].op = "write", call'[x].default
      PROVE  Defaults' \subseteq call'[x].cleared \cup {call'[x].addr}
    BY <1>1, <1>2, <1>4 DEF IInv, Prepared
<1> QED
    BY <1>3, <1>4 DEF Prepared

LEMMA CommitStep ==
    ASSUME IInv, NEW c \in Calls, Commit(c)
    PROVE  OneOnly' /\ Prepared'
<1> DEFINE k == call[c]
           idle == [call EXCEPT ![c] = Idle]
<1>1. k \in Call /\ k.op \in {"write", "deactivate"} /\ userLock = c
      /\ k.addr \in Addresses
    BY DEF IInv, TypeOK, Commit, AddressOps, Call
<1>2. \A x \in Calls : call'[x].op \notin AddressOps
    <2>1. idle \in [Calls -> Call] /\ \A x \in Calls : idle[x].op \notin AddressOps
        BY <1>1, Values, CustomerConstants DEF IInv, TypeOK, AddressOps
    <2>2. call' = Stale(idle, {k.addr}, {})
        BY DEF Commit
    <2> HIDE DEF idle
    <2> QED
        BY <2>1, <2>2, StaleIsCall
<1>3. Prepared'
    BY <1>2 DEF Prepared, AddressOps
<1>4. address' = [a \in Addresses |->
          IF a = k.addr THEN Written(k)
          ELSE IF a \in k.cleared THEN [address[a] EXCEPT !.default = FALSE] ELSE address[a]]
    BY DEF Commit
<1>5. address \in [Addresses -> Rows]
    BY DEF IInv, TypeOK
<1>6. \A a \in Addresses \ {k.addr} : a \in Defaults' => a \in Defaults \ k.cleared
    <2> SUFFICES ASSUME NEW a \in Addresses \ {k.addr}, address'[a].active, address'[a].default
                 PROVE  a \in Defaults \ k.cleared
        BY DEF Defaults
    <2> HIDE DEF k
    <2>1. a \notin k.cleared
        BY <1>4, <1>5 DEF Rows
    <2> QED
        BY <1>4, <2>1 DEF Defaults
<1>7. k.addr \in Defaults' => k.op = "write" /\ k.default
    <2>1. address'[k.addr] = Written(k)
        BY <1>1, <1>4
    <2>2. Written(k).active = (k.op # "deactivate") /\ Written(k).default = k.default
        BY Zenon DEF Written
    <2> HIDE DEF k
    <2>3. k.addr \in Defaults' => Written(k).active /\ Written(k).default
        BY <2>1 DEF Defaults
    <2> QED
        BY <1>1, <2>2, <2>3
<1>8. OneOnly'
    <2>1. CASE k.op = "write" /\ k.default
        <3>1. Defaults \subseteq k.cleared \cup {k.addr}
            BY <2>1 DEF IInv, Prepared
        <3>2. Defaults' \subseteq Addresses
            BY DEF Defaults
        <3>3. Defaults' \subseteq {k.addr}
            BY <1>6, <3>1, <3>2
        <3> QED
            BY <3>3 DEF OneOnly
    <2>2. CASE ~(k.op = "write" /\ k.default)
        <3>1. Defaults' \subseteq Addresses
            BY DEF Defaults
        <3>2. Defaults' \subseteq Defaults
            BY <1>6, <1>7, <2>2, <3>1
        <3> QED
            BY <3>2 DEF IInv, OneOnly
    <2> QED
        BY <2>1, <2>2
<1> QED
    BY <1>3, <1>8

LEMMA OneStep == IInv /\ [Next]_vars => OneOnly' /\ Prepared'
<1> SUFFICES ASSUME IInv, [Next]_vars PROVE OneOnly' /\ Prepared'
    OBVIOUS
<1>0. TypeOK /\ call \in [Calls -> Call]
    BY DEF IInv, TypeOK
<1>1. ASSUME NEW c \in Calls, NEW a \in Addresses, NEW p \in Places, NEW d \in BOOLEAN,
             CreateAddress(c, a, p, d) \/ UpdateAddress(c, a, p, d)
      PROVE  OneOnly' /\ Prepared'
    <2>1. WriteOp(d) = "write" => ~d
        BY DEF WriteOp
    <2> QED
        BY <1>1, <2>1, CreateEnters, EnterStep
<1>2. ASSUME NEW c \in Calls, NEW a \in Addresses, NEW p \in Places, MoveAddress(c, a, p)
      PROVE  OneOnly' /\ Prepared'
    <2>1. address[a].default => Defaults \subseteq {a}
        BY <1>2 DEF MoveAddress, Owned, Defaults, IInv, OneOnly
    <2> QED
        BY <1>0, <1>2, <2>1, MoveEnters, EnterStep DEF AddressOps
<1>3. ASSUME NEW c \in Calls, NEW a \in Addresses, DeactivateAddress(c, a)
      PROVE  OneOnly' /\ Prepared'
    BY <1>0, <1>3, DeactivateEnters, EnterStep DEF AddressOps
<1>4. ASSUME NEW c \in Calls, NEW k \in Call, call' = [call EXCEPT ![c] = k],
             k.op # "write", UNCHANGED address
      PROVE  OneOnly' /\ Prepared'
    BY <1>0, <1>4, CallStep, Quiet
<1>5. ASSUME NEW c \in Calls, NEW a \in Addresses, NEW alcohol \in BOOLEAN,
             ValidateAddress(c, a, alcohol)
      PROVE  OneOnly' /\ Prepared'
    <2> DEFINE k == [Idle EXCEPT !.op = "order", !.addr = a, !.alcohol = alcohol,
                                 !.place = address[a].place]
    <2>1. k \in Call /\ k.op # "write"
        BY Values, <1>0 DEF TypeOK, Rows, Call, CallRecords, Ops, AddressOps, OrderOps
    <2>2. call' = [call EXCEPT ![c] = k] /\ UNCHANGED address
        BY <1>5 DEF ValidateAddress
    <2> HIDE DEF k
    <2> QED
        BY <1>4, <2>1, <2>2
<1>6. ASSUME NEW c \in Calls, Clear(c) PROVE OneOnly' /\ Prepared'
    <2> DEFINE k == [call[c] EXCEPT !.op = "write", !.cleared = Defaults \ {call[c].addr}]
    <2>1. call[c] \in Call
        BY <1>0
    <2>2. /\ k \in Call /\ k.addr = call[c].addr
          /\ k.cleared = Defaults \ {call[c].addr}
        BY <1>6, <2>1 DEF Clear, Call, CallRecords, Ops, AddressOps, OrderOps, Defaults
    <2>3. call' = [call EXCEPT ![c] = k] /\ UNCHANGED address
        BY <1>6 DEF Clear
    <2> HIDE DEF k
    <2>4. call'[c] = k /\ \A x \in Calls \ {c} : call'[x] = call[x]
        BY <1>0, <2>2, <2>3, CallStep
    <2>5. Defaults' = Defaults
        BY <2>3 DEF Defaults
    <2>6. OneOnly'
        BY <2>5 DEF IInv, OneOnly
    <2>7. Prepared'
        BY <2>2, <2>4, <2>5 DEF IInv, Prepared
    <2> QED
        BY <2>6, <2>7
<1>7. ASSUME NEW c \in Calls, Commit(c) PROVE OneOnly' /\ Prepared'
    BY <1>7, CommitStep
<1>8. ASSUME NEW c \in Calls, Abort(c) \/ WriteKyc(c) \/ PlaceOrder(c)
      PROVE  OneOnly' /\ Prepared'
    BY <1>4, <1>8, Values DEF Abort, WriteKyc, PlaceOrder
<1>9. ASSUME NEW c \in Calls, NEW age \in Ages, SubmitKyc(c, age) PROVE OneOnly' /\ Prepared'
    <2> DEFINE k == [Idle EXCEPT !.op = "kyc", !.age = age, !.kyc = kyc]
    <2>1. k \in Call /\ k.op # "write"
        BY Values, <1>0 DEF TypeOK, Call, CallRecords, Ops, AddressOps, OrderOps
    <2>2. call' = [call EXCEPT ![c] = k] /\ UNCHANGED address
        BY <1>9 DEF SubmitKyc
    <2> HIDE DEF k
    <2> QED
        BY <1>4, <2>1, <2>2
<1>10. ASSUME NEW c \in Calls, NEW l \in Locations, Resolve(c, l) PROVE OneOnly' /\ Prepared'
    <2> DEFINE k == [call[c] EXCEPT !.op = "resolved", !.location = l]
    <2>0. /\ call[c] \in CallRecords /\ call[c].addr \in Addresses
          /\ {"resolved"} \subseteq OrderOps
        BY <1>0, <1>10 DEF Call, OrderOps, Resolve
    <2>1. k \in Call /\ k.op # "write"
        <3>1. k \in CallRecords /\ k.op = "resolved" /\ k.location = l /\ k.addr = call[c].addr
            BY <2>0 DEF CallRecords, Ops
        <3> HIDE DEF k
        <3> QED
            BY <2>0, <3>1 DEF Call
    <2>2. call' = [call EXCEPT ![c] = k] /\ UNCHANGED address
        BY <1>10 DEF Resolve
    <2> HIDE DEF k
    <2> QED
        BY <1>4, <2>1, <2>2
<1>11. ASSUME NEW c \in Calls, Comply(c) PROVE OneOnly' /\ Prepared'
    <2> DEFINE k == [call[c] EXCEPT !.op = "complied"]
    <2>1. k \in Call /\ k.op # "write"
        BY <1>0, <1>11 DEF Call, CallRecords, Ops, AddressOps, OrderOps, Comply
    <2>2. call' = [call EXCEPT ![c] = k] /\ UNCHANGED address
        BY <1>11 DEF Comply
    <2> HIDE DEF k
    <2> QED
        BY <1>4, <2>1, <2>2
<1>12. ASSUME NEW l \in Locations, NEW pin \in Pins, NEW row, CoverageIs(l, pin, row)
       PROVE  OneOnly' /\ Prepared'
    <2>1. \A x \in Calls : /\ call'[x].op = call[x].op
                           /\ call'[x].default = call[x].default
                           /\ call'[x].cleared = call[x].cleared
                           /\ call'[x].addr = call[x].addr
        BY <1>0, <1>12, StaleIsCall DEF CoverageIs
    <2>2. UNCHANGED address
        BY <1>12 DEF CoverageIs
    <2> QED
        BY <2>1, <2>2, Quiet
<1>13. ASSUME UNCHANGED <<address, call>> PROVE OneOnly' /\ Prepared'
    BY <1>13, Quiet
<1>14. ASSUME NEW w \in CoverageWrites, UpsertCoverage(w) PROVE OneOnly' /\ Prepared'
    BY <1>12, <1>14, CoverageWritesAre
<1>15. ASSUME NEW l \in Locations, NEW pin \in Pins, DeactivateCoverage(l, pin)
       PROVE  OneOnly' /\ Prepared'
    BY <1>0, <1>12, <1>15, CoverageWritesAre
<1>16. ASSUME NEW states \in SUBSET States, Calendar(states) PROVE OneOnly' /\ Prepared'
    BY <1>13, <1>16 DEF Calendar
<1>17. ASSUME NEW o \in orders, NEW confirmed \in BOOLEAN, VerifyHandover(o, confirmed)
       PROVE  OneOnly' /\ Prepared'
    BY <1>13, <1>17 DEF VerifyHandover
<1>18. CASE UNCHANGED vars
    BY <1>13, <1>18 DEF vars
<1> QED
    BY <1>1, <1>2, <1>3, <1>5, <1>6, <1>7, <1>8, <1>9, <1>10, <1>11, <1>14, <1>15, <1>16,
       <1>17, <1>18 DEF Next

LEMMA OneOnlyIsOne == OneOnly => OneDefault
<1> SUFFICES ASSUME OneOnly PROVE OneDefault
    OBVIOUS
<1>1. CASE Defaults = {}
    BY <1>1, FS_EmptySet DEF OneDefault
<1>2. CASE Defaults # {}
    <2>1. PICK a \in Defaults : TRUE
        BY <1>2
    <2>2. Defaults = {a}
        BY <2>1 DEF OneOnly
    <2>3. Cardinality({a}) = 1
        BY FS_Singleton
    <2> QED
        BY <2>2, <2>3 DEF OneDefault
<1> QED
    BY <1>1, <1>2

-----------------------------------------------------------------------------
(* The age of whoever buys alcohol.                                        *)

Shown(ages, region) == \E age \in ages : age >= LegalAge[region]

Sober ==
    /\ kyc.age \in stated \cup {-1}
    /\ \A c \in Calls :
          call[c].op = "complied" /\ call[c].alcohol => Shown(stated, call[c].place.state)
    /\ MinorsNeverBuy

(* A step that checks nobody's age, and places no order.                   *)
LEMMA SoberQuiet ==
    ASSUME Sober, UNCHANGED <<kyc, stated>>,
           \A c \in Calls : call'[c].op = "complied" /\ call'[c].alcohol =>
               /\ call[c].op = "complied" /\ call[c].alcohol
               /\ call'[c].place = call[c].place,
           \A o \in orders' : o.alcohol =>
               \E x \in orders : x.place = o.place /\ x.alcohol
    PROVE  Sober'
<1>1. \A region : Shown(stated', region) <=> Shown(stated, region)
    BY DEF Shown
<1>2. \A c \in Calls :
          call'[c].op = "complied" /\ call'[c].alcohol => Shown(stated', call'[c].place.state)
    BY <1>1 DEF Sober
<1>3. MinorsNeverBuy'
    <2> SUFFICES ASSUME NEW o \in orders', o.alcohol
                 PROVE  \E age \in stated : age >= LegalAge[o.place.state]
        BY DEF MinorsNeverBuy
    <2>1. PICK x \in orders : x.place = o.place /\ x.alcohol
        OBVIOUS
    <2> QED
        BY <2>1 DEF Sober, MinorsNeverBuy
<1>4. kyc'.age \in stated' \cup {-1}
    BY DEF Sober
<1> QED
    BY <1>2, <1>3, <1>4 DEF Sober

LEMMA SoberCall ==
    ASSUME Sober, TypeOK, NEW c \in Calls, NEW k \in Call, k.op # "complied",
           call' = [call EXCEPT ![c] = k], UNCHANGED <<kyc, stated, orders>>
    PROVE  Sober'
<1>1. call'[c] = k /\ \A x \in Calls \ {c} : call'[x] = call[x]
    BY CallStep DEF TypeOK
<1> QED
    BY <1>1, SoberQuiet

LEMMA SoberEnter ==
    ASSUME Sober, TypeOK, NEW c \in Calls, NEW op \in AddressOps, NEW a \in Addresses,
           NEW place \in Places, NEW default \in BOOLEAN, Enter(c, op, a, place, default)
    PROVE  Sober'
<1>1. call'[c].op = op /\ \A x \in Calls \ {c} : call'[x] = call[x]
    BY EnterType
<1>2. op # "complied"
    BY DEF AddressOps
<1>3. UNCHANGED <<kyc, stated, orders>>
    BY DEF Enter
<1> QED
    BY <1>1, <1>2, <1>3, SoberQuiet

LEMMA SoberStep == TypeOK /\ Sober /\ [Next]_vars => Sober'
<1> SUFFICES ASSUME TypeOK, Sober, [Next]_vars PROVE Sober'
    OBVIOUS
<1>0. call \in [Calls -> Call]
    BY DEF TypeOK
<1>1. ASSUME NEW c \in Calls, NEW a \in Addresses, NEW p \in Places, NEW d \in BOOLEAN,
             CreateAddress(c, a, p, d) \/ UpdateAddress(c, a, p, d)
      PROVE  Sober'
    BY <1>1, CreateEnters, SoberEnter
<1>2. ASSUME NEW c \in Calls, NEW a \in Addresses, NEW p \in Places, MoveAddress(c, a, p)
      PROVE  Sober'
    BY <1>2, MoveEnters, SoberEnter DEF AddressOps
<1>3. ASSUME NEW c \in Calls, NEW a \in Addresses, DeactivateAddress(c, a)
      PROVE  Sober'
    BY <1>3, DeactivateEnters, SoberEnter DEF AddressOps
<1>4. ASSUME NEW c \in Calls, NEW a \in Addresses, NEW alcohol \in BOOLEAN,
             ValidateAddress(c, a, alcohol)
      PROVE  Sober'
    <2> DEFINE k == [Idle EXCEPT !.op = "order", !.addr = a, !.alcohol = alcohol,
                                 !.place = address[a].place]
    <2>1. k \in Call /\ k.op # "complied"
        BY Values DEF TypeOK, Rows, Call, CallRecords, Ops, AddressOps, OrderOps
    <2>2. call' = [call EXCEPT ![c] = k] /\ UNCHANGED <<kyc, stated, orders>>
        BY <1>4 DEF ValidateAddress
    <2> HIDE DEF k
    <2> QED
        BY <2>1, <2>2, SoberCall
<1>5. ASSUME NEW c \in Calls, Clear(c) PROVE Sober'
    <2> DEFINE k == [call[c] EXCEPT !.op = "write", !.cleared = Defaults \ {call[c].addr}]
    <2>1. call[c] \in Call
        BY <1>0
    <2>2. k \in Call /\ k.op # "complied"
        BY <1>5, <2>1 DEF Clear, Call, CallRecords, Ops, AddressOps, OrderOps, Defaults
    <2>3. call' = [call EXCEPT ![c] = k] /\ UNCHANGED <<kyc, stated, orders>>
        BY <1>5 DEF Clear
    <2> HIDE DEF k
    <2> QED
        BY <2>2, <2>3, SoberCall
<1>6. ASSUME NEW c \in Calls, Commit(c) PROVE Sober'
    <2> DEFINE idle == [call EXCEPT ![c] = Idle]
    <2>1. /\ idle \in [Calls -> Call] /\ idle[c].op # "complied"
          /\ \A x \in Calls \ {c} : idle[x] = call[x]
        BY <1>0, Values
    <2>2. call' = Stale(idle, {call[c].addr}, {}) /\ UNCHANGED <<kyc, stated>>
        BY <1>6 DEF Commit
    <2> HIDE DEF idle
    <2>3. \A x \in Calls : /\ call'[x].op = idle[x].op /\ call'[x].place = idle[x].place
                           /\ call'[x].alcohol = idle[x].alcohol
        BY <2>1, <2>2, StaleIsCall
    <2>4. \A o \in orders' : o.alcohol => \E x \in orders : x.place = o.place /\ x.alcohol
        BY <1>6, StaleOrdersAreOrders DEF Commit
    <2>5. ASSUME NEW x \in Calls, call'[x].op = "complied", call'[x].alcohol
          PROVE  /\ call[x].op = "complied" /\ call[x].alcohol
                 /\ call'[x].place = call[x].place
        <3>1. x # c /\ idle[x].op = "complied" /\ idle[x].alcohol
            BY <2>1, <2>3, <2>5
        <3> QED
            BY <2>1, <2>3, <3>1
    <2> QED
        BY <2>2, <2>4, <2>5, SoberQuiet
<1>7. ASSUME NEW c \in Calls, Abort(c) PROVE Sober'
    BY <1>7, Values, SoberCall DEF Abort
<1>8. ASSUME NEW c \in Calls, NEW age \in Ages, SubmitKyc(c, age) PROVE Sober'
    <2> DEFINE k == [Idle EXCEPT !.op = "kyc", !.age = age, !.kyc = kyc]
    <2>1. k \in Call /\ k.op # "complied"
        BY Values DEF TypeOK, Call, CallRecords, Ops, AddressOps, OrderOps
    <2>2. call' = [call EXCEPT ![c] = k] /\ UNCHANGED <<kyc, stated, orders>>
        BY <1>8 DEF SubmitKyc
    <2> HIDE DEF k
    <2> QED
        BY <2>1, <2>2, SoberCall
<1>9. ASSUME NEW c \in Calls, WriteKyc(c) PROVE Sober'
    <2>1. call'[c] = Idle /\ \A x \in Calls \ {c} : call'[x] = call[x]
        BY <1>9, Values, CallStep DEF TypeOK, WriteKyc
    <2>2. stated' = stated \cup {call[c].age} /\ orders' = orders
        BY <1>9 DEF WriteKyc
    <2>3. \A region : Shown(stated, region) => Shown(stated', region)
        BY <2>2 DEF Shown
    <2>4. kyc'.age \in {call[c].age, kyc.age}
        <3> DEFINE old == Flushed(call[c].kyc.age, call[c].age, kyc.age)
                   ok == Flushed(call[c].kyc.verified, Adult(call[c].age), kyc.verified)
        <3>1. kyc' = [age |-> old, verified |-> ok]
            BY <1>9 DEF WriteKyc, Resubmitted
        <3>2. old \in {call[c].age, kyc.age}
            BY DEF Flushed
        <3> HIDE DEF old, ok
        <3> QED
            BY <3>1, <3>2
    <2>5. kyc'.age \in stated' \cup {-1}
        BY <2>2, <2>4 DEF Sober
    <2>6. \A x \in Calls :
              call'[x].op = "complied" /\ call'[x].alcohol => Shown(stated', call'[x].place.state)
        BY <2>1, <2>3, Values DEF Sober
    <2>7. MinorsNeverBuy'
        BY <2>2 DEF Sober, MinorsNeverBuy
    <2> QED
        BY <2>5, <2>6, <2>7 DEF Sober
<1>10. ASSUME NEW c \in Calls, NEW l \in Locations, Resolve(c, l) PROVE Sober'
    <2> DEFINE k == [call[c] EXCEPT !.op = "resolved", !.location = l]
    <2>0. call[c] \in Call /\ call[c].op = "order"
        BY <1>0, <1>10 DEF Resolve
    <2>1. k \in Call /\ k.op # "complied"
        BY <2>0 DEF Call, CallRecords, Ops, AddressOps, OrderOps
    <2>2. call' = [call EXCEPT ![c] = k] /\ UNCHANGED <<kyc, stated, orders>>
        BY <1>10 DEF Resolve
    <2> HIDE DEF k
    <2> QED
        BY <2>1, <2>2, SoberCall
<1>11. ASSUME NEW c \in Calls, Comply(c) PROVE Sober'
    <2> DEFINE k == [call[c] EXCEPT !.op = "complied"]
    <2>0. call[c] \in Call
        BY <1>0
    <2>1. k \in Call /\ k.place = call[c].place /\ k.alcohol = call[c].alcohol
        BY <1>11, <2>0 DEF Comply, Call, CallRecords, Ops, AddressOps, OrderOps
    <2>2. call' = [call EXCEPT ![c] = k] /\ UNCHANGED <<kyc, stated, orders>>
        BY <1>11 DEF Comply
    <2> HIDE DEF k
    <2>3. call'[c] = k /\ \A x \in Calls \ {c} : call'[x] = call[x]
        BY <2>1, <2>2, CallStep DEF TypeOK
    <2>4. \A region : Shown(stated', region) <=> Shown(stated, region)
        BY <2>2 DEF Shown
    <2>5. call[c].place \in Places
        BY <2>0 DEF Call, CallRecords
    <2>6. LegalAge[call[c].place.state] \in Nat
        BY <2>5, CustomerConstants
    <2>7. call[c].alcohol => Shown(stated, call[c].place.state)
        <3> SUFFICES ASSUME call[c].alcohol PROVE Shown(stated, call[c].place.state)
            OBVIOUS
        <3>1. kyc.age >= LegalAge[call[c].place.state]
            BY <1>11 DEF Comply, OfAge
        <3>2. kyc.age # -1
            BY <2>6, <3>1
        <3> QED
            BY <3>1, <3>2 DEF Sober, Shown
    <2>8. \A x \in Calls :
              call'[x].op = "complied" /\ call'[x].alcohol => Shown(stated', call'[x].place.state)
        BY <2>1, <2>3, <2>4, <2>7 DEF Sober
    <2>9. MinorsNeverBuy' /\ kyc'.age \in stated' \cup {-1}
        BY <2>2 DEF Sober, MinorsNeverBuy
    <2> QED
        BY <2>8, <2>9 DEF Sober
<1>12. ASSUME NEW c \in Calls, PlaceOrder(c) PROVE Sober'
    <2> DEFINE k == call[c]
               o == [addr |-> k.addr, place |-> k.place, location |-> k.location,
                     alcohol |-> k.alcohol, stale |-> k.stale, handed |-> FALSE, age |-> FALSE]
    <2>1. call'[c] = Idle /\ \A x \in Calls \ {c} : call'[x] = call[x]
        BY <1>12, Values, CallStep DEF TypeOK, PlaceOrder
    <2>2. k.op = "complied" /\ UNCHANGED <<kyc, stated>> /\ orders' = orders \cup {o}
        BY <1>12 DEF PlaceOrder
    <2>3. o.place = k.place /\ o.alcohol = k.alcohol
        OBVIOUS
    <2> HIDE DEF o, k
    <2>4. o.alcohol => Shown(stated, o.place.state)
        BY <2>2, <2>3 DEF Sober, k
    <2>5. MinorsNeverBuy'
        BY <2>2, <2>4 DEF Sober, MinorsNeverBuy, Shown
    <2>6. \A region : Shown(stated', region) <=> Shown(stated, region)
        BY <2>2 DEF Shown
    <2>7. \A x \in Calls :
              call'[x].op = "complied" /\ call'[x].alcohol => Shown(stated', call'[x].place.state)
        BY <2>1, <2>6, Values DEF Sober
    <2> QED
        BY <2>2, <2>5, <2>7 DEF Sober
<1>13. ASSUME NEW l \in Locations, NEW pin \in Pins, NEW row, CoverageIs(l, pin, row)
       PROVE  Sober'
    <2>1. call' = Stale(call, {}, {pin}) /\ UNCHANGED <<kyc, stated>>
        BY <1>13 DEF CoverageIs
    <2>2. \A x \in Calls : /\ call'[x].op = call[x].op /\ call'[x].place = call[x].place
                           /\ call'[x].alcohol = call[x].alcohol
        BY <1>0, <2>1, StaleIsCall
    <2>3. \A o \in orders' : o.alcohol => \E x \in orders : x.place = o.place /\ x.alcohol
        BY <1>13, StaleOrdersAreOrders DEF CoverageIs
    <2> QED
        BY <2>1, <2>2, <2>3, SoberQuiet
<1>14. ASSUME NEW w \in CoverageWrites, UpsertCoverage(w) PROVE Sober'
    BY <1>13, <1>14, CoverageWritesAre
<1>15. ASSUME NEW l \in Locations, NEW pin \in Pins, DeactivateCoverage(l, pin) PROVE Sober'
    BY <1>13, <1>15, CoverageWritesAre
<1>16. ASSUME NEW states \in SUBSET States, Calendar(states) PROVE Sober'
    BY <1>16, SoberQuiet DEF Calendar
<1>17. ASSUME NEW o \in orders, NEW confirmed \in BOOLEAN, VerifyHandover(o, confirmed)
       PROVE  Sober'
    <2> DEFINE n == [o EXCEPT !.handed = TRUE, !.age = confirmed]
    <2>1. o \in Order /\ o.alcohol
        BY <1>17 DEF TypeOK, VerifyHandover
    <2>2. n.place = o.place
        BY <2>1 DEF Order
    <2>3. orders' = (orders \ {o}) \cup {n} /\ UNCHANGED <<kyc, stated, call>>
        BY <1>17 DEF VerifyHandover
    <2> HIDE DEF n
    <2>4. \A y \in orders' : y.alcohol => \E x \in orders : x.place = y.place /\ x.alcohol
        BY <2>1, <2>2, <2>3
    <2> QED
        BY <2>3, <2>4, SoberQuiet
<1>18. CASE UNCHANGED vars
    BY <1>18, SoberQuiet DEF vars
<1> QED
    BY <1>1, <1>2, <1>3, <1>4, <1>5, <1>6, <1>7, <1>8, <1>9, <1>10, <1>11, <1>12, <1>14,
       <1>15, <1>16, <1>17, <1>18 DEF Next

-----------------------------------------------------------------------------
(* The location an order is sent from.                                     *)

(* The address an order, in progress or placed, rests on is as it was.     *)
AddressKept(x) == Owned(x.addr) /\ address[x.addr].place = x.place
SentFromFirst(x) ==
    /\ x.location \in Covering(x.place.pin)
    /\ ~\E l \in Covering(x.place.pin) : Before(l, x.location, x.place.pin)

Suited ==
    /\ \A c \in Calls : call[c].op \in OrderOps /\ ~call[c].stale =>
          /\ AddressKept(call[c])
          /\ call[c].op # "order" => SentFromFirst(call[c])
    /\ \A o \in orders : ~o.stale => AddressKept(o) /\ SentFromFirst(o)

Undisturbed(x) ==
    /\ address'[x.addr].active = address[x.addr].active
    /\ address'[x.addr].place = address[x.addr].place
    /\ \A l \in Locations : coverage'[l][x.place.pin] = coverage[l][x.place.pin]

LEMMA KeepsItsAddress ==
    ASSUME NEW x, NEW y, y.addr = x.addr, y.place = x.place, Undisturbed(x), AddressKept(x)
    PROVE  AddressKept(y)'
BY DEF Undisturbed, AddressKept, Owned

LEMMA KeepsItsLocation ==
    ASSUME NEW x, NEW y, y.location = x.location, y.place = x.place,
           Undisturbed(x), SentFromFirst(x)
    PROVE  SentFromFirst(y)'
<1>1. Covering(y.place.pin)' = Covering(x.place.pin)
    BY DEF Undisturbed, Covering
<1>2. x.location \in Locations
    BY DEF SentFromFirst, Covering
<1>3. \A l \in Locations :
          Before(l, y.location, y.place.pin)' <=> Before(l, x.location, x.place.pin)
    BY <1>2 DEF Undisturbed, Before
<1>4. Covering(x.place.pin) \subseteq Locations
    BY DEF Covering
<1> QED
    BY <1>1, <1>3, <1>4 DEF SentFromFirst

(* A step that starts no order, gives none a location and places none.     *)
LEMMA SuitedQuiet ==
    ASSUME Suited,
           \A c \in Calls : call'[c].op \in OrderOps /\ ~call'[c].stale =>
               /\ call[c].op \in OrderOps /\ ~call[c].stale /\ Undisturbed(call[c])
               /\ call'[c].addr = call[c].addr /\ call'[c].place = call[c].place
               /\ call'[c].location = call[c].location
               /\ call'[c].op # "order" => call[c].op # "order",
           \A o \in orders' : ~o.stale =>
               \E x \in orders : /\ ~x.stale /\ Undisturbed(x) /\ o.addr = x.addr
                                 /\ o.place = x.place /\ o.location = x.location
    PROVE  Suited'
<1>1. ASSUME NEW c \in Calls, call'[c].op \in OrderOps, ~call'[c].stale
      PROVE  AddressKept(call[c])' /\ (call'[c].op # "order" => SentFromFirst(call[c])')
    <2>1. PICK y : y = call'[c]
        OBVIOUS
    <2>2. /\ AddressKept(call[c]) /\ Undisturbed(call[c])
          /\ y.addr = call[c].addr /\ y.place = call[c].place /\ y.location = call[c].location
          /\ y.op # "order" => SentFromFirst(call[c])
        BY <1>1, <2>1 DEF Suited
    <2>3. AddressKept(y)' /\ (y.op # "order" => SentFromFirst(y)')
        BY <2>2, KeepsItsAddress, KeepsItsLocation
    <2> QED
        BY <2>1, <2>3 DEF AddressKept, SentFromFirst
<1>2. ASSUME NEW o \in orders', ~o.stale PROVE AddressKept(o)' /\ SentFromFirst(o)'
    <2>1. PICK x \in orders : /\ ~x.stale /\ Undisturbed(x) /\ o.addr = x.addr
                              /\ o.place = x.place /\ o.location = x.location
        BY <1>2
    <2>2. AddressKept(x) /\ SentFromFirst(x)
        BY <2>1 DEF Suited
    <2> QED
        BY <2>1, <2>2, KeepsItsAddress, KeepsItsLocation
<1> QED
    BY <1>1, <1>2 DEF Suited

(* A request that changes only what it knows itself.                       *)
LEMMA SuitedCall ==
    ASSUME Suited, TypeOK, NEW c \in Calls, NEW k \in Call,
           k.op \in OrderOps /\ ~k.stale =>
               AddressKept(k) /\ (k.op # "order" => SentFromFirst(k)),
           call' = [call EXCEPT ![c] = k], UNCHANGED <<address, coverage, orders>>
    PROVE  Suited'
<1>1. call'[c] = k /\ \A x \in Calls \ {c} : call'[x] = call[x]
    BY CallStep DEF TypeOK
<1>2. \A x : (AddressKept(x)' <=> AddressKept(x)) /\ (SentFromFirst(x)' <=> SentFromFirst(x))
    BY DEF AddressKept, Owned, SentFromFirst, Covering, Before
<1>3. ASSUME NEW x \in Calls, call'[x].op \in OrderOps, ~call'[x].stale
      PROVE  AddressKept(call[x])' /\ (call'[x].op # "order" => SentFromFirst(call[x])')
    <2>1. PICK y : y = call'[x]
        OBVIOUS
    <2>2. AddressKept(y) /\ (y.op # "order" => SentFromFirst(y))
        BY <1>1, <1>3, <2>1 DEF Suited
    <2>3. AddressKept(y)' /\ (y.op # "order" => SentFromFirst(y)')
        BY <1>2, <2>2
    <2> QED
        BY <2>1, <2>3 DEF AddressKept, SentFromFirst
<1>4. \A o \in orders' : ~o.stale => AddressKept(o)' /\ SentFromFirst(o)'
    BY <1>2 DEF Suited
<1> QED
    BY <1>3, <1>4 DEF Suited

(* What is not marked stale rests on nothing that changes.                 *)
LEMMA UnmarkedCall ==
    ASSUME NEW rows \in [Calls -> Call], NEW addrs, NEW pins, NEW c \in Calls,
           Stale(rows, addrs, pins)[c].op \in OrderOps, ~Stale(rows, addrs, pins)[c].stale
    PROVE  /\ ~rows[c].stale /\ rows[c].op \in OrderOps
           /\ rows[c].addr \notin addrs /\ rows[c].place.pin \notin pins
           /\ Stale(rows, addrs, pins)[c].location = rows[c].location
<1> DEFINE flag == rows[c].stale \/ (rows[c].op \in OrderOps
                     /\ (rows[c].addr \in addrs \/ rows[c].place.pin \in pins))
           new == Stale(rows, addrs, pins)[c]
<1>1. rows[c] \in Call
    OBVIOUS
<1>2. new = [rows[c] EXCEPT !.stale = flag]
    BY DEF Stale
<1> HIDE DEF flag, new
<1>3. new.stale = flag /\ new.op = rows[c].op /\ new.location = rows[c].location
    BY <1>1, <1>2 DEF Call, CallRecords
<1>4. new.op \in OrderOps /\ ~new.stale
    BY DEF new
<1>5. new.location = rows[c].location /\ rows[c].op \in OrderOps /\ ~flag
    BY <1>3, <1>4
<1> QED
    BY <1>5 DEF flag, new

LEMMA UnmarkedOrder ==
    ASSUME TypeOK, NEW addrs, NEW pins, NEW m \in StaleOrders(addrs, pins), ~m.stale
    PROVE  \E o \in orders : /\ ~o.stale /\ o.addr \notin addrs /\ o.place.pin \notin pins
                             /\ m.addr = o.addr /\ m.place = o.place /\ m.location = o.location
<1>1. PICK o \in orders :
          m = [o EXCEPT !.stale = @ \/ o.addr \in addrs \/ o.place.pin \in pins]
    BY DEF StaleOrders
<1>2. o \in Order
    BY DEF TypeOK
<1> DEFINE flag == o.stale \/ o.addr \in addrs \/ o.place.pin \in pins
<1>3. m = [o EXCEPT !.stale = flag]
    BY <1>1
<1> HIDE DEF flag
<1>4. m.stale = flag /\ m.addr = o.addr /\ m.place = o.place /\ m.location = o.location
    BY <1>2, <1>3 DEF Order
<1>5. ~flag
    BY <1>4
<1> QED
    BY <1>4, <1>5 DEF flag

LEMMA SuitedEnter ==
    ASSUME Suited, TypeOK, NEW c \in Calls, NEW op \in AddressOps, NEW a \in Addresses,
           NEW place \in Places, NEW default \in BOOLEAN, Enter(c, op, a, place, default)
    PROVE  Suited'
<1>1. call'[c].op = op /\ \A x \in Calls \ {c} : call'[x] = call[x]
    BY EnterType
<1>2. op \notin OrderOps
    BY DEF AddressOps, OrderOps
<1>3. \A x : Undisturbed(x)
    BY DEF Enter, Undisturbed
<1>4. orders' = orders
    BY DEF Enter
<1> QED
    BY <1>1, <1>2, <1>3, <1>4, SuitedQuiet

LEMMA SuitedCommit == ASSUME Suited, TypeOK, NEW c \in Calls, Commit(c) PROVE Suited'
<1> DEFINE idle == [call EXCEPT ![c] = Idle]
<1>1. /\ idle \in [Calls -> Call] /\ idle[c].op \notin OrderOps
      /\ \A x \in Calls \ {c} : idle[x] = call[x]
    BY Values DEF TypeOK, OrderOps
<1>2. PICK a : a = call[c].addr
    OBVIOUS
<1>3. /\ call' = Stale(idle, {a}, {}) /\ orders' = StaleOrders({a}, {})
      /\ coverage' = coverage
      /\ \A b \in Addresses \ {a} : /\ address'[b].active = address[b].active
                                    /\ address'[b].place = address[b].place
    <2>1. /\ call' = Stale(idle, {a}, {}) /\ orders' = StaleOrders({a}, {})
          /\ coverage' = coverage
        BY <1>2 DEF Commit
    <2>2. ASSUME NEW b \in Addresses \ {a}
          PROVE  address'[b] \in {address[b], [address[b] EXCEPT !.default = FALSE]}
        BY <1>2 DEF Commit
    <2>3. \A b \in Addresses : address[b] \in Rows
        BY DEF TypeOK
    <2> QED
        BY <2>1, <2>2, <2>3 DEF Rows
<1> HIDE DEF idle
<1>4. ASSUME NEW x, x.addr \in Addresses, x.addr # a PROVE Undisturbed(x)
    BY <1>3, <1>4 DEF Undisturbed
<1>5. ASSUME NEW x \in Calls, call'[x].op \in OrderOps, ~call'[x].stale
      PROVE  /\ call[x].op \in OrderOps /\ ~call[x].stale /\ Undisturbed(call[x])
             /\ call'[x].addr = call[x].addr /\ call'[x].place = call[x].place
             /\ call'[x].location = call[x].location
             /\ call'[x].op # "order" => call[x].op # "order"
    <2>1. /\ ~idle[x].stale /\ idle[x].op \in OrderOps /\ idle[x].addr \notin {a}
          /\ call'[x].location = idle[x].location
        BY <1>1, <1>3, <1>5, UnmarkedCall
    <2>2. /\ call'[x].op = idle[x].op /\ call'[x].addr = idle[x].addr
          /\ call'[x].place = idle[x].place
        BY <1>1, <1>3, StaleIsCall
    <2>3. idle[x] = call[x]
        BY <1>1, <2>1
    <2>4. call[x].addr \in Addresses
        BY <1>1, <2>1, <2>3 DEF TypeOK, Call
    <2> QED
        BY <1>4, <2>1, <2>2, <2>3, <2>4
<1>6. ASSUME NEW o \in orders', ~o.stale
      PROVE  \E x \in orders : /\ ~x.stale /\ Undisturbed(x) /\ o.addr = x.addr
                               /\ o.place = x.place /\ o.location = x.location
    <2>1. PICK x \in orders : /\ ~x.stale /\ x.addr \notin {a} /\ o.addr = x.addr
                              /\ o.place = x.place /\ o.location = x.location
        BY <1>3, <1>6, UnmarkedOrder
    <2>2. x.addr \in Addresses
        BY DEF TypeOK, Order
    <2> QED
        BY <1>4, <2>1, <2>2
<1> QED
    BY <1>5, <1>6, SuitedQuiet

LEMMA SuitedCoverage ==
    ASSUME Suited, TypeOK, NEW l \in Locations, NEW pin \in Pins, NEW row,
           CoverageIs(l, pin, row)
    PROVE  Suited'
<1>1. /\ call' = Stale(call, {}, {pin}) /\ orders' = StaleOrders({}, {pin})
      /\ call \in [Calls -> Call] /\ address' = address
      /\ coverage' = [coverage EXCEPT ![l][pin] = row]
    BY DEF CoverageIs, TypeOK
<1>2. ASSUME NEW x, x.place.pin # pin PROVE Undisturbed(x)
    <2>1. \A m \in Locations : coverage'[m][x.place.pin] = coverage[m][x.place.pin]
        BY <1>1, <1>2 DEF TypeOK
    <2> QED
        BY <1>1, <2>1 DEF Undisturbed
<1>3. ASSUME NEW x \in Calls, call'[x].op \in OrderOps, ~call'[x].stale
      PROVE  /\ call[x].op \in OrderOps /\ ~call[x].stale /\ Undisturbed(call[x])
             /\ call'[x].addr = call[x].addr /\ call'[x].place = call[x].place
             /\ call'[x].location = call[x].location
             /\ call'[x].op # "order" => call[x].op # "order"
    <2>1. /\ ~call[x].stale /\ call[x].op \in OrderOps /\ call[x].place.pin \notin {pin}
          /\ call'[x].location = call[x].location
        BY <1>1, <1>3, UnmarkedCall
    <2>2. /\ call'[x].op = call[x].op /\ call'[x].addr = call[x].addr
          /\ call'[x].place = call[x].place
        BY <1>1, StaleIsCall
    <2> QED
        BY <1>2, <2>1, <2>2
<1>4. ASSUME NEW o \in orders', ~o.stale
      PROVE  \E x \in orders : /\ ~x.stale /\ Undisturbed(x) /\ o.addr = x.addr
                               /\ o.place = x.place /\ o.location = x.location
    <2>1. PICK x \in orders : /\ ~x.stale /\ x.place.pin \notin {pin} /\ o.addr = x.addr
                              /\ o.place = x.place /\ o.location = x.location
        BY <1>1, <1>4, UnmarkedOrder
    <2> QED
        BY <1>2, <2>1
<1> QED
    BY <1>3, <1>4, SuitedQuiet

(* The location chosen covers the postal code, and none comes before it.   *)
LEMMA SuitedResolve ==
    ASSUME Suited, TypeOK, NEW c \in Calls, NEW l \in Locations, Resolve(c, l)
    PROVE  Suited'
<1> DEFINE k == [call[c] EXCEPT !.op = "resolved", !.location = l]
<1>1. /\ call[c] \in CallRecords /\ call[c].addr \in Addresses /\ call[c].op = "order"
      /\ "resolved" \in OrderOps /\ "order" \in OrderOps
    BY DEF TypeOK, Resolve, Call, OrderOps
<1>2. /\ k \in CallRecords /\ k.op = "resolved" /\ k.location = l /\ k.addr = call[c].addr
      /\ k.place = call[c].place /\ k.stale = call[c].stale
    BY <1>1 DEF CallRecords, Ops
<1>3. call' = [call EXCEPT ![c] = k] /\ UNCHANGED <<address, coverage, orders>>
    BY DEF Resolve
<1> HIDE DEF k
<1>4. k \in Call
    BY <1>1, <1>2 DEF Call
<1>5. ~k.stale => AddressKept(k)
    <2>1. ~k.stale => AddressKept(call[c])
        BY <1>1, <1>2 DEF Suited
    <2> QED
        BY <1>2, <2>1 DEF AddressKept
<1>6. SentFromFirst(k)
    <2>1. PICK pin \in Pins : pin = k.place.pin
        BY <1>2, CustomerConstants DEF CallRecords
    <2>2. l \in FirstOf(pin)
        BY <1>2, <2>1 DEF Resolve
    <2>3. ASSUME NEW m \in Covering(pin) PROVE ~Before(m, l, pin)
        <3>1. m \in Nat /\ l \in Nat /\ m \in Locations
            BY CustomerConstants DEF Covering
        <3>2. coverage[m][pin].priority \in Nat /\ coverage[l][pin].priority \in Nat
            BY <3>1 DEF TypeOK
        <3>3. CASE m = l
            BY <3>1, <3>2, <3>3 DEF Before
        <3>4. CASE m # l
            <4>1. Before(l, m, pin)
                BY <2>2, <3>4 DEF FirstOf
            <4> QED
                BY <3>1, <3>2, <4>1 DEF Before
        <3> QED
            BY <3>3, <3>4
    <2>4. l \in Covering(pin)
        BY <2>2 DEF FirstOf
    <2> QED
        BY <1>2, <2>1, <2>3, <2>4 DEF SentFromFirst
<1> QED
    BY <1>3, <1>4, <1>5, <1>6, SuitedCall

LEMMA SuitedPlace == ASSUME Suited, TypeOK, NEW c \in Calls, PlaceOrder(c) PROVE Suited'
<1> DEFINE o == [addr |-> call[c].addr, place |-> call[c].place, location |-> call[c].location,
                 alcohol |-> call[c].alcohol, stale |-> call[c].stale,
                 handed |-> FALSE, age |-> FALSE]
<1>1. call'[c] = Idle /\ \A x \in Calls \ {c} : call'[x] = call[x]
    BY Values, CallStep DEF TypeOK, PlaceOrder
<1>2. /\ call[c].op = "complied" /\ orders' = orders \cup {o}
      /\ UNCHANGED <<address, coverage>>
    BY DEF PlaceOrder
<1>3. /\ o.addr = call[c].addr /\ o.place = call[c].place
      /\ o.location = call[c].location /\ o.stale = call[c].stale
    OBVIOUS
<1> HIDE DEF o
<1>4. \A x : (AddressKept(x)' <=> AddressKept(x)) /\ (SentFromFirst(x)' <=> SentFromFirst(x))
    BY <1>2 DEF AddressKept, Owned, SentFromFirst, Covering, Before
<1>5. ~o.stale => AddressKept(o) /\ SentFromFirst(o)
    <2>1. ~o.stale => AddressKept(call[c]) /\ SentFromFirst(call[c])
        BY <1>2, <1>3 DEF Suited, OrderOps
    <2> QED
        BY <1>3, <2>1 DEF AddressKept, SentFromFirst
<1>6. ASSUME NEW x \in Calls, call'[x].op \in OrderOps, ~call'[x].stale
      PROVE  AddressKept(call[x])' /\ (call'[x].op # "order" => SentFromFirst(call[x])')
    <2>1. PICK y : y = call'[x]
        OBVIOUS
    <2>2. x # c
        BY <1>1, <1>6, Values DEF OrderOps
    <2>3. AddressKept(y) /\ (y.op # "order" => SentFromFirst(y))
        BY <1>1, <1>6, <2>1, <2>2 DEF Suited
    <2>4. AddressKept(y)' /\ (y.op # "order" => SentFromFirst(y)')
        BY <1>4, <2>3
    <2> QED
        BY <2>1, <2>4 DEF AddressKept, SentFromFirst
<1>7. ASSUME NEW n \in orders', ~n.stale PROVE AddressKept(n)' /\ SentFromFirst(n)'
    <2>1. PICK y : y = o
        OBVIOUS
    <2>2. orders' = orders \cup {y} /\ (~y.stale => AddressKept(y) /\ SentFromFirst(y))
        BY <1>2, <1>5, <2>1
    <2>3. AddressKept(n) /\ SentFromFirst(n)
        BY <1>7, <2>2 DEF Suited
    <2> QED
        BY <1>4, <2>3
<1> QED
    BY <1>6, <1>7 DEF Suited

LEMMA SuitedStep == TypeOK /\ Suited /\ [Next]_vars => Suited'
<1> SUFFICES ASSUME TypeOK, Suited, [Next]_vars PROVE Suited'
    OBVIOUS
<1>0. call \in [Calls -> Call]
    BY DEF TypeOK
<1>1. ASSUME NEW c \in Calls, NEW a \in Addresses, NEW p \in Places, NEW d \in BOOLEAN,
             CreateAddress(c, a, p, d) \/ UpdateAddress(c, a, p, d)
      PROVE  Suited'
    BY <1>1, CreateEnters, SuitedEnter
<1>2. ASSUME NEW c \in Calls, NEW a \in Addresses, NEW p \in Places, MoveAddress(c, a, p)
      PROVE  Suited'
    BY <1>2, MoveEnters, SuitedEnter DEF AddressOps
<1>3. ASSUME NEW c \in Calls, NEW a \in Addresses, DeactivateAddress(c, a)
      PROVE  Suited'
    BY <1>3, DeactivateEnters, SuitedEnter DEF AddressOps
<1>4. ASSUME NEW c \in Calls, NEW a \in Addresses, NEW alcohol \in BOOLEAN,
             ValidateAddress(c, a, alcohol)
      PROVE  Suited'
    <2> DEFINE k == [Idle EXCEPT !.op = "order", !.addr = a, !.alcohol = alcohol,
                                 !.place = address[a].place]
    <2>1. /\ k \in Call /\ k.op = "order" /\ k.addr = a /\ k.place = address[a].place
        BY Values DEF TypeOK, Rows, Call, CallRecords, Ops, AddressOps, OrderOps
    <2>2. /\ call' = [call EXCEPT ![c] = k] /\ UNCHANGED <<address, coverage, orders>>
          /\ Owned(a)
        BY <1>4 DEF ValidateAddress
    <2> HIDE DEF k
    <2>3. AddressKept(k)
        BY <2>1, <2>2 DEF AddressKept
    <2> QED
        BY <2>1, <2>2, <2>3, SuitedCall
<1>5. ASSUME NEW c \in Calls, Clear(c) PROVE Suited'
    <2> DEFINE k == [call[c] EXCEPT !.op = "write", !.cleared = Defaults \ {call[c].addr}]
    <2>1. call[c] \in Call
        BY <1>0
    <2>2. k \in Call /\ k.op \notin OrderOps
        BY <1>5, <2>1 DEF Clear, Call, CallRecords, Ops, AddressOps, OrderOps, Defaults
    <2>3. call' = [call EXCEPT ![c] = k] /\ UNCHANGED <<address, coverage, orders>>
        BY <1>5 DEF Clear
    <2> HIDE DEF k
    <2> QED
        BY <2>2, <2>3, SuitedCall
<1>6. ASSUME NEW c \in Calls, Abort(c) \/ WriteKyc(c) PROVE Suited'
    <2>1. call' = [call EXCEPT ![c] = Idle] /\ UNCHANGED <<address, coverage, orders>>
        BY <1>6 DEF Abort, WriteKyc
    <2>2. Idle \in Call /\ Idle.op \notin OrderOps
        BY Values DEF OrderOps
    <2> QED
        BY <2>1, <2>2, SuitedCall
<1>7. ASSUME NEW c \in Calls, NEW age \in Ages, SubmitKyc(c, age) PROVE Suited'
    <2> DEFINE k == [Idle EXCEPT !.op = "kyc", !.age = age, !.kyc = kyc]
    <2>1. k \in Call /\ k.op \notin OrderOps
        BY Values DEF TypeOK, Call, CallRecords, Ops, AddressOps, OrderOps
    <2>2. call' = [call EXCEPT ![c] = k] /\ UNCHANGED <<address, coverage, orders>>
        BY <1>7 DEF SubmitKyc
    <2> HIDE DEF k
    <2> QED
        BY <2>1, <2>2, SuitedCall
<1>8. ASSUME NEW c \in Calls, Comply(c) PROVE Suited'
    <2> DEFINE k == [call[c] EXCEPT !.op = "complied"]
    <2>0. call[c] \in Call /\ call[c].op = "resolved"
        BY <1>0, <1>8 DEF Comply
    <2>1. /\ k \in Call /\ k.addr = call[c].addr /\ k.place = call[c].place
          /\ k.location = call[c].location /\ k.stale = call[c].stale
        BY <2>0 DEF Call, CallRecords, Ops, AddressOps, OrderOps
    <2>2. call' = [call EXCEPT ![c] = k] /\ UNCHANGED <<address, coverage, orders>>
        BY <1>8 DEF Comply
    <2> HIDE DEF k
    <2>3. ~k.stale => AddressKept(call[c]) /\ SentFromFirst(call[c])
        BY <2>0, <2>1 DEF Suited, OrderOps
    <2>4. ~k.stale => AddressKept(k) /\ SentFromFirst(k)
        BY <2>1, <2>3 DEF AddressKept, SentFromFirst
    <2> QED
        BY <2>1, <2>2, <2>4, SuitedCall
<1>9. ASSUME NEW w \in CoverageWrites, UpsertCoverage(w) PROVE Suited'
    BY <1>9, CoverageWritesAre, SuitedCoverage
<1>10. ASSUME NEW l \in Locations, NEW pin \in Pins, DeactivateCoverage(l, pin) PROVE Suited'
    BY <1>10, CoverageWritesAre, SuitedCoverage
<1>11. ASSUME UNCHANGED <<address, coverage, call>>,
              \A o \in orders' : ~o.stale =>
                  \E x \in orders : /\ ~x.stale /\ o.addr = x.addr
                                    /\ o.place = x.place /\ o.location = x.location
       PROVE  Suited'
    <2>1. \A x : Undisturbed(x)
        BY <1>11 DEF Undisturbed
    <2> QED
        BY <1>11, <2>1, SuitedQuiet
<1>12. ASSUME NEW states \in SUBSET States, Calendar(states) PROVE Suited'
    BY <1>11, <1>12 DEF Calendar
<1>13. ASSUME NEW o \in orders, NEW confirmed \in BOOLEAN, VerifyHandover(o, confirmed)
       PROVE  Suited'
    <2> DEFINE n == [o EXCEPT !.handed = TRUE, !.age = confirmed]
    <2>1. /\ n.place = o.place /\ n.addr = o.addr /\ n.location = o.location
          /\ n.stale = o.stale
        BY DEF TypeOK, Order
    <2>2. orders' = (orders \ {o}) \cup {n} /\ UNCHANGED <<address, coverage, call>>
        BY <1>13 DEF VerifyHandover
    <2> HIDE DEF n
    <2> QED
        BY <1>11, <2>1, <2>2
<1>14. CASE UNCHANGED vars
    BY <1>11, <1>14 DEF vars
<1> QED
    BY <1>1, <1>2, <1>3, <1>4, <1>5, <1>6, <1>7, <1>8, <1>9, <1>10, <1>12, <1>13, <1>14,
       SuitedCommit, SuitedResolve, SuitedPlace DEF Next

-----------------------------------------------------------------------------

(* The state stays well typed, for any number of addresses, postal codes,  *)
(* locations and requests (app/modules/addresses/service.py and            *)
(* app/modules/compliance/service.py).                                     *)
THEOREM TypeCorrect == Spec => []TypeOK
<1> QED
    BY TypeInit, TypeStep, PTL DEF Spec

(* The lock on the user's row is enough for one default address, however   *)
(* many requests write addresses at once; the unique index never refuses   *)
(* one (_lock_active_user and _clear_default_address).                     *)
THEOREM OneDefaultHolds == Spec => []OneDefault
<1>1. Init => IInv
    <2> SUFFICES ASSUME Init PROVE OneOnly /\ Prepared
        BY TypeInit DEF IInv
    <2>1. Defaults = {}
        BY DEF Init, Defaults, NoAddress
    <2>2. \A c \in Calls : call[c].op = "none"
        BY Values DEF Init
    <2> QED
        BY <2>1, <2>2 DEF OneOnly, Prepared
<1>2. IInv /\ [Next]_vars => IInv'
    BY TypeStep, OneStep DEF IInv
<1>3. IInv => OneDefault
    BY OneOnlyIsOne DEF IInv
<1> QED
    BY <1>1, <1>2, <1>3, PTL DEF Spec

(* Nobody buys alcohol who has not submitted a document of the legal age,  *)
(* although a submission and an order lock nothing: the age on file is     *)
(* always one that was submitted, and the check reads age and verification *)
(* together (verify_alcohol_compliance).                                   *)
THEOREM MinorsNeverBuyHolds == Spec => []MinorsNeverBuy
<1>1. Init => Sober
    BY Values DEF Init, Sober, NoKyc, MinorsNeverBuy
<1>2. Sober => MinorsNeverBuy
    BY DEF Sober
<1> QED
    BY <1>1, <1>2, TypeInit, TypeStep, SoberStep, PTL DEF Spec

(* While nobody edits the address or the coverage of its postal code, an   *)
(* order is sent from the first location that covers it, whatever requests *)
(* run beside it (resolve_fulfillment_location, create_order_from_cart).   *)
THEOREM OrdersSuitTheirAddressHolds == Spec => []OrdersSuitTheirAddress
<1>1. Init => Suited
    BY Values DEF Init, Suited, OrderOps
<1>2. Suited => OrdersSuitTheirAddress
    BY DEF Suited, OrdersSuitTheirAddress, AddressKept, SentFromFirst
<1> QED
    BY <1>1, <1>2, TypeInit, TypeStep, SuitedStep, PTL DEF Spec

-----------------------------------------------------------------------------
(* Sessions.                                                               *)

Busy == {"rotate", "reuse", "revoke"}

(* A family is named by a session that exists.                             *)
Named == \A s \in Sessions : ~Unused(s) => family[s] \in Sessions /\ ~Unused(family[s])
Known == \A f \in detected : ~Unused(f)
Holding ==
    \A r \in Requests :
        /\ stage[r] \in Busy => ~Unused(token[r])
        /\ \A s \in targets[r] : ~Unused(s)
Rotating == \A r \in Requests : stage[r] = "rotate" => state[token[r]] = "active"
(* ActiveIn, of any value of the state.                                    *)
Working(now, families, f) == {x \in Sessions : now[x] = "active" /\ families[x] = f}

Found ==
    \A r \in Requests :
        stage[r] = "revoke" =>
            Working(state, family, family[token[r]]) \subseteq targets[r] \cup racing

SessionInv ==
    /\ SessionTypeOK /\ Named /\ Known /\ Holding /\ Rotating /\ Found
    /\ OneActivePerFamily /\ ReuseLeavesOnlyRacers

-----------------------------------------------------------------------------

LEMMA SessionTypeInit == SessionInit => SessionTypeOK
BY SessionConstants
   DEF SessionInit, SessionTypeOK, Sessions, NoSession, SessionStates, Stages, Unused

(* The end of a request lets go of its rows, and touches no other request. *)
LEMMA FinishFrees ==
    ASSUME SessionTypeOK, NEW r \in Requests, Finish(r)
    PROVE  /\ stage' \in [Requests -> Stages] /\ stage'[r] = "done"
           /\ lock' \in [Sessions -> Requests \cup {NoRequest}]
           /\ token' \in [Requests -> Sessions \cup {NoSession}]
           /\ targets' \in [Requests -> SUBSET Sessions]
           /\ \A x \in Requests \ {r} :
                 /\ stage'[x] = stage[x] /\ token'[x] = token[x] /\ targets'[x] = targets[x]
                 /\ stage[x] \in Busy => lock'[token[x]] = x
BY DEF Finish, SessionTypeOK, Stages, Busy

LEMMA SessionTypeStep == SessionInv /\ [SessionNext]_sessionVars => SessionTypeOK'
<1> SUFFICES ASSUME SessionTypeOK, Holding, [SessionNext]_sessionVars PROVE SessionTypeOK'
    BY DEF SessionInv
<1>1. ASSUME NEW s \in Sessions, Login(s) PROVE SessionTypeOK'
    <2> USE <1>1
    <2>1. /\ state' \in [Sessions -> SessionStates]
          /\ family' \in [Sessions -> Sessions \cup {NoSession}]
        BY DEF Login, SessionTypeOK, SessionStates
    <2>2. \A x \in Sessions : Unused(x)' <=> family'[x] = NoSession
        BY DEF Login, SessionTypeOK, Unused, Sessions, NoSession
    <2> QED
        BY <2>1, <2>2 DEF Login, SessionTypeOK, rowVars, requestVars, history
<1>2. ASSUME NEW s \in Sessions, Logout(s) PROVE SessionTypeOK'
    BY <1>2 DEF Logout, SessionTypeOK, Unused, SessionStates, requestVars, history
<1>3. CASE Disable
    BY <1>3 DEF Disable, SessionTypeOK, Unused, requestVars, history
<1>4. ASSUME NEW r \in Requests, NEW s \in Sessions, RefreshLock(r, s) PROVE SessionTypeOK'
    <2> USE <1>4
    <2>1. /\ lock' \in [Sessions -> Requests \cup {NoRequest}]
          /\ token' \in [Requests -> Sessions \cup {NoSession}]
          /\ stage' \in [Requests -> Stages]
        BY DEF RefreshLock, SessionTypeOK, Stages
    <2>2. \A x \in Requests : stage'[x] \in Busy => token'[x] \in Sessions /\ lock'[token'[x]] = x
        BY SessionConstants DEF RefreshLock, SessionTypeOK, RowFree, Busy
    <2> QED
        BY <2>1, <2>2 DEF RefreshLock, SessionTypeOK, Unused, Busy, rowVars, history
<1>5. ASSUME NEW r \in Requests, NEW n \in Sessions, Rotate(r, n) PROVE SessionTypeOK'
    <2> USE <1>5
    <2>1. /\ token[r] \in Sessions /\ ~Unused(token[r])
          /\ family[token[r]] \in Sessions /\ state[n] = "none" /\ n # NoSession
        BY DEF Rotate, SessionTypeOK, Holding, NextRow, Unused, Busy, Sessions, NoSession
    <2>2. /\ state' \in [Sessions -> SessionStates]
          /\ family' \in [Sessions -> Sessions \cup {NoSession}]
          /\ replacedBy' \in [Sessions -> Sessions \cup {NoSession}]
          /\ racing' \subseteq Sessions
        BY <2>1 DEF Rotate, SessionTypeOK, SessionStates
    <2>3. \A x \in Sessions : Unused(x)' <=> family'[x] = NoSession
        BY <2>1 DEF Rotate, SessionTypeOK, Unused, Sessions, NoSession
    <2>4. Finish(r)
        BY DEF Rotate
    <2> QED
        BY <2>2, <2>3, <2>4, FinishFrees DEF Rotate, SessionTypeOK, Busy
<1>6. ASSUME NEW r \in Requests, Retire(r) PROVE SessionTypeOK'
    <2> USE <1>6
    <2>1. token[r] \in Sessions /\ ~Unused(token[r]) /\ Finish(r)
        BY DEF Retire, SessionTypeOK, Holding, Busy
    <2>2. state' \in [Sessions -> SessionStates] /\ \A x \in Sessions : Unused(x)' <=> Unused(x)
        BY <2>1 DEF Retire, SessionTypeOK, SessionStates, Unused
    <2> QED
        BY <2>1, <2>2, FinishFrees DEF Retire, SessionTypeOK, Busy, history
<1>7. ASSUME NEW r \in Requests, RevokeFind(r) PROVE SessionTypeOK'
    <2> USE <1>7
    <2>1. targets' \in [Requests -> SUBSET Sessions] /\ stage' \in [Requests -> Stages]
        BY DEF RevokeFind, SessionTypeOK, Targets, Working, Stages, ActiveIn
    <2> QED
        BY <2>1 DEF RevokeFind, SessionTypeOK, Unused, rowVars, history
<1>8. ASSUME NEW r \in Requests, RevokeCommit(r) PROVE SessionTypeOK'
    <2> USE <1>8
    <2>1. token[r] \in Sessions /\ ~Unused(token[r]) /\ Finish(r)
        BY DEF RevokeCommit, SessionTypeOK, Holding, Busy
    <2>2. detected' \subseteq Sessions
        BY <2>1 DEF RevokeCommit, SessionTypeOK, Unused
    <2>3. state' \in [Sessions -> SessionStates] /\ \A x \in Sessions : Unused(x)' <=> Unused(x)
        BY DEF RevokeCommit, SessionTypeOK, Holding, SessionStates, Unused
    <2> QED
        BY <2>1, <2>2, <2>3, FinishFrees DEF RevokeCommit, SessionTypeOK, Busy
<1>9. ASSUME NEW r \in Requests, AbortRefresh(r) PROVE SessionTypeOK'
    BY <1>9, FinishFrees DEF AbortRefresh, SessionTypeOK, Unused, Busy, rowVars, history
<1>10. CASE UNCHANGED sessionVars
    BY <1>10 DEF SessionTypeOK, Unused, sessionVars, rowVars, requestVars, history
<1> QED
    BY <1>1, <1>2, <1>3, <1>4, <1>5, <1>6, <1>7, <1>8, <1>9, <1>10 DEF SessionNext

-----------------------------------------------------------------------------
(* The other parts of the invariant, one action at a time. In every one of *)
(* them the families keep their names.                                     *)

Rest ==
    /\ Named /\ Known /\ Holding /\ Rotating /\ Found
    /\ OneActivePerFamily /\ ReuseLeavesOnlyRacers

(* A step that revokes sessions, or leaves all as they are, and lets the   *)
(* requests be.                                                            *)
LEMMA OnlyRevokes ==
    ASSUME SessionInv, SessionTypeOK', UNCHANGED <<family, racing, detected>>,
           NEW gone \in SUBSET Sessions, \A s \in gone : ~Unused(s),
           state' = [s \in Sessions |-> IF s \in gone THEN "revoked" ELSE state[s]]
    PROVE  /\ Named' /\ Known' /\ OneActivePerFamily' /\ ReuseLeavesOnlyRacers'
           /\ \A s \in Sessions : Unused(s)' <=> Unused(s)
           /\ \A f : Working(state', family', f) \subseteq Working(state, family, f) \ gone
<1>1. \A s \in Sessions : /\ state'[s] = "active" => state[s] = "active" /\ s \notin gone
                         /\ Unused(s)' <=> Unused(s)
    BY DEF SessionInv, SessionTypeOK, Unused
<1>2. \A f : Working(state', family', f) \subseteq Working(state, family, f) \ gone
    BY <1>1 DEF Working
<1>3. Named' /\ Known'
    BY <1>1 DEF SessionInv, SessionTypeOK, Named, Known
<1>4. OneActivePerFamily'
    BY <1>1 DEF SessionInv, OneActivePerFamily
<1>5. ReuseLeavesOnlyRacers'
    BY <1>2 DEF SessionInv, ReuseLeavesOnlyRacers, ActiveIn, Working
<1> QED
    BY <1>1, <1>2, <1>3, <1>4, <1>5

(* A request that ends while sessions are revoked that no rotation holds.  *)
LEMMA EndStep ==
    ASSUME SessionInv, SessionTypeOK', UNCHANGED <<family, racing, detected>>,
           NEW r \in Requests, Finish(r),
           NEW gone \in SUBSET Sessions, \A s \in gone : ~Unused(s) /\ lock[s] \in {NoRequest, r},
           state' = [s \in Sessions |-> IF s \in gone THEN "revoked" ELSE state[s]]
    PROVE  Rest'
<1>1. /\ Named' /\ Known' /\ OneActivePerFamily' /\ ReuseLeavesOnlyRacers'
      /\ \A s \in Sessions : Unused(s)' <=> Unused(s)
      /\ \A f : Working(state', family', f) \subseteq Working(state, family, f) \ gone
    BY OnlyRevokes
<1>2. /\ stage'[r] = "done" /\ targets'[r] = {}
      /\ \A x \in Requests \ {r} :
            stage'[x] = stage[x] /\ token'[x] = token[x] /\ targets'[x] = targets[x]
    BY FinishFrees DEF SessionInv, SessionTypeOK, Finish
<1>3. Holding'
    BY <1>1, <1>2 DEF SessionInv, SessionTypeOK, Holding, Busy
<1>4. Rotating'
    BY <1>2, SessionConstants DEF SessionInv, SessionTypeOK, Rotating
<1>5. Found'
    BY <1>1, <1>2 DEF SessionInv, Found
<1> QED
    BY <1>1, <1>3, <1>4, <1>5 DEF Rest

LEMMA LoginStep ==
    ASSUME SessionInv, NEW s \in Sessions, Login(s)
    PROVE  Rest'
<1>1. /\ Unused(s) /\ state'[s] = "active" /\ family'[s] = s
      /\ \A x \in Sessions \ {s} : state'[x] = state[x] /\ family'[x] = family[x]
    BY DEF SessionInv, SessionTypeOK, Login, NextRow
<1>2. UNCHANGED <<stage, token, targets, racing, detected>>
    BY DEF Login, requestVars, history
<1>3. \A x \in Sessions : ~Unused(x) => ~Unused(x)' /\ x # s /\ family[x] # s
    BY <1>1 DEF SessionInv, SessionTypeOK, Named, Unused
<1>4. \A f : f # s => Working(state', family', f) = Working(state, family, f)
    BY <1>1 DEF Working, Unused
<1>5. Named'
    BY <1>1, <1>3 DEF SessionInv, Named, Unused
<1>6. Known'
    BY <1>2, <1>3 DEF SessionInv, SessionTypeOK, Known
<1>7. Holding'
    BY <1>2, <1>3 DEF SessionInv, SessionTypeOK, Holding, Busy
<1>8. Rotating'
    BY <1>1, <1>2, <1>3 DEF SessionInv, SessionTypeOK, Rotating, Holding, Busy
<1>9. Found'
    <2> SUFFICES ASSUME NEW r \in Requests, stage[r] = "revoke"
                 PROVE  Working(state', family', family'[token[r]]) \subseteq targets[r] \cup racing
        BY <1>2 DEF Found
    <2>1. token[r] \in Sessions /\ ~Unused(token[r])
        BY DEF SessionInv, SessionTypeOK, Holding, Busy
    <2>2. family'[token[r]] = family[token[r]] /\ family[token[r]] # s
        BY <1>1, <1>3, <2>1
    <2> QED
        BY <1>4, <2>2 DEF SessionInv, Found
<1>10. OneActivePerFamily'
    BY <1>1, <1>3 DEF SessionInv, OneActivePerFamily, Unused
<1>11. ReuseLeavesOnlyRacers'
    BY <1>1, <1>2, <1>4 DEF SessionInv, ReuseLeavesOnlyRacers, Known, ActiveIn, Working
<1> QED
    BY <1>5, <1>6, <1>7, <1>8, <1>9, <1>10, <1>11 DEF Rest

LEMMA RotateStep ==
    ASSUME SessionInv, NEW r \in Requests, NEW n \in Sessions, Rotate(r, n)
    PROVE  Rest'
<1> DEFINE s == token[r]
<1>1. /\ s \in Sessions /\ state[s] = "active" /\ state[n] = "none" /\ s # n
      /\ family[s] \in Sessions /\ ~Unused(family[s])
    BY DEF SessionInv, SessionTypeOK, Rotate, Rotating, Named, NextRow, Unused
<1>2. /\ state'[s] = "revoked" /\ state'[n] = "active"
      /\ family'[n] = family[s] /\ family'[s] = family[s]
      /\ \A x \in Sessions \ {s, n} : state'[x] = state[x] /\ family'[x] = family[x]
      /\ detected' = detected
    BY <1>1 DEF SessionInv, SessionTypeOK, Rotate
<1>3. /\ racing \subseteq racing'
      /\ s \in racing \/ (\E x \in Requests : s \in targets[x]) => n \in racing'
    BY DEF Rotate
<1>4. /\ stage'[r] = "done" /\ targets'[r] = {}
      /\ \A x \in Requests \ {r} :
            stage'[x] = stage[x] /\ token'[x] = token[x] /\ targets'[x] = targets[x]
    BY FinishFrees DEF SessionInv, SessionTypeOK, Rotate, Finish
<1> HIDE DEF s
<1>5. \A x \in Sessions : ~Unused(x) => ~Unused(x)' /\ x # n /\ family'[x] = family[x]
    BY <1>1, <1>2 DEF Unused
<1>6. \A f : /\ f # family[s] => Working(state', family', f) \subseteq Working(state, family, f)
            /\ Working(state', family', f) \subseteq Working(state, family, f) \cup {n}
    BY <1>1, <1>2 DEF Working
<1>7. s \in Working(state, family, family[s])
    BY <1>1 DEF Working
<1>8. Named'
    <2>1. state'[family'[n]] # "none" /\ family'[n] \in Sessions
        BY <1>1, <1>2, <1>5 DEF Unused
    <2> QED
        BY <1>2, <1>5, <2>1 DEF SessionInv, Named, Unused
<1>9. Known'
    BY <1>2, <1>5 DEF SessionInv, SessionTypeOK, Known
<1>10. Holding'
    BY <1>4, <1>5 DEF SessionInv, SessionTypeOK, Holding, Busy
<1>11. Rotating'
    <2> SUFFICES ASSUME NEW x \in Requests \ {r}, stage[x] = "rotate"
                 PROVE  state'[token[x]] = "active"
        BY <1>4 DEF Rotating
    <2>1. token[x] # s /\ token[x] \in Sessions /\ state[token[x]] = "active"
        BY DEF SessionInv, SessionTypeOK, Rotating, Rotate, s
    <2> QED
        BY <1>1, <1>2, <2>1
<1>12. Found'
    <2> SUFFICES ASSUME NEW x \in Requests \ {r}, stage[x] = "revoke"
                 PROVE  Working(state', family', family'[token[x]])
                            \subseteq targets[x] \cup racing'
        BY <1>4 DEF Found
    <2>1. token[x] \in Sessions /\ ~Unused(token[x])
        BY DEF SessionInv, SessionTypeOK, Holding, Busy
    <2>2. family'[token[x]] = family[token[x]]
        BY <1>5, <2>1
    <2>3. Working(state, family, family[token[x]]) \subseteq targets[x] \cup racing
        BY DEF SessionInv, Found
    <2>4. CASE family[token[x]] = family[s]
        BY <1>3, <1>6, <1>7, <2>2, <2>3, <2>4
    <2>5. CASE family[token[x]] # family[s]
        BY <1>3, <1>6, <2>2, <2>3, <2>5
    <2> QED
        BY <2>4, <2>5
<1>13. OneActivePerFamily'
    <2>1. \A x \in Sessions \ {s, n} : state[x] = "active" => family[x] # family[s]
        BY <1>1 DEF SessionInv, OneActivePerFamily
    <2> QED
        BY <1>1, <1>2, <2>1 DEF SessionInv, OneActivePerFamily
<1>14. ReuseLeavesOnlyRacers'
    <2> SUFFICES ASSUME NEW f \in detected PROVE Working(state', family', f) \subseteq racing'
        BY <1>2 DEF ReuseLeavesOnlyRacers, ActiveIn, Working
    <2>1. Working(state, family, f) \subseteq racing
        BY DEF SessionInv, ReuseLeavesOnlyRacers, ActiveIn, Working
    <2>2. CASE f = family[s]
        BY <1>3, <1>6, <1>7, <2>1, <2>2
    <2>3. CASE f # family[s]
        BY <1>3, <1>6, <2>1, <2>3
    <2> QED
        BY <2>2, <2>3
<1> QED
    BY <1>8, <1>9, <1>10, <1>11, <1>12, <1>13, <1>14 DEF Rest

LEMMA RevokeCommitStep ==
    ASSUME SessionInv, SessionTypeOK', NEW r \in Requests, RevokeCommit(r)
    PROVE  Rest'
<1> DEFINE gone == targets[r]
<1>1. /\ gone \in SUBSET Sessions /\ \A s \in gone : ~Unused(s) /\ lock[s] \in {NoRequest, r}
      /\ state' = [s \in Sessions |-> IF s \in gone THEN "revoked" ELSE state[s]]
      /\ UNCHANGED <<family, racing>> /\ detected' = detected \cup {family[token[r]]}
    BY DEF SessionInv, SessionTypeOK, Holding, RevokeCommit
<1>2. token[r] \in Sessions /\ ~Unused(token[r]) /\ stage[r] = "revoke"
    BY DEF SessionInv, SessionTypeOK, Holding, Busy, RevokeCommit
<1>3. /\ stage'[r] = "done" /\ targets'[r] = {}
      /\ \A x \in Requests \ {r} :
            stage'[x] = stage[x] /\ token'[x] = token[x] /\ targets'[x] = targets[x]
    BY FinishFrees DEF SessionInv, SessionTypeOK, RevokeCommit, Finish
<1>4. Working(state, family, family[token[r]]) \subseteq gone \cup racing
    BY <1>2 DEF SessionInv, Found
<1> HIDE DEF gone
<1>5. \A s \in Sessions : /\ state'[s] = "active" => state[s] = "active" /\ s \notin gone
                         /\ Unused(s)' <=> Unused(s)
    BY <1>1 DEF SessionInv, SessionTypeOK, Unused
<1>6. \A f : Working(state', family', f) \subseteq Working(state, family, f) \ gone
    BY <1>1, <1>5 DEF Working
<1>7. Named'
    BY <1>1, <1>5 DEF SessionInv, SessionTypeOK, Named
<1>8. Known'
    <2>1. family[token[r]] \in Sessions /\ ~Unused(family[token[r]])
        BY <1>2 DEF SessionInv, Named
    <2>2. \A f \in detected' : f \in Sessions /\ state[f] # "none"
        BY <1>1, <2>1 DEF SessionInv, SessionTypeOK, Known, Unused
    <2> QED
        BY <1>5, <2>2 DEF Known, Unused
<1>9. Holding'
    BY <1>3, <1>5 DEF SessionInv, SessionTypeOK, Holding, Busy, Unused
<1>10. Rotating'
    BY <1>1, <1>3, SessionConstants DEF SessionInv, SessionTypeOK, Rotating
<1>11. Found'
    BY <1>1, <1>3, <1>6 DEF SessionInv, Found
<1>12. OneActivePerFamily'
    BY <1>1, <1>5 DEF SessionInv, OneActivePerFamily
<1>13. ReuseLeavesOnlyRacers'
    BY <1>1, <1>4, <1>6 DEF SessionInv, ReuseLeavesOnlyRacers, ActiveIn, Working
<1> QED
    BY <1>7, <1>8, <1>9, <1>10, <1>11, <1>12, <1>13 DEF Rest

LEMMA FindStep ==
    ASSUME SessionInv, NEW r \in Requests, RevokeFind(r)
    PROVE  Rest'
<1>1. UNCHANGED <<state, family, token, detected, racing>>
    BY DEF RevokeFind, rowVars, history
<1>2. /\ stage[r] = "reuse" /\ stage'[r] = "revoke"
      /\ targets'[r] = Working(state, family, family[token[r]])
      /\ \A x \in Requests \ {r} : stage'[x] = stage[x] /\ targets'[x] = targets[x]
    BY DEF SessionInv, SessionTypeOK, RevokeFind, Targets, ActiveIn, Working
<1>3. \A f : Working(state', family', f) = Working(state, family, f)
    BY <1>1 DEF Working
<1>4. Holding'
    BY <1>1, <1>2 DEF SessionInv, Holding, Busy, Working, Unused
<1>5. Found'
    BY <1>1, <1>2, <1>3 DEF SessionInv, Found
<1>6. Rotating'
    BY <1>1, <1>2 DEF SessionInv, Rotating
<1>7. Named' /\ Known' /\ OneActivePerFamily' /\ ReuseLeavesOnlyRacers'
    BY <1>1, <1>3 DEF SessionInv, Named, Known, Unused, OneActivePerFamily,
                        ReuseLeavesOnlyRacers, ActiveIn, Working
<1> QED
    BY <1>4, <1>5, <1>6, <1>7 DEF Rest

LEMMA LockStep ==
    ASSUME SessionInv, NEW r \in Requests, NEW s \in Sessions, RefreshLock(r, s)
    PROVE  Rest'
<1>1. UNCHANGED <<state, family, targets, detected, racing>>
    BY DEF RefreshLock, rowVars, history
<1>2. /\ stage'[r] = IF state[s] = "active" THEN "rotate" ELSE "reuse"
      /\ token'[r] = s /\ ~Unused(s)
      /\ \A x \in Requests \ {r} : stage'[x] = stage[x] /\ token'[x] = token[x]
    BY DEF SessionInv, SessionTypeOK, RefreshLock
<1>3. \A f : Working(state', family', f) = Working(state, family, f)
    BY <1>1 DEF Working
<1>4. Holding'
    BY <1>1, <1>2 DEF SessionInv, Holding, Busy, Unused
<1>5. Found'
    BY <1>1, <1>2, <1>3 DEF SessionInv, Found
<1>6. Rotating'
    BY <1>1, <1>2 DEF SessionInv, Rotating
<1>7. Named' /\ Known' /\ OneActivePerFamily' /\ ReuseLeavesOnlyRacers'
    BY <1>1, <1>3 DEF SessionInv, Named, Known, Unused, OneActivePerFamily,
                        ReuseLeavesOnlyRacers, ActiveIn, Working
<1> QED
    BY <1>4, <1>5, <1>6, <1>7 DEF Rest

LEMMA LogoutStep ==
    ASSUME SessionInv, SessionTypeOK', NEW s \in Sessions, Logout(s)
    PROVE  Rest'
<1>1. /\ {s} \in SUBSET Sessions /\ \A x \in {s} : ~Unused(x)
      /\ state' = [x \in Sessions |-> IF x \in {s} THEN "revoked" ELSE state[x]]
      /\ UNCHANGED <<family, racing, detected, stage, token, targets>> /\ lock[s] = NoRequest
    <2>1. state' = [state EXCEPT ![s] = "revoked"] /\ state[s] = "active" /\ lock[s] = NoRequest
        BY DEF Logout, RowFree
    <2>2. UNCHANGED <<family, racing, detected, stage, token, targets>>
        BY DEF Logout, requestVars, history
    <2>3. state' = [x \in Sessions |-> IF x \in {s} THEN "revoked" ELSE state[x]]
        BY <2>1 DEF SessionInv, SessionTypeOK
    <2> QED
        BY <2>1, <2>2, <2>3 DEF Unused
<1>2. /\ Named' /\ Known' /\ OneActivePerFamily' /\ ReuseLeavesOnlyRacers'
      /\ \A x \in Sessions : Unused(x)' <=> Unused(x)
      /\ \A f : Working(state', family', f) \subseteq Working(state, family, f) \ {s}
    BY <1>1, OnlyRevokes
<1>3. Holding'
    BY <1>1, <1>2 DEF SessionInv, SessionTypeOK, Holding, Busy
<1>4. Rotating'
    BY <1>1, SessionConstants DEF SessionInv, SessionTypeOK, Rotating
<1>5. Found'
    BY <1>1, <1>2 DEF SessionInv, Found
<1> QED
    BY <1>2, <1>3, <1>4, <1>5 DEF Rest

LEMMA IdleStep ==
    ASSUME SessionInv, UNCHANGED <<state, family, stage, token, targets, detected, racing>>
    PROVE  Rest'
<1>1. \A f : Working(state', family', f) = Working(state, family, f)
    BY DEF Working
<1> QED
    BY <1>1 DEF SessionInv, Rest, Named, Known, Holding, Rotating, Found, OneActivePerFamily,
               ReuseLeavesOnlyRacers, ActiveIn, Working, Unused

LEMMA SessionStep == SessionInv /\ [SessionNext]_sessionVars => SessionInv'
<1> SUFFICES ASSUME SessionInv, [SessionNext]_sessionVars PROVE Rest'
    BY SessionTypeStep DEF SessionInv, Rest
<1>0. SessionTypeOK'
    BY SessionTypeStep
<1>1. ASSUME NEW s \in Sessions, Login(s) PROVE Rest'
    BY <1>1, LoginStep
<1>2. ASSUME NEW s \in Sessions, Logout(s) PROVE Rest'
    BY <1>0, <1>2, LogoutStep
<1>3. CASE Disable
    <2>1. UNCHANGED <<state, family, stage, token, targets, detected, racing>>
        BY <1>3 DEF Disable, requestVars, history
    <2> QED
        BY <2>1, IdleStep
<1>4. ASSUME NEW r \in Requests, NEW s \in Sessions, RefreshLock(r, s) PROVE Rest'
    BY <1>4, LockStep
<1>5. ASSUME NEW r \in Requests, NEW n \in Sessions, Rotate(r, n) PROVE Rest'
    BY <1>5, RotateStep
<1>6. ASSUME NEW r \in Requests, Retire(r) PROVE Rest'
    <2> DEFINE gone == {token[r]}
    <2>0. /\ token[r] \in Sessions /\ ~Unused(token[r]) /\ lock[token[r]] = r
          /\ state' = [state EXCEPT ![token[r]] = "revoked"]
          /\ state \in [Sessions -> SessionStates]
        BY <1>6 DEF SessionInv, SessionTypeOK, Holding, Retire, Busy
    <2>1. /\ gone \in SUBSET Sessions /\ \A s \in gone : ~Unused(s) /\ lock[s] \in {NoRequest, r}
          /\ state' = [s \in Sessions |-> IF s \in gone THEN "revoked" ELSE state[s]]
          /\ UNCHANGED <<family, racing, detected>> /\ Finish(r)
        BY <1>6, <2>0 DEF Retire, history
    <2> HIDE DEF gone
    <2> QED
        BY <1>0, <2>1, EndStep
<1>7. ASSUME NEW r \in Requests, RevokeFind(r) PROVE Rest'
    BY <1>7, FindStep
<1>8. ASSUME NEW r \in Requests, RevokeCommit(r) PROVE Rest'
    BY <1>0, <1>8, RevokeCommitStep
<1>9. ASSUME NEW r \in Requests, AbortRefresh(r) PROVE Rest'
    <2> DEFINE gone == {s \in Sessions : FALSE}
    <2>1. /\ gone \in SUBSET Sessions /\ \A s \in gone : ~Unused(s) /\ lock[s] \in {NoRequest, r}
          /\ state' = [s \in Sessions |-> IF s \in gone THEN "revoked" ELSE state[s]]
          /\ UNCHANGED <<family, racing, detected>> /\ Finish(r)
        BY <1>9 DEF SessionInv, SessionTypeOK, AbortRefresh, rowVars, history
    <2> HIDE DEF gone
    <2> QED
        BY <1>0, <2>1, EndStep
<1>10. CASE UNCHANGED sessionVars
    <2>1. UNCHANGED <<state, family, stage, token, targets, detected, racing>>
        BY <1>10 DEF sessionVars, rowVars, requestVars, history
    <2> QED
        BY <2>1, IdleStep
<1> QED
    BY <1>1, <1>2, <1>3, <1>4, <1>5, <1>6, <1>7, <1>8, <1>9, <1>10 DEF SessionNext

LEMMA SessionStart == SessionInit => SessionInv
<1> SUFFICES ASSUME SessionInit PROVE Rest
    BY SessionTypeInit DEF SessionInv, Rest
<1> QED
    BY DEF SessionInit, Rest, Named, Known, Holding, Rotating, Found, Unused, Busy,
           OneActivePerFamily, ReuseLeavesOnlyRacers

LEMMA SessionInvariance == SessionSpec => []SessionInv
BY SessionStart, SessionStep, PTL DEF SessionSpec

(* The sessions, their links and the locks of the requests stay well typed *)
(* (app/modules/auth/service.py).                                          *)
THEOREM SessionTypeCorrect == SessionSpec => []SessionTypeOK
<1>1. SessionInv => SessionTypeOK
    BY DEF SessionInv
<1> QED
    BY <1>1, SessionInvariance, PTL

(* However many requests present tokens of a family at once, one session   *)
(* of it at most is active (refresh_session).                              *)
THEOREM OneActiveHolds == SessionSpec => []OneActivePerFamily
<1>1. SessionInv => OneActivePerFamily
    BY DEF SessionInv
<1> QED
    BY <1>1, SessionInvariance, PTL

(* After a reuse was answered, what is active in its family goes back to a *)
(* rotation between the revocation's snapshot and its commit               *)
(* (refresh_session).                                                      *)
THEOREM ReuseRevokesAllButRacers == SessionSpec => []ReuseLeavesOnlyRacers
<1>1. SessionInv => ReuseLeavesOnlyRacers
    BY DEF SessionInv
<1> QED
    BY <1>1, SessionInvariance, PTL

-----------------------------------------------------------------------------
(* Who waits for whom. Only the UPDATE of a family waits while it holds a  *)
(* row: the lookup of a token holds nothing yet.                           *)

WaitsOn(r) ==
    IF stage[r] = "revoke" THEN {lock[s] : s \in targets[r]} \ {NoRequest, r} ELSE {}

NoCircle == \A S \in SUBSET Requests : S # {} => \E r \in S : WaitsOn(r) \cap S = {}

(* A request holds the row of its token and no other, and one that answers *)
(* a reuse holds a row that nothing makes active again.                    *)
LockedByToken == \A s \in Sessions : lock[s] # NoRequest =>
    token[lock[s]] = s /\ stage[lock[s]] \in Busy
Answering == \A r \in Requests : stage[r] \in {"reuse", "revoke"} => state[token[r]] = "revoked"

WaitInv == LockedByToken /\ Answering /\ NoCircle

(* Who waits on a request that itself waits on nobody closes no circle.    *)
LEMMA NoNewCircle ==
    ASSUME NoCircle, NEW r \in Requests, WaitsOn(r)' = {},
           \A y \in Requests \ {r} : WaitsOn(y)' \subseteq WaitsOn(y) \cup {r}
    PROVE  NoCircle'
<1> SUFFICES ASSUME NEW S \in SUBSET Requests, S # {}
             PROVE  \E y \in S : WaitsOn(y)' \cap S = {}
    BY DEF NoCircle
<1>1. CASE r \in S
    BY <1>1
<1>2. CASE r \notin S
    <2>1. PICK y \in S : WaitsOn(y) \cap S = {}
        BY DEF NoCircle
    <2> QED
        BY <1>2, <2>1
<1> QED
    BY <1>1, <1>2

LEMMA EndWaits ==
    ASSUME SessionTypeOK, WaitInv, NEW r \in Requests, Finish(r),
           \A s \in Sessions : state[s] = "revoked" => state'[s] = "revoked"
    PROVE  WaitInv'
<1>1. /\ stage'[r] = "done" /\ \A x \in Requests \ {r} :
            stage'[x] = stage[x] /\ token'[x] = token[x] /\ targets'[x] = targets[x]
      /\ \A s \in Sessions : lock'[s] = IF lock[s] = r THEN NoRequest ELSE lock[s]
    BY FinishFrees DEF Finish
<1>2. LockedByToken'
    <2> SUFFICES ASSUME NEW s \in Sessions, lock'[s] # NoRequest
                 PROVE  token'[lock'[s]] = s /\ stage'[lock'[s]] \in Busy
        BY DEF LockedByToken
    <2>1. lock[s] \in Requests \ {r} /\ lock'[s] = lock[s]
        BY <1>1 DEF SessionTypeOK
    <2> QED
        BY <1>1, <2>1, SessionConstants DEF WaitInv, LockedByToken
<1>3. Answering'
    <2> SUFFICES ASSUME NEW x \in Requests, stage'[x] \in {"reuse", "revoke"}
                 PROVE  state'[token'[x]] = "revoked"
        BY DEF Answering
    <2>1. x # r /\ stage[x] \in {"reuse", "revoke"} /\ token'[x] = token[x]
        BY <1>1
    <2> QED
        BY <2>1 DEF WaitInv, Answering, SessionTypeOK
<1>4. NoCircle'
    <2>1. WaitsOn(r)' = {}
        BY <1>1 DEF WaitsOn
    <2>2. ASSUME NEW y \in Requests \ {r} PROVE WaitsOn(y)' \subseteq WaitsOn(y)
        BY <1>1 DEF WaitsOn, SessionTypeOK
    <2> QED
        BY <2>1, <2>2, NoNewCircle DEF WaitInv
<1> QED
    BY <1>2, <1>3, <1>4 DEF WaitInv

LEMMA WaitStep == SessionInv /\ WaitInv /\ [SessionNext]_sessionVars => WaitInv'
<1> SUFFICES ASSUME SessionTypeOK, Holding, Rotating, WaitInv, [SessionNext]_sessionVars
             PROVE  WaitInv'
    BY DEF SessionInv
(* New and ended sessions.                                                 *)
<1>1. ASSUME UNCHANGED requestVars,
             \A s \in Sessions : state[s] = "revoked" => state'[s] = "revoked"
      PROVE  WaitInv'
    <2>1. UNCHANGED <<lock, stage, token, targets>>
        BY <1>1 DEF requestVars
    <2>2. \A r \in Requests : WaitsOn(r)' = WaitsOn(r)
        BY <2>1 DEF WaitsOn
    <2>3. Answering'
        BY <1>1, <2>1 DEF WaitInv, Answering, SessionTypeOK
    <2> QED
        BY <2>1, <2>2, <2>3 DEF WaitInv, LockedByToken, NoCircle
<1>2. ASSUME NEW s \in Sessions, Login(s) \/ Logout(s) PROVE WaitInv'
    BY <1>1, <1>2 DEF Login, Logout, NextRow, Unused, SessionTypeOK
<1>3. ASSUME Disable PROVE WaitInv'
    BY <1>1, <1>3 DEF Disable
<1>4. ASSUME NEW r \in Requests, NEW s \in Sessions, RefreshLock(r, s) PROVE WaitInv'
    <2>1. /\ stage'[r] = (IF state[s] = "active" THEN "rotate" ELSE "reuse")
          /\ token'[r] = s /\ lock[s] = NoRequest /\ lock' = [lock EXCEPT ![s] = r]
          /\ stage[r] = "new" /\ state[s] \in {"active", "revoked"}
          /\ \A x \in Requests \ {r} : stage'[x] = stage[x] /\ token'[x] = token[x]
          /\ UNCHANGED <<state, targets>>
        BY <1>4 DEF RefreshLock, RowFree, rowVars, SessionTypeOK, Unused, SessionStates
    <2>2. /\ lock'[s] = r /\ \A x \in Sessions \ {s} : lock'[x] = lock[x]
        BY <2>1 DEF SessionTypeOK
    <2>3. LockedByToken'
        <3> SUFFICES ASSUME NEW x \in Sessions, lock'[x] # NoRequest
                     PROVE  token'[lock'[x]] = x /\ stage'[lock'[x]] \in Busy
            BY DEF LockedByToken
        <3>1. CASE x = s
            BY <2>1, <2>2, <3>1 DEF Busy
        <3>2. CASE x # s
            <4>1. /\ lock'[x] = lock[x] /\ lock[x] \in Requests
                  /\ token[lock[x]] = x /\ stage[lock[x]] \in Busy
                BY <2>2, <3>2 DEF WaitInv, LockedByToken, SessionTypeOK
            <4>2. lock[x] # r
                BY <2>1, <4>1 DEF Busy
            <4> QED
                BY <2>1, <4>1, <4>2
        <3> QED
            BY <3>1, <3>2
    <2>4. Answering'
        BY <2>1 DEF WaitInv, Answering
    <2>5. NoCircle'
        <3>1. WaitsOn(r)' = {}
            BY <2>1 DEF WaitsOn
        <3>2. ASSUME NEW y \in Requests \ {r} PROVE WaitsOn(y)' \subseteq WaitsOn(y) \cup {r}
            BY <2>1, <2>2 DEF WaitsOn, SessionTypeOK
        <3> QED
            BY <3>1, <3>2, NoNewCircle DEF WaitInv
    <2> QED
        BY <2>3, <2>4, <2>5 DEF WaitInv
<1>5. ASSUME NEW r \in Requests, NEW n \in Sessions, Rotate(r, n) PROVE WaitInv'
    <2>1. \A s \in Sessions : state[s] = "revoked" => state'[s] = "revoked"
        BY <1>5 DEF Rotate, NextRow, Unused, SessionTypeOK
    <2> QED
        BY <1>5, <2>1, EndWaits DEF Rotate
<1>6. ASSUME NEW r \in Requests, Retire(r) PROVE WaitInv'
    <2>1. \A s \in Sessions : state[s] = "revoked" => state'[s] = "revoked"
        BY <1>6 DEF Retire, SessionTypeOK
    <2> QED
        BY <1>6, <2>1, EndWaits DEF Retire
(* What the revocation finds is active, so who holds it is rotating it.    *)
<1>7. ASSUME NEW r \in Requests, RevokeFind(r) PROVE WaitInv'
    <2>1. /\ stage[r] = "reuse" /\ stage'[r] = "revoke" /\ targets'[r] \subseteq Sessions
          /\ \A s \in targets'[r] : state[s] = "active"
          /\ \A x \in Requests \ {r} : stage'[x] = stage[x] /\ targets'[x] = targets[x]
          /\ UNCHANGED <<state, lock, token>>
        BY <1>7 DEF RevokeFind, Targets, ActiveIn, rowVars, SessionTypeOK
    <2>2. \A x \in Requests \ {r} : WaitsOn(x)' = WaitsOn(x)
        BY <2>1 DEF WaitsOn
    <2>3. \A x \in WaitsOn(r)' : x \in Requests \ {r} /\ WaitsOn(x)' = {}
        <3> SUFFICES ASSUME NEW s \in targets'[r], lock[s] \notin {NoRequest, r}
                     PROVE  lock[s] \in Requests \ {r} /\ WaitsOn(lock[s])' = {}
            BY <2>1 DEF WaitsOn
        <3>1. /\ lock[s] \in Requests \ {r} /\ token[lock[s]] = s /\ state[s] = "active"
            BY <2>1 DEF WaitInv, LockedByToken, SessionTypeOK
        <3>2. stage'[lock[s]] # "revoke"
            BY <2>1, <3>1 DEF WaitInv, Answering
        <3>3. PICK x \in Requests : x = lock[s]
            BY <3>1
        <3>4. WaitsOn(x)' = {}
            BY <3>2, <3>3 DEF WaitsOn
        <3> QED
            BY <2>1, <3>1, <3>3, <3>4
    <2>4. NoCircle'
        <3> SUFFICES ASSUME NEW S \in SUBSET Requests, S # {}
                     PROVE  \E y \in S : WaitsOn(y)' \cap S = {}
            BY DEF NoCircle
        <3>1. CASE r \notin S
            <4>1. PICK y \in S : WaitsOn(y) \cap S = {}
                BY DEF WaitInv, NoCircle
            <4> QED
                BY <2>2, <3>1, <4>1
        <3>2. CASE r \in S /\ WaitsOn(r)' \cap S = {}
            BY <3>2
        <3>3. CASE r \in S /\ WaitsOn(r)' \cap S # {}
            BY <2>3, <3>3
        <3> QED
            BY <3>1, <3>2, <3>3
    <2>5. LockedByToken'
        <3> SUFFICES ASSUME NEW s \in Sessions, lock[s] # NoRequest
                     PROVE  token[lock[s]] = s /\ stage'[lock[s]] \in Busy
            BY <2>1 DEF LockedByToken
        <3> QED
            BY <2>1 DEF WaitInv, LockedByToken, SessionTypeOK, Busy
    <2>6. Answering'
        BY <2>1 DEF WaitInv, Answering
    <2> QED
        BY <2>4, <2>5, <2>6 DEF WaitInv
<1>8. ASSUME NEW r \in Requests, RevokeCommit(r) PROVE WaitInv'
    <2>1. \A s \in Sessions : state[s] = "revoked" => state'[s] = "revoked"
        BY <1>8 DEF RevokeCommit
    <2> QED
        BY <1>8, <2>1, EndWaits DEF RevokeCommit
<1>9. ASSUME NEW r \in Requests, AbortRefresh(r) PROVE WaitInv'
    BY <1>9, EndWaits DEF AbortRefresh, rowVars
<1>10. CASE UNCHANGED sessionVars
    BY <1>1, <1>10 DEF sessionVars, rowVars
<1> QED
    BY <1>2, <1>3, <1>4, <1>5, <1>6, <1>7, <1>8, <1>9, <1>10 DEF SessionNext

(* However many requests answer reuses and rotate beside each other, they  *)
(* never wait in a circle: refresh_session needs no deadlock detection     *)
(* (the SELECT ... FOR UPDATE and the UPDATE of the family).               *)
THEOREM SessionsNeverDeadlock == SessionSpec => []NoCircle
<1>1. SessionInit => WaitInv
    <2> SUFFICES ASSUME SessionInit PROVE WaitInv
        OBVIOUS
    <2>1. \A r \in Requests : WaitsOn(r) = {}
        BY DEF SessionInit, WaitsOn
    <2>2. LockedByToken /\ Answering
        BY DEF SessionInit, LockedByToken, Answering
    <2> QED
        BY <2>1, <2>2 DEF WaitInv, NoCircle
<1>2. WaitInv => NoCircle
    BY DEF WaitInv
<1> QED
    BY <1>1, <1>2, WaitStep, SessionInvariance, PTL DEF SessionSpec
====
