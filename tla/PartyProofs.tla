---- MODULE PartyProofs ----
(***************************************************************************)
(* The orders of Party, for any number of parties, guests, calls, variants *)
(* and orders. The invariant says what a call may rely on once it has the  *)
(* party's row, why an ordered cart stays as it is (only an active party   *)
(* can be edited, and no ordered party is active again), and what a        *)
(* checkout may rely on once it has locked a balance.                      *)
(***************************************************************************)
EXTENDS Party, FiniteSetTheorems, TLAPS

(* What a call read under the lock is still so.                            *)
Working(c) ==
    call[c] # Idle =>
        /\ call[c].op \in Ops /\ call[c].party \in Parties
        /\ lock[call[c].party] = c
        /\ status[call[c].party] \in Allowed(call[c].op)
        /\ call[c].items = [m \in MembersOf(call[c].party) |-> cart[m]]

EmptySeats == \A m \in Seats : seat[m].party = Nobody => seat[m] = NoSeat /\ cart[m] = NoItems
ClosedOnceOrdered == \A p \in Parties : OrdersOf(p) # {} => status[p] \in {"locked", "ordered"}
OrdersCounted == \A p \in Parties :
    Cardinality(OrdersOf(p)) <= relocked[p] + (IF status[p] = "ordered" THEN 1 ELSE 0)
UnplacedIsEmpty == \A n \in Orders : orderOf[n] = Nobody => taken[n] = NoItems
StockCovers == \A v \in Variants : reserved[v] <= OnHand[v]

Matches(p) ==
    \A n \in OrdersOf(p) : \A v \in Variants :
        taken[n][v] = Total([m \in MembersOf(p) |-> cart[m][v]], MaxQty[v])

PartyInv ==
    /\ TypeOK
    /\ \A c \in Calls : Working(c)
    /\ EmptySeats /\ ClosedOnceOrdered /\ OrdersCounted /\ UnplacedIsEmpty /\ StockCovers
    /\ \A p \in Parties : Matches(p)

(* What a checkout has reserved is its own, and is still there.            *)
Reserving(c) ==
    call[c].op = "checkout" =>
        /\ Wanted(call[c].items) # {}
        /\ \A v \in Wanted(call[c].items) \ call[c].left : balance[v] = c /\ InStock(c, v)

OrderInv == PartyInv /\ \A c \in Calls : Reserving(c)

-----------------------------------------------------------------------------
(* Parts of steps. Leaving gives the row back and touches no other call.   *)

LEMMA LeaveFrame ==
    ASSUME TypeOK, NEW c \in Calls, Leave(c)
    PROVE  /\ lock' \in [Parties -> Calls \cup {Nobody}]
           /\ balance' \in [Variants -> Calls \cup {Nobody}]
           /\ DOMAIN call' = Calls
           /\ call'[c] = Idle
           /\ \A d \in Calls \ {c} :
                /\ call'[d] = call[d]
                /\ \A p \in Parties : lock[p] = d => lock'[p] = d
                /\ \A v \in Variants : balance[v] = d => balance'[v] = d
BY DEF TypeOK, Leave

(* What a step has to leave alone for another call: its party.             *)
Respects(d) ==
    /\ call'[d] = call[d]
    /\ call[d] # Idle =>
        /\ lock'[call[d].party] = lock[call[d].party]
        /\ status'[call[d].party] = status[call[d].party]
        /\ MembersOf(call[d].party)' = MembersOf(call[d].party)
        /\ \A m \in MembersOf(call[d].party) : cart'[m] = cart[m]

LEMMA Respected ==
    ASSUME NEW d \in Calls, Working(d), Respects(d)
    PROVE  Working(d)'
<1>1. CASE call[d] = Idle
    BY <1>1 DEF Working, Respects, Idle
<1>2. CASE call[d] # Idle
    <2>1. PICK q \in Parties : q = call[d].party
        BY <1>2 DEF Working
    <2> DEFINE M == {m \in Seats : seat'[m].party = q}
    <2>2. /\ call'[d] = call[d] /\ lock'[q] = lock[q] /\ status'[q] = status[q]
          /\ M = MembersOf(q) /\ \A m \in M : cart'[m] = cart[m]
        BY <1>2, <2>1 DEF Respects, MembersOf
    <2>3. /\ call[d].op \in Ops /\ lock[q] = d
          /\ status[q] \in Allowed(call[d].op)
          /\ call[d].items = [m \in MembersOf(q) |-> cart[m]]
        BY <1>2, <2>1 DEF Working
    <2>4. call[d].items = [m \in M |-> cart'[m]]
        BY <2>2, <2>3
    <2> QED
        BY <2>1, <2>2, <2>3, <2>4 DEF Working, MembersOf
<1> QED
    BY <1>1, <1>2

LEMMA IdleWorks ==
    ASSUME NEW c, call'[c] = Idle
    PROVE  Working(c)'
BY DEF Working, Idle

(* A step that leaves the cart and the orders of a party alone.            *)
Untouched(p) ==
    /\ OrdersOf(p)' = OrdersOf(p) /\ \A n \in OrdersOf(p) : taken'[n] = taken[n]
    /\ MembersOf(p)' = MembersOf(p) /\ \A m \in MembersOf(p) : cart'[m] = cart[m]

LEMMA UntouchedMatches ==
    ASSUME NEW p \in Parties, Matches(p), Untouched(p)
    PROVE  Matches(p)'
<1> SUFFICES ASSUME NEW n \in OrdersOf(p)', NEW v \in Variants
             PROVE  taken'[n][v] = Total([m \in MembersOf(p)' |-> cart'[m][v]], MaxQty[v])
    BY DEF Matches, MembersOf, OrdersOf, Total, Units
<1>1. [m \in MembersOf(p)' |-> cart'[m][v]] = [m \in MembersOf(p) |-> cart[m][v]]
    BY DEF Untouched
<1>2. n \in OrdersOf(p) /\ taken'[n] = taken[n]
    BY DEF Untouched
<1> QED
    BY <1>1, <1>2 DEF Matches

(* A participant without items adds nothing to what was ordered.           *)
LEMMA EmptySeatAddsNothing ==
    ASSUME NEW S, NEW x, x \notin S, NEW f, f[x] = 0, NEW M \in Nat
    PROVE  Total([m \in S \cup {x} |-> f[m]], M) = Total([m \in S |-> f[m]], M)
<1>1. Units([m \in S \cup {x} |-> f[m]], M) = Units([m \in S |-> f[m]], M)
    BY DEF Units
<1> QED
    BY <1>1 DEF Total

(* What TypeOK says of a call.                                             *)
Typed(k) ==
    /\ DOMAIN k = DOMAIN Idle
    /\ k.op \in Ops \cup {"none"}
    /\ k.users \subseteq Users \cup {Nobody}
    /\ DOMAIN k.items \subseteq Seats
    /\ k.left \subseteq Variants
    /\ k # Idle => k.party \in Parties

LEMMA CallsTyped ==
    TypeOK => DOMAIN call = Calls
              /\ \A c \in Calls : Typed(call[c]) /\ (call[c] # Idle => lock[call[c].party] = c)
BY DEF TypeOK, Typed

LEMMA IdleTyped == Typed(Idle)
BY DEF Typed, Idle

(* What follows for the calls when one of them leaves.                     *)
LEMMA OneLeaves ==
    ASSUME PartyInv, NEW c \in Calls, Leave(c), \A d \in Calls \ {c} : Respects(d)
    PROVE  /\ lock' \in [Parties -> Calls \cup {Nobody}] /\ DOMAIN call' = Calls
           /\ balance' \in [Variants -> Calls \cup {Nobody}]
           /\ \A d \in Calls : Typed(call'[d]) /\ (call'[d] # Idle => lock'[call'[d].party] = d)
           /\ \A d \in Calls : Working(d)'
<1>1. /\ lock' \in [Parties -> Calls \cup {Nobody}]
      /\ balance' \in [Variants -> Calls \cup {Nobody}]
      /\ DOMAIN call' = Calls /\ call'[c] = Idle
      /\ \A d \in Calls \ {c} : call'[d] = call[d]
    BY LeaveFrame DEF PartyInv
<1>2. \A d \in Calls : Working(d)'
    BY <1>1, Respected, IdleWorks DEF PartyInv
<1>3. \A d \in Calls : Typed(call'[d])
    BY <1>1, IdleTyped, CallsTyped DEF PartyInv
<1>4. ASSUME NEW d \in Calls, call'[d] # Idle PROVE lock'[call'[d].party] = d
    BY <1>2, <1>4 DEF Working
<1> QED
    BY <1>1, <1>2, <1>3, <1>4

(* A row that another call holds stays with it.                            *)
LEMMA OthersRow ==
    ASSUME PartyInv, NEW c \in Calls, call[c] # Idle, Leave(c),
           NEW d \in Calls \ {c}, call[d] # Idle
    PROVE  /\ call[c].party \in Parties /\ call[d].party \in Parties
           /\ call[d].party # call[c].party
           /\ lock'[call[d].party] = lock[call[d].party]
           /\ call'[d] = call[d]
<1>1. Working(c) /\ Working(d)
    BY DEF PartyInv
<1>2. call[c].party \in Parties /\ lock[call[c].party] = c
    BY <1>1 DEF Working
<1>3. call[d].party \in Parties /\ lock[call[d].party] = d
    BY <1>1 DEF Working
<1> QED
    BY <1>2, <1>3, LeaveFrame DEF PartyInv

(* Steps that touch neither room, cart nor stock.                          *)
LEMMA QuietStep ==
    ASSUME PartyInv, UNCHANGED <<roomVars, cart, stockVars>>, packs' \subseteq Bundles,
           lock' \in [Parties -> Calls \cup {Nobody}], DOMAIN call' = Calls,
           balance' \in [Variants -> Calls \cup {Nobody}],
           \A d \in Calls : Typed(call'[d]) /\ Working(d)'
    PROVE  PartyInv'
<1>1. UNCHANGED <<status, host, seat, relocked, cart, reserved, taken, orderOf>>
    BY DEF roomVars, stockVars
<1>2. TypeOK'
    BY <1>1 DEF PartyInv, TypeOK, Typed, Working
<1>3. /\ EmptySeats' /\ ClosedOnceOrdered' /\ OrdersCounted'
      /\ UnplacedIsEmpty' /\ StockCovers'
    BY <1>1 DEF PartyInv, EmptySeats, ClosedOnceOrdered, OrdersCounted, UnplacedIsEmpty,
                StockCovers, OrdersOf
<1>4. \A p \in Parties : Matches(p)'
    BY <1>1, UntouchedMatches DEF PartyInv, Untouched, OrdersOf, MembersOf
<1> QED
    BY <1>2, <1>3, <1>4 DEF PartyInv

-----------------------------------------------------------------------------
(* One step keeps the invariant.                                           *)

LEMMA IdleStep ==
    ASSUME PartyInv, UNCHANGED vars
    PROVE  PartyInv'
<1>1. UNCHANGED <<roomVars, cart, packs, stockVars, lock, balance, call>>
    BY DEF vars, locks
<1>2. \A d \in Calls : Working(d)'
    BY <1>1, Respected DEF PartyInv, Respects, MembersOf, roomVars
<1> QED
    BY <1>1, <1>2, QuietStep, CallsTyped DEF PartyInv, TypeOK

LEMMA CreatePackKeeps ==
    ASSUME PartyInv, NEW k \in Bundles, CreatePack(k)
    PROVE  PartyInv'
<1>1. UNCHANGED <<roomVars, cart, stockVars, lock, balance, call>> /\ packs' \subseteq Bundles
    BY DEF CreatePack, PartyInv, TypeOK, locks
<1>2. \A d \in Calls : Working(d)'
    BY <1>1, Respected DEF PartyInv, Respects, MembersOf, roomVars
<1> QED
    BY <1>1, <1>2, QuietStep, CallsTyped DEF PartyInv, TypeOK

LEMMA AbortKeeps ==
    ASSUME PartyInv, NEW c \in Calls, Abort(c)
    PROVE  PartyInv'
<1>1. UNCHANGED <<roomVars, cart, packs, stockVars>> /\ Leave(c) /\ call[c] # Idle
    BY DEF Abort
<1>2. ASSUME NEW d \in Calls \ {c} PROVE Respects(d)
    BY <1>1, OthersRow, LeaveFrame DEF PartyInv, Respects, MembersOf, roomVars
<1> QED
    BY <1>1, <1>2, OneLeaves, QuietStep DEF PartyInv, TypeOK

LEMMA EnterKeeps ==
    ASSUME PartyInv, NEW c \in Calls, NEW op \in Ops, NEW p \in Parties, Enter(c, op, p)
    PROVE  PartyInv'
<1> DEFINE i == [m \in MembersOf(p) |-> cart[m]]
           k == [op |-> op, party |-> p,
                 users |-> {seat[m].user : m \in MembersOf(p)}, items |-> i,
                 left |-> IF op = "checkout" THEN Wanted(i) ELSE {}]
<1>1. /\ UNCHANGED <<roomVars, cart, packs, stockVars, balance>> /\ lock[p] = Nobody
      /\ lock' = [lock EXCEPT ![p] = c] /\ call' = [call EXCEPT ![c] = k]
      /\ status[p] \in Allowed(op) /\ call[c] = Idle
    BY DEF Enter, RowFree
<1>2. MembersOf(p) \subseteq Seats /\ \A m \in Seats : seat[m].user \in Users \cup {Nobody}
    BY DEF MembersOf, PartyInv, TypeOK
<1>3. Typed(k)
    <2>1. DOMAIN k = DOMAIN Idle
        BY DEF Idle
    <2> QED
        BY <1>2, <2>1 DEF Typed, Wanted
<1> HIDE DEF k
<1>4. /\ DOMAIN call' = Calls /\ call'[c] = k
      /\ \A d \in Calls \ {c} : call'[d] = call[d]
    BY <1>1 DEF PartyInv, TypeOK
<1>5. lock' \in [Parties -> Calls \cup {Nobody}] /\ lock'[p] = c
      /\ \A q \in Parties \ {p} : lock'[q] = lock[q]
    BY <1>1 DEF PartyInv, TypeOK
<1>6. ASSUME NEW d \in Calls \ {c} PROVE Working(d)'
    <2>1. Working(d)
        BY DEF PartyInv
    <2>2. call[d] # Idle => call[d].party \in Parties \ {p}
        BY <1>1, <2>1, PartyConstants DEF Working
    <2>3. Respects(d)
        BY <1>1, <1>4, <1>5, <2>2 DEF Respects, MembersOf, roomVars
    <2> QED
        BY <2>1, <2>3, Respected
<1>7. Working(c)'
    <2>1. UNCHANGED <<seat, cart, status>>
        BY <1>1 DEF roomVars
    <2>2. /\ call'[c].op = op /\ call'[c].party = p
          /\ call'[c].items = [m \in MembersOf(p) |-> cart[m]]
        BY <1>4 DEF k
    <2> QED
        BY <1>1, <1>5, <2>1, <2>2 DEF Working, MembersOf
<1>8. \A d \in Calls : Typed(call'[d]) /\ Working(d)'
    BY <1>3, <1>4, <1>6, <1>7, CallsTyped DEF PartyInv
<1>9. packs' \subseteq Bundles /\ balance' \in [Variants -> Calls \cup {Nobody}]
    BY <1>1 DEF PartyInv, TypeOK
<1> QED
    BY <1>1, <1>4, <1>5, <1>8, <1>9, QuietStep

(* A call in the middle of its operation.                                  *)
LEMMA AtWork ==
    ASSUME PartyInv, NEW c \in Calls, call[c].op \in Ops
    PROVE  /\ call[c] # Idle /\ call[c].party \in Parties
           /\ lock[call[c].party] = c
           /\ status[call[c].party] \in Allowed(call[c].op)
           /\ call[c].items = [m \in MembersOf(call[c].party) |-> cart[m]]
<1>1. call[c] # Idle
    BY DEF Idle, Ops
<1> QED
    BY <1>1 DEF PartyInv, Working

(* Somebody takes an empty seat of a party: MembersOf grows by that seat.  *)
LEMMA SeatTaken ==
    ASSUME PartyInv, NEW p \in Parties, NEW m \in Seats, NEW u \in Users \cup {Nobody},
           NEW r \in {"host", "guest"}, NextSeat(m),
           seat' = [seat EXCEPT ![m] = [party |-> p, user |-> u, role |-> r]]
    PROVE  /\ seat' \in [Seats -> [party : Parties \cup {Nobody}, user : Users \cup {Nobody},
                                    role : {"none", "host", "guest"}]]
           /\ m \notin MembersOf(p) /\ MembersOf(p)' = MembersOf(p) \cup {m}
           /\ \A q \in Parties \ {p} : MembersOf(q)' = MembersOf(q)
           /\ cart[m] = NoItems
           /\ cart' = cart => EmptySeats'
<1>1. seat[m] = NoSeat /\ cart[m] = NoItems
    BY DEF NextSeat, PartyInv, EmptySeats, NoSeat
<1>2. seat \in [Seats -> [party : Parties \cup {Nobody}, user : Users \cup {Nobody},
                         role : {"none", "host", "guest"}]]
    BY DEF PartyInv, TypeOK
<1>3. seat[m].party = Nobody /\ seat'[m].party = p
      /\ \A x \in Seats \ {m} : seat'[x] = seat[x]
    BY <1>1, <1>2 DEF NoSeat
<1>4. m \notin MembersOf(p) /\ MembersOf(p)' = MembersOf(p) \cup {m}
      /\ \A q \in Parties \ {p} : MembersOf(q)' = MembersOf(q)
    BY <1>3, PartyConstants DEF MembersOf
<1>5. cart' = cart => EmptySeats'
    BY <1>3, PartyConstants DEF EmptySeats, PartyInv
<1>6. seat' \in [Seats -> [party : Parties \cup {Nobody}, user : Users \cup {Nobody},
                          role : {"none", "host", "guest"}]]
    BY <1>2
<1> QED
    BY <1>1, <1>4, <1>5, <1>6

LEMMA CreateSessionKeeps ==
    ASSUME PartyInv, NEW p \in Parties, NEW u \in Users, NEW m \in Seats, CreateSession(p, u, m)
    PROVE  PartyInv'
<1>1. /\ status[p] = "none" /\ NextSeat(m)
      /\ status' = [status EXCEPT ![p] = "active"] /\ host' = [host EXCEPT ![p] = u]
      /\ seat' = [seat EXCEPT ![m] = [party |-> p, user |-> u, role |-> "host"]]
      /\ UNCHANGED <<cart, packs, reserved, taken, orderOf, relocked, lock, balance, call>>
    BY DEF CreateSession, stockVars, locks
<1>2. /\ seat' \in [Seats -> [party : Parties \cup {Nobody}, user : Users \cup {Nobody},
                               role : {"none", "host", "guest"}]]
      /\ \A q \in Parties \ {p} : MembersOf(q)' = MembersOf(q)
      /\ EmptySeats'
    BY <1>1, SeatTaken
<1>3. TypeOK'
    BY <1>1, <1>2 DEF PartyInv, TypeOK, Statuses
<1>4. ASSUME NEW d \in Calls PROVE Working(d)'
    <2>1. Working(d)
        BY DEF PartyInv
    <2>2. call[d] # Idle => call[d].party \in Parties \ {p}
        BY <1>1, <2>1 DEF Working, Allowed, Joinable, Editable, Orderable, AnyTime, Ops
    <2>3. status \in [Parties -> Statuses]
        BY DEF PartyInv, TypeOK
    <2>4. Respects(d)
        BY <1>1, <1>2, <2>2, <2>3 DEF Respects
    <2> QED
        BY <2>1, <2>4, Respected
<1>5. OrdersOf(p) = {} /\ \A q \in Parties : OrdersOf(q)' = OrdersOf(q)
    BY <1>1 DEF PartyInv, ClosedOnceOrdered, OrdersOf
<1>6. ClosedOnceOrdered' /\ OrdersCounted'
    <2>1. \A q \in Parties \ {p} : status'[q] = status[q]
        BY <1>1 DEF PartyInv, TypeOK
    <2>2. ClosedOnceOrdered'
        BY <1>5, <2>1 DEF PartyInv, ClosedOnceOrdered
    <2>3. Cardinality(OrdersOf(p)) = 0 /\ relocked[p] \in Nat /\ status'[p] = "active"
        BY <1>1, <1>5, FS_EmptySet DEF PartyInv, TypeOK
    <2>4. OrdersCounted'
        BY <1>1, <1>5, <2>1, <2>3 DEF PartyInv, OrdersCounted
    <2> QED
        BY <2>2, <2>4
<1>7. UnplacedIsEmpty' /\ StockCovers'
    BY <1>1 DEF PartyInv, UnplacedIsEmpty, StockCovers
<1>8. ASSUME NEW q \in Parties PROVE Matches(q)'
    <2>1. CASE q = p
        BY <1>5, <2>1 DEF Matches
    <2>2. CASE q # p
        BY <1>1, <1>2, <1>5, <2>2, UntouchedMatches DEF Untouched, PartyInv
    <2> QED
        BY <2>1, <2>2
<1> QED
    BY <1>2, <1>3, <1>4, <1>6, <1>7, <1>8 DEF PartyInv

LEMMA JoinKeeps ==
    ASSUME PartyInv, NEW c \in Calls, NEW u \in Users \cup {Nobody}, NEW m \in Seats, Join(c, u, m)
    PROVE  PartyInv'
<1>0. PICK p \in Parties : p = call[c].party /\ call[c] # Idle
    BY AtWork DEF Join, Ops
<1>1. /\ NextSeat(m) /\ Leave(c)
      /\ seat' = [seat EXCEPT ![m] = [party |-> p, user |-> u, role |-> "guest"]]
      /\ UNCHANGED <<status, host, relocked, cart, packs, reserved, taken, orderOf>>
    BY <1>0 DEF Join, stockVars
<1>2. /\ seat' \in [Seats -> [party : Parties \cup {Nobody}, user : Users \cup {Nobody},
                               role : {"none", "host", "guest"}]]
      /\ m \notin MembersOf(p) /\ MembersOf(p)' = MembersOf(p) \cup {m}
      /\ \A q \in Parties \ {p} : MembersOf(q)' = MembersOf(q)
      /\ cart[m] = NoItems /\ EmptySeats'
    BY <1>1, SeatTaken
<1>3. ASSUME NEW d \in Calls \ {c} PROVE Respects(d)
    BY <1>0, <1>1, <1>2, OthersRow, LeaveFrame DEF PartyInv, Respects
<1>4. /\ lock' \in [Parties -> Calls \cup {Nobody}] /\ DOMAIN call' = Calls
      /\ balance' \in [Variants -> Calls \cup {Nobody}]
      /\ \A d \in Calls : Typed(call'[d]) /\ (call'[d] # Idle => lock'[call'[d].party] = d)
      /\ \A d \in Calls : Working(d)'
    BY <1>1, <1>3, OneLeaves
<1>5. TypeOK'
    BY <1>1, <1>2, <1>4 DEF PartyInv, TypeOK, Typed
<1>6. \A q \in Parties : OrdersOf(q)' = OrdersOf(q)
    BY <1>1 DEF OrdersOf
<1>7. /\ ClosedOnceOrdered' /\ OrdersCounted' /\ UnplacedIsEmpty' /\ StockCovers'
    BY <1>1, <1>6 DEF PartyInv, ClosedOnceOrdered, OrdersCounted, UnplacedIsEmpty, StockCovers
<1>8. Matches(p)'
    <2> SUFFICES ASSUME NEW n \in OrdersOf(p), NEW v \in Variants
                 PROVE  taken[n][v] = Total([x \in MembersOf(p) \cup {m} |-> cart[x][v]], MaxQty[v])
        <3>1. MembersOf(p)' = MembersOf(p) \cup {m} /\ OrdersOf(p)' = OrdersOf(p)
            BY <1>2, <1>6
        <3>2. cart' = cart /\ taken' = taken
            BY <1>1
        <3> QED
            BY <3>1, <3>2 DEF Matches
    <2>1. taken[n][v] = Total([x \in MembersOf(p) |-> cart[x][v]], MaxQty[v])
        BY DEF PartyInv, Matches
    <2> DEFINE f == [x \in Seats |-> cart[x][v]]
    <2>2. f[m] = 0 /\ MaxQty[v] \in Nat
        BY <1>2, PartyConstants DEF NoItems
    <2>3. /\ [x \in MembersOf(p) \cup {m} |-> cart[x][v]] = [x \in MembersOf(p) \cup {m} |-> f[x]]
          /\ [x \in MembersOf(p) |-> cart[x][v]] = [x \in MembersOf(p) |-> f[x]]
        BY DEF MembersOf
    <2> HIDE DEF f
    <2>4. Total([x \in MembersOf(p) \cup {m} |-> f[x]], MaxQty[v])
            = Total([x \in MembersOf(p) |-> f[x]], MaxQty[v])
        BY <1>2, <2>2, EmptySeatAddsNothing
    <2> QED
        BY <2>1, <2>3, <2>4
<1>9. \A q \in Parties \ {p} : Matches(q)'
    BY <1>1, <1>2, <1>6, UntouchedMatches DEF PartyInv, Untouched
<1> QED
    BY <1>2, <1>4, <1>5, <1>7, <1>8, <1>9 DEF PartyInv

(* Items are changed in an active party, which has no order yet.           *)
LEMMA EditKeeps ==
    ASSUME PartyInv, NEW c \in Calls, call[c].op = "edit",
           NEW m \in DOMAIN call[c].items, NEW i \in [Variants -> Nat],
           \A v \in Variants : i[v] <= MaxQty[v],
           cart' = [cart EXCEPT ![m] = i], Leave(c), UNCHANGED <<roomVars, packs, stockVars>>
    PROVE  PartyInv'
<1>0. PICK p \in Parties : p = call[c].party /\ call[c] # Idle
    BY AtWork DEF Ops
<1>1. status[p] = "active" /\ m \in MembersOf(p)
    BY <1>0, AtWork DEF Ops, Allowed, Editable
<1>2. UNCHANGED <<status, host, seat, relocked, packs, reserved, taken, orderOf>>
    BY DEF roomVars, stockVars
<1>3. m \in Seats /\ seat[m].party = p
    BY <1>1 DEF MembersOf
<1>4. /\ cart' \in [Seats -> [Variants -> Nat]] /\ \A x \in Seats \ {m} : cart'[x] = cart[x]
      /\ \A x \in Seats, v \in Variants : cart'[x][v] <= MaxQty[v]
    BY <1>3 DEF PartyInv, TypeOK
<1>5. \A q \in Parties : MembersOf(q)' = MembersOf(q)
    BY <1>2 DEF MembersOf
<1>6. \A q \in Parties \ {p} : \A x \in MembersOf(q) : cart'[x] = cart[x]
    BY <1>3, <1>4 DEF MembersOf
<1>7. ASSUME NEW d \in Calls \ {c} PROVE Respects(d)
    BY <1>0, <1>2, <1>5, <1>6, OthersRow, LeaveFrame DEF PartyInv, Respects
<1>8. /\ lock' \in [Parties -> Calls \cup {Nobody}] /\ DOMAIN call' = Calls
      /\ balance' \in [Variants -> Calls \cup {Nobody}]
      /\ \A d \in Calls : Typed(call'[d]) /\ (call'[d] # Idle => lock'[call'[d].party] = d)
      /\ \A d \in Calls : Working(d)'
    BY <1>7, OneLeaves
<1>9. TypeOK'
    BY <1>2, <1>4, <1>8 DEF PartyInv, TypeOK, Typed
<1>10. OrdersOf(p) = {} /\ \A q \in Parties : OrdersOf(q)' = OrdersOf(q)
    BY <1>1, <1>2 DEF PartyInv, ClosedOnceOrdered, OrdersOf
<1>11. /\ ClosedOnceOrdered' /\ OrdersCounted' /\ UnplacedIsEmpty' /\ StockCovers'
    BY <1>2, <1>10 DEF PartyInv, ClosedOnceOrdered, OrdersCounted, UnplacedIsEmpty, StockCovers
<1>12. EmptySeats'
    BY <1>2, <1>3, <1>4, PartyConstants DEF PartyInv, EmptySeats
<1>13. Matches(p)'
    BY <1>10 DEF Matches
<1>14. \A q \in Parties \ {p} : Matches(q)'
    BY <1>2, <1>5, <1>6, <1>10, UntouchedMatches DEF PartyInv, Untouched
<1> QED
    BY <1>8, <1>9, <1>11, <1>12, <1>13, <1>14 DEF PartyInv

LEMMA ItemKeeps ==
    ASSUME PartyInv, NEW c \in Calls, call[c].op = "edit",
           NEW m \in DOMAIN call[c].items, NEW v \in Variants, NEW q \in Nat, q <= MaxQty[v],
           cart' = [cart EXCEPT ![m][v] = q], Leave(c), UNCHANGED <<roomVars, packs, stockVars>>
    PROVE  PartyInv'
<1>1. m \in Seats
    BY DEF PartyInv, TypeOK
<1>2. cart[m] \in [Variants -> Nat] /\ \A x \in Variants : cart[m][x] <= MaxQty[x]
    BY <1>1 DEF PartyInv, TypeOK
<1> DEFINE i == [cart[m] EXCEPT ![v] = q]
<1>3. i \in [Variants -> Nat] /\ \A x \in Variants : i[x] <= MaxQty[x]
    BY <1>2
<1>4. cart' = [cart EXCEPT ![m] = i]
    OBVIOUS
<1> QED
    BY <1>3, <1>4, EditKeeps

LEMMA CartStepsKeep ==
    ASSUME PartyInv, NEW c \in Calls, NEW m \in Seats,
           \/ \E v \in Variants : \E q \in 1..MaxQty[v] : AddItem(c, m, v, q)
           \/ \E k \in packs : AddPack(c, m, k)
           \/ \E x \in Seats, v \in Variants : \E q \in 0..MaxQty[v] : UpdateItem(c, x, m, v, q)
    PROVE  PartyInv'
<1>0. ASSUME call[c].op \in Ops, m \in DOMAIN call[c].items
      PROVE  call[c].items[m] = cart[m] /\ cart[m] \in [Variants -> Nat]
    <2>1. call[c].items = [x \in MembersOf(call[c].party) |-> cart[x]]
        BY <1>0, AtWork
    <2>2. cart[m] \in [Variants -> Nat]
        BY DEF PartyInv, TypeOK
    <2> QED
        BY <1>0, <2>1, <2>2
<1>1. ASSUME NEW v \in Variants, NEW q \in 1..MaxQty[v], AddItem(c, m, v, q)
      PROVE  PartyInv'
    <2>1. call[c].op = "edit" /\ m \in DOMAIN call[c].items /\ MaxQty[v] \in Nat
        BY <1>1, PartyConstants DEF AddItem
    <2>2. Added(c, m, v, q) \in Nat
        BY <1>0, <2>1 DEF Added, Ops
    <2> QED
        BY <1>1, <2>1, <2>2, ItemKeeps DEF AddItem
<1>2. ASSUME NEW k \in packs, AddPack(c, m, k)
      PROVE  PartyInv'
    <2>1. call[c].op = "edit" /\ m \in DOMAIN call[c].items
        BY <1>2 DEF AddPack
    <2>2. k \in [Variants -> Nat]
        BY PartyConstants DEF PartyInv, TypeOK
    <2> DEFINE i == [v \in Variants |-> Added(c, m, v, k[v])]
    <2>3. i \in [Variants -> Nat] /\ \A v \in Variants : i[v] <= MaxQty[v]
        BY <1>0, <1>2, <2>1, <2>2 DEF Added, Ops, AddPack
    <2>4. cart' = [cart EXCEPT ![m] = i] /\ Leave(c) /\ UNCHANGED <<roomVars, packs, stockVars>>
        BY <1>2 DEF AddPack
    <2> HIDE DEF i
    <2> QED
        BY <2>1, <2>3, <2>4, EditKeeps
<1>3. ASSUME NEW x \in Seats, NEW v \in Variants, NEW q \in 0..MaxQty[v],
             UpdateItem(c, x, m, v, q)
      PROVE  PartyInv'
    <2>1. q \in Nat /\ q <= MaxQty[v]
        BY <1>3, PartyConstants
    <2>2. /\ call[c].op = "edit" /\ m \in DOMAIN call[c].items
          /\ cart' = [cart EXCEPT ![m][v] = q] /\ Leave(c)
          /\ UNCHANGED <<roomVars, packs, stockVars>>
        BY <1>3 DEF UpdateItem
    <2> QED
        BY <2>1, <2>2, ItemKeeps
<1> QED
    BY <1>1, <1>2, <1>3

LEMMA LockCartKeeps ==
    ASSUME PartyInv, NEW c \in Calls, LockCart(c)
    PROVE  PartyInv'
<1>0. PICK p \in Parties : p = call[c].party /\ call[c] # Idle
    BY AtWork DEF LockCart, Ops
<1>1. /\ Leave(c) /\ status' = [status EXCEPT ![p] = "locked"]
      /\ relocked' = [relocked EXCEPT ![p] = relocked[p] + (IF status[p] = "ordered" THEN 1 ELSE 0)]
      /\ UNCHANGED <<host, seat, cart, packs, reserved, taken, orderOf>>
    BY <1>0 DEF LockCart, stockVars
<1>2. /\ status'[p] = "locked" /\ status' \in [Parties -> Statuses]
      /\ \A q \in Parties \ {p} : status'[q] = status[q]
    BY <1>1 DEF PartyInv, TypeOK, Statuses
<1>3. /\ relocked' \in [Parties -> Nat]
      /\ relocked'[p] = relocked[p] + (IF status[p] = "ordered" THEN 1 ELSE 0)
      /\ \A q \in Parties \ {p} : relocked'[q] = relocked[q]
    BY <1>1 DEF PartyInv, TypeOK
<1>4. \A q \in Parties : MembersOf(q)' = MembersOf(q) /\ OrdersOf(q)' = OrdersOf(q)
    BY <1>1 DEF MembersOf, OrdersOf
<1>5. ASSUME NEW d \in Calls \ {c} PROVE Respects(d)
    BY <1>0, <1>1, <1>2, <1>4, OthersRow, LeaveFrame DEF PartyInv, Respects
<1>6. /\ lock' \in [Parties -> Calls \cup {Nobody}] /\ DOMAIN call' = Calls
      /\ balance' \in [Variants -> Calls \cup {Nobody}]
      /\ \A d \in Calls : Typed(call'[d]) /\ (call'[d] # Idle => lock'[call'[d].party] = d)
      /\ \A d \in Calls : Working(d)'
    BY <1>1, <1>5, OneLeaves
<1>7. TypeOK'
    BY <1>1, <1>2, <1>3, <1>6 DEF PartyInv, TypeOK, Typed
<1>8. ClosedOnceOrdered'
    BY <1>2, <1>4 DEF PartyInv, ClosedOnceOrdered
<1>9. OrdersCounted'
    <2>1. relocked[p] \in Nat
        BY DEF PartyInv, TypeOK
    <2> QED
        BY <1>2, <1>3, <1>4, <2>1 DEF PartyInv, OrdersCounted
<1>10. EmptySeats' /\ UnplacedIsEmpty' /\ StockCovers'
    BY <1>1 DEF PartyInv, EmptySeats, UnplacedIsEmpty, StockCovers
<1>11. \A q \in Parties : Matches(q)'
    BY <1>1, <1>4, UntouchedMatches DEF PartyInv, Untouched
<1> QED
    BY <1>6, <1>7, <1>8, <1>9, <1>10, <1>11 DEF PartyInv

LEMMA TotalIsNat ==
    ASSUME NEW S \in SUBSET Seats, NEW f, NEW M \in Nat
    PROVE  Total([m \in S |-> f[m]], M) \in Nat
<1>1. IsFiniteSet(S) /\ IsFiniteSet(1..M)
    <2>1. IsFiniteSet(1..MaxSeats) /\ IsFiniteSet(1..M)
        BY PartyConstants, FS_Interval
    <2> QED
        BY <2>1, FS_Subset DEF Seats
<1>2. IsFiniteSet(S \X (1..M))
    BY <1>1, FS_Product
<1>3. Units([m \in S |-> f[m]], M) \in SUBSET (S \X (1..M))
    BY DEF Units
<1> QED
    BY <1>2, <1>3, FS_Subset, FS_CardinalityType DEF Total

(* The lines of a checkout are the cart, consolidated.                     *)
LEMMA Lines ==
    ASSUME PartyInv, NEW c \in Calls, call[c].op = "checkout", NEW v \in Variants
    PROVE  /\ Consolidated(call[c].items)[v] =
                Total([m \in MembersOf(call[c].party) |-> cart[m][v]], MaxQty[v])
           /\ Consolidated(call[c].items)[v] \in Nat
<1>1. call[c].items = [m \in MembersOf(call[c].party) |-> cart[m]]
    BY AtWork DEF Ops
<1>2. [m \in DOMAIN call[c].items |-> call[c].items[m][v]]
        = [m \in MembersOf(call[c].party) |-> cart[m][v]]
    BY <1>1
<1>3. Consolidated(call[c].items)[v] =
        Total([m \in MembersOf(call[c].party) |-> cart[m][v]], MaxQty[v])
    BY <1>2 DEF Consolidated, VariantTotal
<1> DEFINE f == [m \in Seats |-> cart[m][v]]
           S == MembersOf(call[c].party)
<1>4. S \in SUBSET Seats /\ MaxQty[v] \in Nat
    BY PartyConstants DEF MembersOf
<1>5. [m \in S |-> cart[m][v]] = [m \in S |-> f[m]]
    BY <1>4
<1> HIDE DEF f, S
<1>6. Total([m \in S |-> f[m]], MaxQty[v]) \in Nat
    BY <1>4, TotalIsNat
<1> QED
    BY <1>3, <1>5, <1>6 DEF S

(* The balances that a checkout has locked stay with it, unread by others. *)
LEMMA StillReserving ==
    ASSUME NEW d \in Calls, Reserving(d), call'[d] = call[d],
           \A v \in Variants : balance[v] = d => balance'[v] = d /\ reserved'[v] = reserved[v]
    PROVE  Reserving(d)'
<1> SUFFICES ASSUME call[d].op = "checkout"
             PROVE  /\ Wanted(call'[d].items) # {}
                    /\ \A v \in Wanted(call'[d].items) \ call'[d].left :
                         balance'[v] = d /\ InStock(d, v)'
    BY DEF Reserving, Wanted, Consolidated, VariantTotal, Total, Units
<1>1. \A v \in Wanted(call[d].items) \ call[d].left :
        v \in Variants /\ balance[v] = d /\ InStock(d, v)
    BY DEF Reserving, Wanted
<1>2. ASSUME NEW v \in Wanted(call[d].items) \ call[d].left PROVE InStock(d, v)'
    BY <1>1, <1>2 DEF InStock, Available, Consolidated, VariantTotal, Total, Units
<1> QED
    BY <1>1, <1>2 DEF Reserving

LEMMA PassingReserves ==
    ASSUME OrderInv, UNCHANGED <<reserved, balance, call>>
    PROVE  \A d \in Calls : Reserving(d)'
BY StillReserving DEF OrderInv

LEMMA LeavingReserves ==
    ASSUME OrderInv, NEW c \in Calls, Leave(c), UNCHANGED reserved
    PROVE  \A d \in Calls : Reserving(d)'
<1>1. Reserving(c)'
    BY LeaveFrame DEF OrderInv, PartyInv, Reserving, Idle
<1>2. ASSUME NEW d \in Calls \ {c} PROVE Reserving(d)'
    BY <1>2, LeaveFrame, StillReserving DEF OrderInv, PartyInv
<1> QED
    BY <1>1, <1>2

LEMMA EnteringReserves ==
    ASSUME OrderInv, NEW c \in Calls, NEW op \in Ops, NEW p \in Parties, Enter(c, op, p)
    PROVE  \A d \in Calls : Reserving(d)'
<1> DEFINE i == [m \in MembersOf(p) |-> cart[m]]
           l == IF op = "checkout" THEN Wanted(i) ELSE {}
<1>1. /\ call' = [call EXCEPT ![c] = [op |-> op, party |-> p,
            users |-> {seat[m].user : m \in MembersOf(p)}, items |-> i, left |-> l]]
      /\ op = "checkout" => l # {}
      /\ reserved' = reserved /\ balance' = balance /\ DOMAIN call = Calls
    BY DEF Enter, stockVars, OrderInv, PartyInv, TypeOK
<1> HIDE DEF i
<1>2. call'[c].op = op /\ call'[c].items = i /\ call'[c].left = l
    BY <1>1
<1>3. Reserving(c)'
    <2>1. op = "checkout" =>
            call'[c].left = Wanted(call'[c].items) /\ Wanted(call'[c].items) # {}
        BY <1>1, <1>2
    <2> QED
        BY <1>2, <2>1 DEF Reserving, Wanted, Consolidated, VariantTotal, Total, Units
<1>4. ASSUME NEW d \in Calls \ {c} PROVE Reserving(d)'
    BY <1>1, <1>4, StillReserving DEF OrderInv
<1> QED
    BY <1>3, <1>4

LEMMA ReserveLineKeeps ==
    ASSUME OrderInv, NEW c \in Calls, NEW v \in Variants, ReserveLine(c, v)
    PROVE  OrderInv'
<1> DEFINE k == [call[c] EXCEPT !.left = @ \ {v}]
<1>1. /\ call[c].op = "checkout" /\ balance[v] = Nobody /\ InStock(c, v)
      /\ balance' = [balance EXCEPT ![v] = c] /\ call' = [call EXCEPT ![c] = k]
      /\ UNCHANGED <<status, host, seat, relocked, cart, packs, reserved, taken, orderOf, lock>>
    BY DEF ReserveLine, CanReserve, roomVars, stockVars
<1>2. /\ balance' \in [Variants -> Calls \cup {Nobody}] /\ balance'[v] = c
      /\ \A w \in Variants \ {v} : balance'[w] = balance[w]
    BY <1>1 DEF OrderInv, PartyInv, TypeOK
<1>3. Typed(call[c]) /\ DOMAIN call = Calls
    BY CallsTyped DEF OrderInv, PartyInv
<1>4. /\ DOMAIN call' = Calls /\ call'[c] = k
      /\ \A d \in Calls \ {c} : call'[d] = call[d]
    BY <1>1, <1>3
<1>5. /\ call[c] # Idle /\ call[c].party \in Parties /\ lock[call[c].party] = c
      /\ status[call[c].party] \in Allowed(call[c].op)
      /\ call[c].items = [m \in MembersOf(call[c].party) |-> cart[m]]
    BY <1>1, AtWork DEF OrderInv, Ops
<1>6. /\ k.op = call[c].op /\ k.party = call[c].party /\ k.users = call[c].users
      /\ k.items = call[c].items /\ k.left = call[c].left \ {v}
    BY <1>3 DEF Typed, Idle
<1> HIDE DEF k
<1>7. Working(c)' /\ Typed(k)
    <2>1. Typed(k)
        <3>1. DOMAIN k = DOMAIN call[c]
            BY DEF k
        <3> QED
            BY <1>3, <1>5, <1>6, <3>1 DEF Typed
    <2>2. Working(c)'
        BY <1>1, <1>4, <1>5, <1>6 DEF Working, MembersOf, Ops
    <2> QED
        BY <2>1, <2>2
<1>8. ASSUME NEW d \in Calls \ {c} PROVE Working(d)'
    BY <1>1, <1>4, Respected DEF OrderInv, PartyInv, Respects, MembersOf
<1>9. PartyInv'
    <2>1. \A d \in Calls : Typed(call'[d]) /\ Working(d)'
        BY <1>4, <1>7, <1>8, CallsTyped DEF OrderInv, PartyInv
    <2>2. packs' \subseteq Bundles /\ lock' \in [Parties -> Calls \cup {Nobody}]
        BY <1>1 DEF OrderInv, PartyInv, TypeOK
    <2> QED
        BY <1>1, <1>2, <1>4, <2>1, <2>2, QuietStep DEF OrderInv, roomVars, stockVars
<1>10. Reserving(c)'
    <2>1. /\ Wanted(call[c].items) # {}
          /\ \A w \in Wanted(call[c].items) \ call[c].left : balance[w] = c /\ InStock(c, w)
        BY <1>1 DEF OrderInv, Reserving
    <2>2. ASSUME NEW w \in Wanted(call[c].items) \ k.left
          PROVE  w \in Variants /\ balance'[w] = c /\ InStock(c, w)
        BY <1>1, <1>2, <1>6, <2>1 DEF Wanted
    <2>3. \A w \in Variants : InStock(c, w) => InStock(c, w)'
        BY <1>1, <1>4, <1>6
        DEF InStock, Available, Consolidated, VariantTotal, Total, Units
    <2>4. call'[c].items = call[c].items /\ call'[c].left = k.left
        BY <1>4, <1>6
    <2> QED
        BY <2>1, <2>2, <2>3, <2>4
        DEF Reserving, Wanted, Consolidated, VariantTotal, Total, Units
<1>11. ASSUME NEW d \in Calls \ {c} PROVE Reserving(d)'
    <2>1. ASSUME NEW w \in Variants, balance[w] = d PROVE balance'[w] = d
        BY <1>1, <1>2, <2>1, PartyConstants
    <2> QED
        BY <1>1, <1>4, <2>1, StillReserving DEF OrderInv
<1> QED
    BY <1>9, <1>10, <1>11 DEF OrderInv

LEMMA CheckoutKeeps ==
    ASSUME OrderInv, NEW c \in Calls, NEW n \in Orders, CheckoutCart(c, n)
    PROVE  OrderInv' /\ Promise!Place(n)
<1> USE DEF OrderInv
<1>0. PICK p \in Parties : p = call[c].party /\ call[c] # Idle
    BY AtWork DEF CheckoutCart, Ops
<1> DEFINE lines == Consolidated(call[c].items)
<1>1. /\ Leave(c) /\ status' = [status EXCEPT ![p] = "ordered"]
      /\ orderOf[n] = Nobody /\ call[c].left = {}
      /\ reserved' = [v \in Variants |-> reserved[v] + lines[v]]
      /\ taken' = [taken EXCEPT ![n] = lines]
      /\ orderOf' = [orderOf EXCEPT ![n] = p]
      /\ UNCHANGED <<host, seat, relocked, cart, packs>> /\ call[c].op = "checkout"
    BY <1>0 DEF CheckoutCart
<1>2. \A v \in Variants :
        lines[v] = Total([m \in MembersOf(p) |-> cart[m][v]], MaxQty[v]) /\ lines[v] \in Nat
    BY <1>0, <1>1, Lines
<1>3. lines \in [Variants -> Nat]
    BY <1>2 DEF Consolidated
<1>13. /\ \E v \in Variants : lines[v] > 0
      /\ \A v \in Variants : lines[v] > 0 => balance[v] = c /\ lines[v] <= Available(v)
    BY <1>1 DEF Reserving, Wanted, InStock
<1> HIDE DEF lines
<1>4. /\ status'[p] = "ordered" /\ status' \in [Parties -> Statuses]
      /\ \A q \in Parties \ {p} : status'[q] = status[q]
    BY <1>1 DEF PartyInv, TypeOK, Statuses
<1>5. /\ taken' \in [Orders -> [Variants -> Nat]] /\ taken'[n] = lines
      /\ \A x \in Orders \ {n} : taken'[x] = taken[x]
    BY <1>1, <1>3 DEF PartyInv, TypeOK
<1>6. /\ orderOf' \in [Orders -> Parties \cup {Nobody}] /\ orderOf'[n] = p
      /\ \A x \in Orders \ {n} : orderOf'[x] = orderOf[x]
    BY <1>1 DEF PartyInv, TypeOK
<1>7. \A v \in Variants :
        /\ OnHand[v] \in Nat /\ reserved[v] \in Nat /\ reserved[v] <= OnHand[v]
        /\ lines[v] <= OnHand[v] - reserved[v] /\ reserved'[v] = reserved[v] + lines[v]
    <2> SUFFICES ASSUME NEW v \in Variants
                 PROVE  /\ OnHand[v] \in Nat /\ reserved[v] \in Nat /\ reserved[v] <= OnHand[v]
                        /\ lines[v] <= OnHand[v] - reserved[v]
                        /\ reserved'[v] = reserved[v] + lines[v]
        OBVIOUS
    <2>1. OnHand[v] \in Nat /\ reserved[v] \in Nat /\ reserved[v] <= OnHand[v]
        BY PartyConstants DEF PartyInv, TypeOK, StockCovers
    <2>2. lines[v] \in Nat /\ (lines[v] > 0 => lines[v] <= OnHand[v] - reserved[v])
        BY <1>2, <1>13 DEF Available
    <2> QED
        BY <1>1, <2>1, <2>2
<1>8. \A q \in Parties : MembersOf(q)' = MembersOf(q)
    BY <1>1 DEF MembersOf
<1>9. OrdersOf(p)' = OrdersOf(p) \cup {n} /\ n \notin OrdersOf(p)
      /\ \A q \in Parties \ {p} : OrdersOf(q)' = OrdersOf(q)
    BY <1>1, <1>6, PartyConstants DEF OrdersOf
<1>10. PartyInv'
    <2>1. ASSUME NEW d \in Calls \ {c} PROVE Respects(d)
        BY <1>0, <1>1, <1>4, <1>8, OthersRow, LeaveFrame DEF PartyInv, Respects
    <2>2. /\ lock' \in [Parties -> Calls \cup {Nobody}] /\ DOMAIN call' = Calls
          /\ balance' \in [Variants -> Calls \cup {Nobody}]
          /\ \A d \in Calls : Typed(call'[d]) /\ (call'[d] # Idle => lock'[call'[d].party] = d)
          /\ \A d \in Calls : Working(d)'
        BY <1>1, <2>1, OneLeaves
    <2>3. reserved' \in [Variants -> Nat]
        <3>1. \A v \in Variants : reserved[v] + lines[v] \in Nat
            BY <1>3, <1>7
        <3> QED
            BY <1>1, <3>1
    <2>4. TypeOK'
        BY <1>1, <1>4, <1>5, <1>6, <2>2, <2>3 DEF PartyInv, TypeOK, Typed
    <2>5. ClosedOnceOrdered'
        BY <1>4, <1>9 DEF PartyInv, ClosedOnceOrdered
    <2>6. OrdersCounted'
        <3>0. IsFiniteSet(1..MaxOrders) /\ OrdersOf(p) \in SUBSET (1..MaxOrders)
            BY PartyConstants, FS_Interval DEF OrdersOf, Orders
        <3>1. IsFiniteSet(OrdersOf(p))
            BY <3>0, FS_Subset
        <3>2. Cardinality(OrdersOf(p) \cup {n}) = Cardinality(OrdersOf(p)) + 1
            BY <1>9, <3>1, FS_AddElement
        <3>3. status[p] # "ordered"
            BY <1>0, <1>1, AtWork DEF Ops, Allowed, Orderable
        <3>4. relocked[p] \in Nat /\ Cardinality(OrdersOf(p)) \in Nat
            BY <3>1, FS_CardinalityType DEF PartyInv, TypeOK
        <3>5. Cardinality(OrdersOf(p)) <= relocked[p]
            BY <3>3, <3>4 DEF PartyInv, OrdersCounted
        <3>6. Cardinality(OrdersOf(p)') <= relocked[p] + 1
            BY <1>9, <3>2, <3>4, <3>5
        <3> QED
            BY <1>1, <1>4, <1>9, <3>6 DEF PartyInv, OrdersCounted
    <2>7. UnplacedIsEmpty'
        BY <1>5, <1>6, PartyConstants DEF PartyInv, UnplacedIsEmpty
    <2>8. EmptySeats' /\ StockCovers'
        <3>1. EmptySeats'
            BY <1>1 DEF PartyInv, EmptySeats
        <3>2. \A v \in Variants : reserved'[v] <= OnHand[v]
            BY <1>3, <1>7
        <3> QED
            BY <3>1, <3>2 DEF StockCovers
    <2>9. \A q \in Parties \ {p} : Matches(q)'
        <3> SUFFICES ASSUME NEW q \in Parties \ {p} PROVE Matches(q)'
            OBVIOUS
        <3>1. \A x \in OrdersOf(q) : taken'[x] = taken[x]
            BY <1>1, <1>5, PartyConstants DEF OrdersOf
        <3> QED
            BY <1>1, <1>8, <1>9, <3>1, UntouchedMatches DEF PartyInv, Untouched
    <2>10. Matches(p)'
        <3> SUFFICES ASSUME NEW x \in OrdersOf(p) \cup {n}, NEW v \in Variants
                     PROVE  taken'[x][v] = Total([m \in MembersOf(p) |-> cart[m][v]], MaxQty[v])
            BY <1>1, <1>8, <1>9 DEF Matches
        <3>1. CASE x = n
            BY <1>2, <1>5, <3>1
        <3>2. CASE x # n
            BY <1>5, <3>2 DEF PartyInv, Matches, OrdersOf
        <3> QED
            BY <3>1, <3>2
    <2> QED
        BY <2>2, <2>4, <2>5, <2>6, <2>7, <2>8, <2>9, <2>10 DEF PartyInv
<1>11. Promise!Place(n)
    <2>1. taken[n] = NoItems
        BY <1>1 DEF PartyInv, UnplacedIsEmpty
    <2>2. lines # NoItems
        BY <1>13 DEF NoItems
    <2> QED
        BY <1>1, <1>2, <1>5, <1>7, <2>1, <2>2
        DEF Promise!Place, Promise!Nothing, NoItems, Available
<1>12. ASSUME NEW d \in Calls PROVE Reserving(d)'
    <2>1. CASE d = c
        BY <1>1, <2>1, LeaveFrame DEF PartyInv, Reserving, Idle
    <2>2. CASE d # c
        <3>1. /\ call'[d] = call[d]
              /\ \A v \in Variants : balance[v] = d => balance'[v] = d
            BY <1>1, <2>2, LeaveFrame DEF PartyInv
        <3>2. ASSUME NEW v \in Variants, balance[v] = d PROVE lines[v] = 0
            <4>1. lines[v] \in Nat /\ ~(lines[v] > 0)
                BY <1>2, <1>13, <2>2, <3>2
            <4> QED
                BY <4>1
        <3>3. \A v \in Variants : balance[v] = d => reserved'[v] = reserved[v]
            BY <1>7, <3>2
        <3> QED
            BY <3>1, <3>3, StillReserving
    <2> QED
        BY <2>1, <2>2
<1> QED
    BY <1>10, <1>11, <1>12

-----------------------------------------------------------------------------

LEMMA Beginning == Init => OrderInv /\ Promise!Init
<1> SUFFICES ASSUME Init PROVE OrderInv /\ Promise!Init
    OBVIOUS
<1>1. \A p \in Parties : OrdersOf(p) = {}
    BY PartyConstants DEF Init, OrdersOf
<1>2. TypeOK
    <2>1. /\ NoSeat \in [party : Parties \cup {Nobody}, user : Users \cup {Nobody},
                         role : {"none", "host", "guest"}]
          /\ NoItems \in [Variants -> Nat] /\ \A v \in Variants : NoItems[v] <= MaxQty[v]
        BY PartyConstants DEF NoSeat, NoItems
    <2>2. Idle.op = "none" /\ Idle.users = {} /\ DOMAIN Idle.items = {} /\ Idle.left = {}
        BY DEF Idle
    <2> QED
        BY <2>1, <2>2 DEF Init, TypeOK, Statuses
<1>3. \A c \in Calls : Working(c)
    BY DEF Init, Working
<1>4. EmptySeats /\ UnplacedIsEmpty /\ ClosedOnceOrdered
    BY <1>1 DEF Init, EmptySeats, UnplacedIsEmpty, ClosedOnceOrdered
<1>5. OrdersCounted
    <2>1. \A p \in Parties : relocked[p] = 0 /\ status[p] = "none"
        BY DEF Init
    <2> QED
        BY <1>1, <2>1, FS_EmptySet DEF OrdersCounted
<1>6. StockCovers
    BY PartyConstants DEF Init, StockCovers
<1>7. \A p \in Parties : Matches(p)
    BY <1>1 DEF Matches
<1>8. Promise!Init
    BY PartyConstants DEF Init, Promise!Init, Promise!Nothing, NoItems, Available
<1>9. \A c \in Calls : Reserving(c)
    BY DEF Init, Idle, Reserving
<1> QED
    BY <1>2, <1>3, <1>4, <1>5, <1>6, <1>7, <1>8, <1>9 DEF PartyInv, OrderInv

StockKept == [Promise!Next]_<<[v \in Variants |-> Available(v)], taken>>

LEMMA StepKeeps == OrderInv /\ [Next]_vars => OrderInv' /\ StockKept
<1> SUFFICES ASSUME OrderInv, [Next]_vars PROVE OrderInv' /\ StockKept
    OBVIOUS
<1>0. PartyInv
    BY DEF OrderInv
<1>1. ASSUME UNCHANGED stockVars PROVE StockKept
    BY <1>1 DEF stockVars, StockKept, Available
<1>2. ASSUME NEW p \in Parties, NEW u \in Hosts, NEW m \in Seats, CreateSession(p, u, m)
      PROVE  OrderInv' /\ StockKept
    BY <1>0, <1>1, <1>2, CreateSessionKeeps, PassingReserves, PartyConstants
    DEF CreateSession, OrderInv, stockVars, locks
<1>3. ASSUME NEW k \in Bundles \ packs, CreatePack(k)
      PROVE  OrderInv' /\ StockKept
    BY <1>0, <1>1, <1>3, CreatePackKeeps, PassingReserves DEF CreatePack, OrderInv, stockVars, locks
<1>4. ASSUME NEW c \in Calls, Abort(c)
      PROVE  OrderInv' /\ StockKept
    BY <1>0, <1>1, <1>4, AbortKeeps, LeavingReserves DEF Abort, OrderInv, stockVars
<1>5. ASSUME NEW c \in Calls, NEW op \in Ops, NEW p \in Parties, Enter(c, op, p)
      PROVE  OrderInv' /\ StockKept
    BY <1>0, <1>1, <1>5, EnterKeeps, EnteringReserves DEF Enter, OrderInv
<1>6. ASSUME NEW c \in Calls, NEW m \in Seats, NEW u \in Users \cup {Nobody}, Join(c, u, m)
      PROVE  OrderInv' /\ StockKept
    BY <1>0, <1>1, <1>6, JoinKeeps, LeavingReserves DEF Join, OrderInv, stockVars
<1>7. ASSUME NEW c \in Calls, NEW m \in Seats,
             \/ \E v \in Variants : \E q \in 1..MaxQty[v] : AddItem(c, m, v, q)
             \/ \E k \in packs : AddPack(c, m, k)
             \/ \E x \in Seats, v \in Variants : \E q \in 0..MaxQty[v] : UpdateItem(c, x, m, v, q)
      PROVE  OrderInv' /\ StockKept
    <2>1. PartyInv'
        BY <1>0, <1>7, CartStepsKeep
    <2>2. Leave(c) /\ UNCHANGED stockVars
        BY <1>7 DEF AddItem, AddPack, UpdateItem
    <2> QED
        BY <1>1, <2>1, <2>2, LeavingReserves DEF OrderInv, stockVars
<1>8. ASSUME NEW c \in Calls, LockCart(c)
      PROVE  OrderInv' /\ StockKept
    BY <1>0, <1>1, <1>8, LockCartKeeps, LeavingReserves DEF LockCart, OrderInv, stockVars
<1>9. ASSUME NEW c \in Calls, NEW v \in Variants, ReserveLine(c, v)
      PROVE  OrderInv' /\ StockKept
    BY <1>1, <1>9, ReserveLineKeeps DEF ReserveLine
<1>10. ASSUME NEW c \in Calls, NEW n \in Orders, CheckoutCart(c, n)
      PROVE  OrderInv' /\ StockKept
    BY <1>10, CheckoutKeeps DEF StockKept, Promise!Next
<1>11. CASE UNCHANGED vars
    BY <1>0, <1>1, <1>11, IdleStep, PassingReserves DEF vars, OrderInv, stockVars, locks
<1> QED
    BY <1>2, <1>3, <1>4, <1>5, <1>6, <1>7, <1>8, <1>9, <1>10, <1>11 DEF Next

LEMMA Invariance == Spec => []OrderInv
BY Beginning, StepKeeps, PTL DEF Spec

-----------------------------------------------------------------------------

(* Parties, participants, carts, orders and calls stay well typed          *)
(* (party/service.py).                                                     *)
THEOREM TypeCorrect == Spec => []TypeOK
<1>1. OrderInv => TypeOK
    BY DEF OrderInv, PartyInv
<1> QED
    BY <1>1, Invariance, PTL

(* An order is the whole cart of its party, now and later                  *)
(* (checkout_party_cart, add_item_to_party_cart).                          *)
THEOREM OrdersMatchTheCartHolds == Spec => []OrdersMatchTheCart
<1>1. OrderInv => OrdersMatchTheCart
    BY DEF OrderInv, PartyInv, OrdersMatchTheCart, Matches
<1> QED
    BY <1>1, Invariance, PTL

(* A second order of a party needs its host to lock it again               *)
(* (lock_party_cart, checkout_party_cart).                                 *)
THEOREM OrderedOncePerLockHolds == Spec => []OrderedOncePerLock
<1>1. OrderInv => OrderedOncePerLock
    <2> SUFFICES ASSUME OrderInv, NEW p \in Parties
                 PROVE  Cardinality(OrdersOf(p)) <= 1 + relocked[p]
        BY DEF OrderedOncePerLock
    <2>1. relocked[p] \in Nat
        BY DEF OrderInv, PartyInv, TypeOK
    <2>2. IsFiniteSet(1..MaxOrders) /\ OrdersOf(p) \in SUBSET (1..MaxOrders)
        BY PartyConstants, FS_Interval DEF OrdersOf, Orders
    <2>3. Cardinality(OrdersOf(p)) \in Nat
        BY <2>2, FS_Subset, FS_CardinalityType
    <2> QED
        BY <2>1, <2>3 DEF OrderInv, PartyInv, OrdersCounted
<1> QED
    BY <1>1, Invariance, PTL

(* The party checkout implements AtomicOrders: all lines at once, only     *)
(* what is available, once for each order (checkout_party_cart).           *)
THEOREM StockTakenAtomicallyHolds == Spec => StockTakenAtomically
<1>1. Init => Promise!Init
    BY Beginning
<1>2. OrderInv /\ [Next]_vars
        => [Promise!Next]_<<[v \in Variants |-> Available(v)], taken>>
    BY StepKeeps DEF StockKept
<1> QED
    BY <1>1, <1>2, Invariance, PTL DEF Spec, StockTakenAtomically, Promise!Spec
====
