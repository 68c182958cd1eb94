---- MODULE InventoryProofs ----
(***************************************************************************)
(* The stock invariants of Inventory, for any number of pairs, keys and    *)
(* concurrent releases. HoldsAccounted is not inductive by itself: that a  *)
(* release on a stale object returns nothing of a consumed hold needs that *)
(* a hold once seen active is never consumed later.                        *)
(***************************************************************************)
EXTENDS Inventory, FiniteSetTheorems, FunctionTheorems, TLAPS

-----------------------------------------------------------------------------
(* How a Total changes when quantities change: the facts the stock proofs  *)
(* rest on.                                                                *)

(* A finite index set and a bound on the quantities make a finite total.   *)
LEMMA UnitsFinite ==
    ASSUME NEW K, IsFiniteSet(K), NEW M \in Nat, NEW f \in [K -> 0..M]
    PROVE  /\ IsFiniteSet(Units(f, M))
           /\ Total(f, M) \in Nat
<1>1. IsFiniteSet(1..M)
  BY FS_Interval
<1>2. IsFiniteSet(K \X (1..M))
  BY <1>1, FS_Product
<1>3. Units(f, M) \in SUBSET (K \X (1..M))
  BY DEF Units
<1>4. IsFiniteSet(Units(f, M))
  BY <1>2, <1>3, FS_Subset
<1> QED
  BY <1>4, FS_CardinalityType DEF Total

(* When every index has its quantity in f or in g, the totals add up.      *)
LEMMA TotalSplit ==
    ASSUME NEW K, IsFiniteSet(K), NEW M \in Nat,
           NEW f \in [K -> 0..M], NEW g \in [K -> 0..M], NEW h \in [K -> 0..M],
           \A k \in K : \/ f[k] = 0 /\ h[k] = g[k]
                        \/ g[k] = 0 /\ h[k] = f[k]
    PROVE  Total(h, M) = Total(f, M) + Total(g, M)
<1>1. Units(h, M) = Units(f, M) \cup Units(g, M)
  BY DEF Units
<1>2. Units(f, M) \cap Units(g, M) = {}
  BY DEF Units
<1>3. /\ IsFiniteSet(Units(f, M))
      /\ IsFiniteSet(Units(g, M))
      /\ Total(f, M) \in Nat
      /\ Total(g, M) \in Nat
  BY UnitsFinite
<1>4. Cardinality(Units(f, M) \cap Units(g, M)) = 0
  BY <1>2, FS_EmptySet
<1>5. Cardinality(Units(h, M)) =
        Cardinality(Units(f, M)) + Cardinality(Units(g, M)) - 0
  BY <1>1, <1>3, <1>4, FS_Union
<1> QED
  BY <1>3, <1>5 DEF Total

(* A function that is zero everywhere holds no unit.                       *)
LEMMA TotalZero ==
    ASSUME NEW K, NEW M \in Nat, NEW f \in [K -> 0..M], \A k \in K : f[k] = 0
    PROVE  Total(f, M) = 0
<1>1. Units(f, M) = {}
  BY DEF Units
<1> QED
  BY <1>1, FS_EmptySet DEF Total

(* A single quantity is its own total.                                     *)
LEMMA TotalSingle ==
    ASSUME NEW K, NEW M \in Nat, NEW k \in K, NEW v \in 0..M
    PROVE  Total([x \in K |-> IF x = k THEN v ELSE 0], M) = v
<1> DEFINE f == [x \in K |-> IF x = k THEN v ELSE 0]
           b == [i \in 1..v |-> <<k, i>>]
<1>1. Units(f, M) = {<<k, i>> : i \in 1..v}
  BY DEF Units
<1>2. b \in Bijection(1..v, Units(f, M))
  <2>1. b \in Injection(1..v, Units(f, M))
    BY <1>1 DEF Injection, IsInjective
  <2>2. b \in Surjection(1..v, Units(f, M))
    BY <1>1 DEF Surjection
  <2> QED
    BY <2>1, <2>2 DEF Bijection
<1>3. ExistsBijection(1..v, Units(f, M))
  BY <1>2 DEF ExistsBijection
<1> QED
  BY <1>3, FS_CountingElements DEF Total

(* Changing one quantity changes the total by the difference.              *)
LEMMA TotalUpdate ==
    ASSUME NEW K, IsFiniteSet(K), NEW M \in Nat,
           NEW f \in [K -> 0..M], NEW g \in [K -> 0..M], NEW k \in K,
           \A x \in K \ {k} : g[x] = f[x]
    PROVE  Total(g, M) = Total(f, M) - f[k] + g[k]
<1> DEFINE rest == [x \in K |-> IF x = k THEN 0 ELSE f[x]]
           old == [x \in K |-> IF x = k THEN f[k] ELSE 0]
           new == [x \in K |-> IF x = k THEN g[k] ELSE 0]
<1>1. f[k] \in 0..M /\ g[k] \in 0..M
  OBVIOUS
<1>2. /\ rest \in [K -> 0..M]
      /\ old \in [K -> 0..M]
      /\ new \in [K -> 0..M]
  BY <1>1
<1>3. Total(f, M) = Total(rest, M) + Total(old, M)
  BY <1>2, TotalSplit
<1>4. Total(g, M) = Total(rest, M) + Total(new, M)
  BY <1>2, TotalSplit
<1>5. /\ Total(old, M) = f[k]
      /\ Total(new, M) = g[k]
  BY <1>1, TotalSingle
<1>6. Total(rest, M) \in Nat
  BY <1>2, UnitsFinite
<1> QED
  BY <1>1, <1>3, <1>4, <1>5, <1>6

-----------------------------------------------------------------------------

(* A hold that a release saw active can only have been given back since.   *)
SeenActiveNotConsumed ==
    \A c \in Releasers :
        release[c].stage = "loaded" /\ release[c].seen = "active" =>
            status[release[c].stock][release[c].key] \in {"active", "released", "expired"}

StockInv ==
    /\ TypeOK
    /\ ReservedWithinStock
    /\ LedgerExplainsOnHand
    /\ HoldsAccounted
    /\ SeenActiveNotConsumed

-----------------------------------------------------------------------------
(* Every step is one of these: stock comes in and is written off through   *)
(* adjust_stock, with a delta of either sign.                              *)
LEMMA StepCases ==
    ASSUME Next
    PROVE  \/ Tick
           \/ \E s \in Stock :
                \/ SetActive(s)
                \/ \E k \in AdjKeys, d \in Deltas : AdjustStock(s, k, d)
                \/ \E k \in HoldKeys, q \in Quantity, t \in Instants :
                    \/ \E e \in 1..(MaxClock + 1) : ReserveStock(s, k, q, t, e)
                    \/ ReserveReplay(s, k, q, t)
                    \/ CheckoutHold(s, k, q, t)
                \/ \E c \in Releasers, k \in HoldKeys : ReleaseLoad(c, s, k)
           \/ \E c \in Releasers : ReleaseCommit(c) \/ ReleaseNoEffect(c)
<1>1. ASSUME NEW s \in Stock, NEW k \in AdjKeys, NEW q \in Quantity,
             InwardStock(s, k, q) \/ WriteOffStock(s, k, q)
      PROVE  \E d \in Deltas : AdjustStock(s, k, d)
  <2>1. q \in Deltas /\ -q \in Deltas
    BY InventoryConstants DEF Quantity, Deltas
  <2> QED
    BY <1>1, <2>1 DEF InwardStock, WriteOffStock
<1> QED
  BY <1>1 DEF Next

(* Typing.                                                                 *)

LEMMA QtyTypes ==
    ASSUME TypeOK, NEW s \in Stock, NEW t
    PROVE  /\ LiveQty(s) \in [HoldKeys -> 0..MaxQty]
           /\ DueQty(s, t) \in [HoldKeys -> 0..MaxQty]
           /\ Held(s) \in Nat
           /\ Total(DueQty(s, t), MaxQty) \in Nat
           /\ ReservedAfterExpiry(s, t) \in Int
           /\ StatusAfterExpiry(s, t) \in [HoldKeys -> Statuses \cup {"none"}]
<1>1. MaxQty \in Nat /\ IsFiniteSet(HoldKeys)
  BY InventoryConstants
<1>2. LiveQty(s) \in [HoldKeys -> 0..MaxQty]
  BY <1>1 DEF TypeOK, LiveQty
<1>3. DueQty(s, t) \in [HoldKeys -> 0..MaxQty]
  BY <1>1 DEF TypeOK, DueQty
<1>4. Held(s) \in Nat /\ Total(DueQty(s, t), MaxQty) \in Nat
  BY <1>1, <1>2, <1>3, UnitsFinite DEF Held
<1>5. ReservedAfterExpiry(s, t) \in Int
  BY <1>4 DEF TypeOK, ReservedAfterExpiry
<1>6. StatusAfterExpiry(s, t) \in [HoldKeys -> Statuses \cup {"none"}]
  BY DEF TypeOK, StatusAfterExpiry, Statuses
<1> QED
  BY <1>2, <1>3, <1>4, <1>5, <1>6

LEMMA TypeInit == Init => TypeOK
BY InventoryConstants DEF Init, TypeOK, Idle

LEMMA TypeStep == TypeOK /\ [Next]_vars => TypeOK'
<1> SUFFICES ASSUME TypeOK, [Next]_vars PROVE TypeOK'
  OBVIOUS
<1> USE InventoryConstants DEF TypeOK
<1>1. CASE UNCHANGED vars
  BY <1>1 DEF vars
<1>2. CASE Tick
  BY <1>2 DEF Tick
<1>3. ASSUME NEW s \in Stock, SetActive(s) PROVE TypeOK'
  BY <1>3 DEF SetActive
<1>4. ASSUME NEW s \in Stock, NEW k \in AdjKeys, NEW d \in Deltas, AdjustStock(s, k, d)
      PROVE  TypeOK'
  <2>1. onHand[s] + d \in Nat
    BY <1>4 DEF AdjustStock, CoversHolds, Deltas
  <2> QED
    BY <1>4, <2>1 DEF AdjustStock, Deltas
<1>5. ASSUME NEW s \in Stock, NEW k \in HoldKeys, NEW q \in Quantity, NEW t \in Instants,
             NEW e \in 1..(MaxClock + 1), ReserveStock(s, k, q, t, e)
      PROVE  TypeOK'
  <2>1. ReservedAfterExpiry(s, t) + q \in Nat
    BY <1>5, QtyTypes DEF ReserveStock, Quantity
  <2>2. [StatusAfterExpiry(s, t) EXCEPT ![k] = "active"] \in [HoldKeys -> Statuses \cup {"none"}]
    BY QtyTypes DEF Statuses
  <2> QED
    BY <1>5, <2>1, <2>2 DEF ReserveStock, Quantity
<1>6. ASSUME NEW s \in Stock, NEW k \in HoldKeys, NEW q \in Quantity, NEW t \in Instants,
             ReserveReplay(s, k, q, t)
      PROVE  TypeOK'
  <2>1. ReservedAfterExpiry(s, t) \in Nat
    BY <1>6, QtyTypes DEF ReserveReplay
  <2>2. StatusAfterExpiry(s, t) \in [HoldKeys -> Statuses \cup {"none"}]
    BY QtyTypes
  <2> QED
    BY <1>6, <2>1, <2>2 DEF ReserveReplay
<1>7. ASSUME NEW s \in Stock, NEW k \in HoldKeys, NEW q \in Quantity, NEW t \in Instants,
             CheckoutHold(s, k, q, t)
      PROVE  TypeOK'
  BY <1>7 DEF CheckoutHold, Quantity, Instants, Statuses
<1>8. ASSUME NEW s \in Stock, NEW c \in Releasers, NEW k \in HoldKeys, ReleaseLoad(c, s, k)
      PROVE  TypeOK'
  <2>1. Loaded(s, k) \in [stage : {"loaded"}, stock : Stock, key : HoldKeys, seen : Statuses]
    BY <1>8 DEF ReleaseLoad, Loaded
  <2> QED
    BY <1>8, <2>1 DEF ReleaseLoad
<1>9. ASSUME NEW c \in Releasers, ReleaseCommit(c) PROVE TypeOK'
  <2>1. /\ release[c].stock \in Stock
        /\ release[c].key \in HoldKeys
    BY <1>9 DEF ReleaseCommit, Idle
  <2>2. reserved[release[c].stock] - qty[release[c].stock][release[c].key] \in Nat
    BY <1>9, <2>1 DEF ReleaseCommit, CanRefund
  <2> QED
    BY <1>9, <2>1, <2>2 DEF ReleaseCommit, Statuses, Idle
<1>10. ASSUME NEW c \in Releasers, ReleaseNoEffect(c) PROVE TypeOK'
  BY <1>10 DEF ReleaseNoEffect
<1> QED
  BY <1>1, <1>2, <1>3, <1>4, <1>5, <1>6, <1>7, <1>8, <1>9, <1>10, StepCases

(* Every variable keeps its type; in particular reserved stays natural,    *)
(* without the reserved_non_negative CHECK of inventory_balances.          *)
THEOREM TypeCorrect == Spec => []TypeOK
<1> QED
  BY TypeInit, TypeStep, PTL DEF Spec

-----------------------------------------------------------------------------
(* reserved <= on hand.                                                    *)

LEMMA WithinStockStep ==
    ASSUME TypeOK, ReservedWithinStock, [Next]_vars
    PROVE  ReservedWithinStock'
<1> USE DEF TypeOK, ReservedWithinStock
<1>1. CASE UNCHANGED vars
  BY <1>1 DEF vars
<1>2. CASE Tick
  BY <1>2 DEF Tick
<1>3. ASSUME NEW s \in Stock, SetActive(s) PROVE ReservedWithinStock'
  BY <1>3 DEF SetActive
<1>4. ASSUME NEW s \in Stock, NEW k \in AdjKeys, NEW d \in Deltas, AdjustStock(s, k, d)
      PROVE  ReservedWithinStock'
  BY <1>4 DEF AdjustStock, CoversHolds
<1>5. ASSUME NEW s \in Stock, NEW k \in HoldKeys, NEW q \in Quantity, NEW t \in Instants,
             NEW e \in 1..(MaxClock + 1), ReserveStock(s, k, q, t, e)
      PROVE  ReservedWithinStock'
  <2>1. ReservedAfterExpiry(s, t) + q <= onHand[s]
    BY <1>5, QtyTypes DEF ReserveStock, Quantity
  <2> QED
    BY <1>5, <2>1 DEF ReserveStock
<1>6. ASSUME NEW s \in Stock, NEW k \in HoldKeys, NEW q \in Quantity, NEW t \in Instants,
             ReserveReplay(s, k, q, t)
      PROVE  ReservedWithinStock'
  <2>1. ReservedAfterExpiry(s, t) <= reserved[s]
    BY QtyTypes DEF ReservedAfterExpiry
  <2>2. ReservedAfterExpiry(s, t) <= onHand[s]
    BY <2>1, QtyTypes
  <2> QED
    BY <1>6, <2>2 DEF ReserveReplay
<1>7. ASSUME NEW s \in Stock, NEW k \in HoldKeys, NEW q \in Quantity, NEW t \in Instants,
             CheckoutHold(s, k, q, t)
      PROVE  ReservedWithinStock'
  BY <1>7 DEF CheckoutHold, Quantity
<1>8. ASSUME NEW s \in Stock, NEW c \in Releasers, NEW k \in HoldKeys, ReleaseLoad(c, s, k)
      PROVE  ReservedWithinStock'
  BY <1>8 DEF ReleaseLoad
<1>9. ASSUME NEW c \in Releasers, ReleaseCommit(c) PROVE ReservedWithinStock'
  <2>1. /\ release[c].stock \in Stock
        /\ release[c].key \in HoldKeys
    BY <1>9 DEF ReleaseCommit, Idle
  <2>2. qty[release[c].stock][release[c].key] \in 0..MaxQty
    BY <2>1
  <2> QED
    BY <1>9, <2>1, <2>2, InventoryConstants DEF ReleaseCommit
<1>10. ASSUME NEW c \in Releasers, ReleaseNoEffect(c) PROVE ReservedWithinStock'
  BY <1>10 DEF ReleaseNoEffect
<1> QED
  BY <1>1, <1>2, <1>3, <1>4, <1>5, <1>6, <1>7, <1>8, <1>9, <1>10, StepCases

-----------------------------------------------------------------------------
(* on hand = sum of the ledger.                                            *)

LEMMA LedgerTypes ==
    ASSUME TypeOK, NEW s \in Stock
    PROVE  /\ Received(s) \in [AdjKeys -> 0..MaxQty]
           /\ Removed(s) \in [AdjKeys -> 0..MaxQty]
           /\ Total(Received(s), MaxQty) \in Nat
           /\ Total(Removed(s), MaxQty) \in Nat
<1>1. MaxQty \in Nat /\ IsFiniteSet(AdjKeys)
  BY InventoryConstants
<1>2. /\ Received(s) \in [AdjKeys -> 0..MaxQty]
      /\ Removed(s) \in [AdjKeys -> 0..MaxQty]
  BY <1>1 DEF TypeOK, Received, Removed
<1> QED
  BY <1>1, <1>2, UnitsFinite

LEMMA LedgerStep ==
    ASSUME TypeOK, LedgerExplainsOnHand, [Next]_vars
    PROVE  LedgerExplainsOnHand'
<1>1. ASSUME UNCHANGED <<onHand, adjustments>> PROVE LedgerExplainsOnHand'
  BY <1>1 DEF LedgerExplainsOnHand, Received, Removed
<1>2. ASSUME NEW s \in Stock, NEW k \in AdjKeys, NEW d \in Deltas, AdjustStock(s, k, d)
      PROVE  LedgerExplainsOnHand'
  <2> SUFFICES ASSUME NEW p \in Stock
               PROVE  onHand'[p] = Total(Received(p)', MaxQty) - Total(Removed(p)', MaxQty)
    BY DEF LedgerExplainsOnHand
  <2> DEFINE up == IF d > 0 THEN d ELSE 0
             down == IF d < 0 THEN -d ELSE 0
  <2>1. up \in 0..MaxQty /\ down \in 0..MaxQty /\ d = up - down /\ d \in Int
    BY InventoryConstants DEF Deltas
  <2>2. onHand[p] = Total(Received(p), MaxQty) - Total(Removed(p), MaxQty)
    BY DEF LedgerExplainsOnHand
  <2>3. CASE p # s
    <3>1. Received(p)' = Received(p) /\ Removed(p)' = Removed(p) /\ onHand'[p] = onHand[p]
      BY <1>2, <2>3 DEF AdjustStock, Received, Removed, TypeOK
    <3> QED
      BY <2>2, <3>1
  <2>4. CASE p = s
    <3>1. Received(p)' = [Received(p) EXCEPT ![k] = up]
      BY <1>2, <2>4 DEF AdjustStock, Received, TypeOK
    <3>2. Removed(p)' = [Removed(p) EXCEPT ![k] = down]
      BY <1>2, <2>4 DEF AdjustStock, Removed, TypeOK
    <3>3. Received(p)[k] = 0 /\ Removed(p)[k] = 0
      BY <1>2, <2>4 DEF AdjustStock, NewKey, Received, Removed
    <3>4. onHand'[p] = onHand[p] + d
      BY <1>2, <2>4 DEF AdjustStock, TypeOK
    <3> HIDE DEF up, down
    <3> MaxQty \in Nat /\ IsFiniteSet(AdjKeys)
      BY InventoryConstants
    <3> /\ Received(p) \in [AdjKeys -> 0..MaxQty]
        /\ Removed(p) \in [AdjKeys -> 0..MaxQty]
      BY LedgerTypes
    <3> /\ Received(p)' \in [AdjKeys -> 0..MaxQty] /\ Received(p)'[k] = up
        /\ Removed(p)' \in [AdjKeys -> 0..MaxQty] /\ Removed(p)'[k] = down
      BY <2>1, <3>1, <3>2
    <3>5. Total(Received(p)', MaxQty) = Total(Received(p), MaxQty) - Received(p)[k] + up
      <4>1. \A x \in AdjKeys \ {k} : Received(p)'[x] = Received(p)[x]
        BY <3>1
      <4> QED
        BY <4>1, TotalUpdate
    <3>6. Total(Removed(p)', MaxQty) = Total(Removed(p), MaxQty) - Removed(p)[k] + down
      <4>1. \A x \in AdjKeys \ {k} : Removed(p)'[x] = Removed(p)[x]
        BY <3>2
      <4> QED
        BY <4>1, TotalUpdate
    <3>7. /\ Total(Received(p), MaxQty) \in Nat
          /\ Total(Removed(p), MaxQty) \in Nat
      BY LedgerTypes
    <3> QED
      BY <2>1, <2>2, <3>3, <3>4, <3>5, <3>6, <3>7
  <2> QED
    BY <2>3, <2>4
<1>3. CASE UNCHANGED vars
  BY <1>1, <1>3 DEF vars
<1>4. CASE Tick
  BY <1>1, <1>4 DEF Tick
<1>5. ASSUME NEW s \in Stock, SetActive(s) PROVE LedgerExplainsOnHand'
  BY <1>1, <1>5 DEF SetActive
<1>6. ASSUME NEW s \in Stock, NEW k \in HoldKeys, NEW q \in Quantity, NEW t \in Instants,
             NEW e \in 1..(MaxClock + 1), ReserveStock(s, k, q, t, e)
      PROVE  LedgerExplainsOnHand'
  BY <1>1, <1>6 DEF ReserveStock
<1>7. ASSUME NEW s \in Stock, NEW k \in HoldKeys, NEW q \in Quantity, NEW t \in Instants,
             ReserveReplay(s, k, q, t) \/ CheckoutHold(s, k, q, t)
      PROVE  LedgerExplainsOnHand'
  BY <1>1, <1>7 DEF ReserveReplay, CheckoutHold
<1>8. ASSUME NEW s \in Stock, NEW c \in Releasers, NEW k \in HoldKeys, ReleaseLoad(c, s, k)
      PROVE  LedgerExplainsOnHand'
  BY <1>1, <1>8 DEF ReleaseLoad
<1>9. ASSUME NEW c \in Releasers, ReleaseCommit(c) \/ ReleaseNoEffect(c)
      PROVE  LedgerExplainsOnHand'
  BY <1>1, <1>9 DEF ReleaseCommit, ReleaseNoEffect
<1> QED
  BY <1>2, <1>3, <1>4, <1>5, <1>6, <1>7, <1>8, <1>9, StepCases

-----------------------------------------------------------------------------
(* What a release saw active is never consumed afterwards.                 *)

LEMMA SeenActiveStep ==
    ASSUME TypeOK, SeenActiveNotConsumed, [Next]_vars
    PROVE  SeenActiveNotConsumed'
<1> SUFFICES ASSUME NEW b \in Releasers,
                    release'[b].stage = "loaded", release'[b].seen = "active"
             PROVE  status'[release'[b].stock][release'[b].key] \in {"active", "released", "expired"}
  BY DEF SeenActiveNotConsumed
<1> DEFINE Given == {"active", "released", "expired"}
<1>1. ASSUME release'[b] = release[b],
             \A s \in Stock, k \in HoldKeys : status[s][k] \in Given => status'[s][k] \in Given
      PROVE  status'[release'[b].stock][release'[b].key] \in Given
  <2>1. release[b].stock \in Stock /\ release[b].key \in HoldKeys
    BY <1>1 DEF TypeOK, Idle
  <2> QED
    BY <1>1, <2>1 DEF SeenActiveNotConsumed
<1>2. CASE UNCHANGED <<status, release>>
  BY <1>1, <1>2
<1>3. ASSUME NEW s \in Stock, NEW k \in HoldKeys, NEW q \in Quantity, NEW t \in Instants,
             \/ \E e \in 1..(MaxClock + 1) : ReserveStock(s, k, q, t, e)
             \/ ReserveReplay(s, k, q, t)
             \/ CheckoutHold(s, k, q, t)
      PROVE  status'[release'[b].stock][release'[b].key] \in Given
  <2>1. release' = release
    BY <1>3 DEF ReserveStock, ReserveReplay, CheckoutHold
  <2> SUFFICES ASSUME NEW p \in Stock, NEW j \in HoldKeys, status[p][j] \in Given
               PROVE  status'[p][j] \in Given
    BY <1>1, <2>1
  <2>2. status[p][j] # "none"
    OBVIOUS
  <2>3. CASE p # s
    <3>1. status'[p] = status[p]
      BY <1>3, <2>3 DEF ReserveStock, ReserveReplay, CheckoutHold, TypeOK
    <3> QED
      BY <3>1
  <2>4. CASE p = s
    <3>1. ASSUME status'[s][j] = status[s][j] \/ status'[s][j] = StatusAfterExpiry(s, t)[j]
          PROVE  status'[p][j] \in Given
      BY <2>4, <3>1 DEF StatusAfterExpiry
    <3>2. CASE ReserveReplay(s, k, q, t)
      BY <3>1, <3>2 DEF ReserveReplay, TypeOK
    <3>3. CASE CheckoutHold(s, k, q, t)
      BY <2>2, <2>4, <3>1, <3>3 DEF CheckoutHold, TypeOK
    <3>4. ASSUME NEW e \in 1..(MaxClock + 1), ReserveStock(s, k, q, t, e)
          PROVE  status'[p][j] \in Given
      <4>1. j # k
        BY <2>2, <2>4, <3>4 DEF ReserveStock
      <4>2. status'[s] = [StatusAfterExpiry(s, t) EXCEPT ![k] = "active"]
        BY <3>4 DEF ReserveStock, TypeOK
      <4>3. status'[s][j] = StatusAfterExpiry(s, t)[j]
        BY <4>1, <4>2
      <4> QED
        BY <3>1, <4>3
    <3> QED
      BY <1>3, <3>2, <3>3, <3>4
  <2> QED
    BY <2>3, <2>4
<1>4. ASSUME NEW s \in Stock, NEW c \in Releasers, NEW k \in HoldKeys, ReleaseLoad(c, s, k)
      PROVE  status'[release'[b].stock][release'[b].key] \in Given
  <2>1. CASE b = c
    BY <1>4, <2>1 DEF ReleaseLoad, Loaded, TypeOK
  <2>2. CASE b # c
    <3>1. release'[b] = release[b] /\ status' = status
      BY <1>4, <2>2 DEF ReleaseLoad, TypeOK
    <3> QED
      BY <1>1, <3>1
  <2> QED
    BY <2>1, <2>2
<1>5. ASSUME NEW c \in Releasers, ReleaseCommit(c) \/ ReleaseNoEffect(c)
      PROVE  status'[release'[b].stock][release'[b].key] \in Given
  <2>1. b # c
    BY <1>5 DEF ReleaseCommit, ReleaseNoEffect, Idle, TypeOK
  <2>2. release'[b] = release[b]
    BY <1>5, <2>1 DEF ReleaseCommit, ReleaseNoEffect, TypeOK
  <2> SUFFICES ASSUME NEW p \in Stock, NEW j \in HoldKeys, status[p][j] \in Given
               PROVE  status'[p][j] \in Given
    BY <1>1, <2>2
  <2>3. CASE ReleaseNoEffect(c)
    BY <2>3 DEF ReleaseNoEffect
  <2>4. CASE ReleaseCommit(c)
    <3>1. \/ status'[p][j] = status[p][j]
          \/ status'[p][j] \in {"expired", "released"}
      BY <2>4 DEF ReleaseCommit, TypeOK
    <3> QED
      BY <3>1
  <2> QED
    BY <1>5, <2>3, <2>4
<1>6. CASE UNCHANGED vars \/ Tick
  BY <1>2, <1>6 DEF vars, Tick
<1>7. ASSUME NEW s \in Stock,
             SetActive(s) \/ \E k \in AdjKeys, d \in Deltas : AdjustStock(s, k, d)
      PROVE  status'[release'[b].stock][release'[b].key] \in Given
  BY <1>2, <1>7 DEF SetActive, AdjustStock
<1> QED
  BY <1>3, <1>4, <1>5, <1>6, <1>7, StepCases

-----------------------------------------------------------------------------
(* reserved + what was returned twice = the quantity of the live holds.    *)

(* Expiring the holds that are due takes exactly their quantity out of the *)
(* live quantity.                                                          *)
LEMMA ExpirySplitsLive ==
    ASSUME TypeOK, NEW s \in Stock, NEW t, NEW rest,
           rest = [j \in HoldKeys |->
                     IF StatusAfterExpiry(s, t)[j] \in Live THEN qty[s][j] ELSE 0]
    PROVE  /\ rest \in [HoldKeys -> 0..MaxQty]
           /\ Held(s) = Total(rest, MaxQty) + Total(DueQty(s, t), MaxQty)
           /\ Total(rest, MaxQty) \in Nat
<1> MaxQty \in Nat /\ IsFiniteSet(HoldKeys)
  BY InventoryConstants
<1>1. rest \in [HoldKeys -> 0..MaxQty]
  BY DEF TypeOK
<1>2. \A j \in HoldKeys :
        \/ rest[j] = 0 /\ LiveQty(s)[j] = DueQty(s, t)[j]
        \/ DueQty(s, t)[j] = 0 /\ LiveQty(s)[j] = rest[j]
  BY DEF LiveQty, DueQty, Due, StatusAfterExpiry, Live
<1>3. /\ LiveQty(s) \in [HoldKeys -> 0..MaxQty]
      /\ DueQty(s, t) \in [HoldKeys -> 0..MaxQty]
  BY QtyTypes
<1>4. Total(LiveQty(s), MaxQty) = Total(rest, MaxQty) + Total(DueQty(s, t), MaxQty)
  BY <1>1, <1>2, <1>3, TotalSplit
<1>5. Total(rest, MaxQty) \in Nat
  BY <1>1, UnitsFinite
<1> QED
  BY <1>1, <1>4, <1>5 DEF Held

(* A step that leaves the rows of a pair alone leaves its account alone.   *)
LEMMA AccountUntouched ==
    ASSUME TypeOK, HoldsAccounted, NEW p \in Stock,
           status'[p] = status[p], qty'[p] = qty[p],
           reserved'[p] = reserved[p], overRefunded'[p] = overRefunded[p]
    PROVE  reserved'[p] + overRefunded'[p] = Held(p)'
<1>1. LiveQty(p)' = LiveQty(p)
  BY DEF LiveQty
<1>2. Held(p)' = Held(p)
  BY <1>1 DEF Held
<1> QED
  BY <1>2 DEF HoldsAccounted

LEMMA ReserveStockAccounted ==
    ASSUME TypeOK, HoldsAccounted, NEW s \in Stock, NEW k \in HoldKeys,
           NEW q \in Quantity, NEW t, NEW e, ReserveStock(s, k, q, t, e), TypeOK'
    PROVE  reserved'[s] + overRefunded'[s] = Held(s)'
<1> DEFINE rest == [j \in HoldKeys |->
                      IF StatusAfterExpiry(s, t)[j] \in Live THEN qty[s][j] ELSE 0]
<1> MaxQty \in Nat /\ IsFiniteSet(HoldKeys)
  BY InventoryConstants
<1>1. /\ rest \in [HoldKeys -> 0..MaxQty]
      /\ Held(s) = Total(rest, MaxQty) + Total(DueQty(s, t), MaxQty)
      /\ Total(rest, MaxQty) \in Nat
  BY ExpirySplitsLive
<1>2. rest[k] = 0
  BY DEF ReserveStock, StatusAfterExpiry, Due, Live
<1>3. /\ status'[s] = [StatusAfterExpiry(s, t) EXCEPT ![k] = "active"]
      /\ qty'[s] = [qty[s] EXCEPT ![k] = q]
      /\ reserved'[s] = ReservedAfterExpiry(s, t) + q
      /\ overRefunded'[s] = overRefunded[s]
  BY DEF ReserveStock, TypeOK
<1>4. LiveQty(s)' = [j \in HoldKeys |-> IF j = k THEN q ELSE rest[j]]
  <2>1. \A j \in HoldKeys : status'[s][j] = IF j = k THEN "active"
                                            ELSE StatusAfterExpiry(s, t)[j]
    BY <1>3, QtyTypes
  <2>2. \A j \in HoldKeys : qty'[s][j] = IF j = k THEN q ELSE qty[s][j]
    BY <1>3 DEF TypeOK
  <2> QED
    BY <2>1, <2>2 DEF LiveQty, Live
<1>5. LiveQty(s)' \in [HoldKeys -> 0..MaxQty]
  BY <1>1, <1>4 DEF Quantity
<1> HIDE DEF rest
<1>6. Total(LiveQty(s)', MaxQty) = Total(rest, MaxQty) - rest[k] + q
  <2>1. /\ LiveQty(s)'[k] = q
        /\ \A x \in HoldKeys \ {k} : LiveQty(s)'[x] = rest[x]
    BY <1>4
  <2> QED
    BY <1>1, <1>5, <2>1, TotalUpdate
<1>7. reserved[s] + overRefunded[s] = Held(s)
  BY DEF HoldsAccounted
<1>8. Total(DueQty(s, t), MaxQty) \in Nat
  BY QtyTypes
<1>9. /\ Held(s)' = Total(LiveQty(s)', MaxQty)
      /\ ReservedAfterExpiry(s, t) = reserved[s] - Total(DueQty(s, t), MaxQty)
      /\ reserved[s] \in Nat /\ overRefunded[s] \in Nat /\ q \in Nat
  BY DEF Held, ReservedAfterExpiry, TypeOK, Quantity
<1> QED
  BY <1>1, <1>2, <1>3, <1>6, <1>7, <1>8, <1>9

LEMMA ReserveReplayAccounted ==
    ASSUME TypeOK, HoldsAccounted, NEW s \in Stock, NEW k \in HoldKeys,
           NEW q, NEW t, ReserveReplay(s, k, q, t)
    PROVE  reserved'[s] + overRefunded'[s] = Held(s)'
<1>1. /\ status'[s] = StatusAfterExpiry(s, t)
      /\ qty'[s] = qty[s]
      /\ reserved'[s] = ReservedAfterExpiry(s, t)
      /\ overRefunded'[s] = overRefunded[s]
  BY DEF ReserveReplay, TypeOK
<1>2. LiveQty(s)' = [j \in HoldKeys |->
                       IF StatusAfterExpiry(s, t)[j] \in Live THEN qty[s][j] ELSE 0]
  BY <1>1 DEF LiveQty
<1>3. /\ Held(s) = Total(LiveQty(s)', MaxQty) + Total(DueQty(s, t), MaxQty)
      /\ Total(LiveQty(s)', MaxQty) \in Nat
  BY <1>2, ExpirySplitsLive
<1>4. reserved[s] + overRefunded[s] = Held(s)
  BY DEF HoldsAccounted
<1>5. Total(DueQty(s, t), MaxQty) \in Nat
  BY QtyTypes
<1>6. /\ Held(s)' = Total(LiveQty(s)', MaxQty)
      /\ ReservedAfterExpiry(s, t) = reserved[s] - Total(DueQty(s, t), MaxQty)
      /\ reserved[s] \in Nat /\ overRefunded[s] \in Nat
  BY DEF Held, ReservedAfterExpiry, TypeOK
<1> QED
  BY <1>1, <1>3, <1>4, <1>5, <1>6

LEMMA CheckoutHoldAccounted ==
    ASSUME TypeOK, HoldsAccounted, NEW s \in Stock, NEW k \in HoldKeys,
           NEW q \in Quantity, NEW t, CheckoutHold(s, k, q, t)
    PROVE  reserved'[s] + overRefunded'[s] = Held(s)'
<1> MaxQty \in Nat /\ IsFiniteSet(HoldKeys)
  BY InventoryConstants
<1>1. /\ status'[s] = [status[s] EXCEPT ![k] = "consumed"]
      /\ qty'[s] = [qty[s] EXCEPT ![k] = q]
      /\ reserved'[s] = reserved[s] + q
      /\ overRefunded'[s] = overRefunded[s]
  BY DEF CheckoutHold, TypeOK
<1>2. LiveQty(s)' = [j \in HoldKeys |-> IF j = k THEN q ELSE LiveQty(s)[j]]
  BY <1>1 DEF LiveQty, Live, TypeOK
<1>3. LiveQty(s) \in [HoldKeys -> 0..MaxQty] /\ Held(s) \in Nat
  BY QtyTypes
<1>4. LiveQty(s)' \in [HoldKeys -> 0..MaxQty]
  BY <1>2, <1>3 DEF Quantity
<1>5. LiveQty(s)[k] = 0
  BY DEF CheckoutHold, LiveQty, Live
<1>6. /\ LiveQty(s)'[k] = q
      /\ \A x \in HoldKeys \ {k} : LiveQty(s)'[x] = LiveQty(s)[x]
  BY <1>2
<1>7. Total(LiveQty(s)', MaxQty) = Total(LiveQty(s), MaxQty) - LiveQty(s)[k] + LiveQty(s)'[k]
  BY <1>3, <1>4, <1>6, TotalUpdate
<1>8. reserved[s] + overRefunded[s] = Held(s)
  BY DEF HoldsAccounted
<1> QED
  BY <1>1, <1>3, <1>5, <1>6, <1>7, <1>8 DEF Held, TypeOK, Quantity

LEMMA ReleaseCommitAccounted ==
    ASSUME TypeOK, HoldsAccounted, SeenActiveNotConsumed, NEW c \in Releasers,
           ReleaseCommit(c), NEW s, s = release[c].stock
    PROVE  reserved'[s] + overRefunded'[s] = Held(s)'
<1> MaxQty \in Nat /\ IsFiniteSet(HoldKeys)
  BY InventoryConstants
<1> DEFINE k == release[c].key
<1>1. s \in Stock /\ k \in HoldKeys /\ qty[s][k] \in 0..MaxQty
  BY DEF ReleaseCommit, TypeOK, Idle
<1>2. status[s][k] \in {"active", "released", "expired"}
  BY DEF SeenActiveNotConsumed, ReleaseCommit
<1> DEFINE new == IF expires[s][k] <= clock THEN "expired" ELSE "released"
<1>3. /\ status'[s] = [status[s] EXCEPT ![k] = new]
      /\ qty' = qty
      /\ reserved'[s] = reserved[s] - qty[s][k]
      /\ overRefunded'[s] = IF status[s][k] = "active" THEN overRefunded[s]
                                                       ELSE overRefunded[s] + qty[s][k]
  BY <1>1 DEF ReleaseCommit, TypeOK
<1>4. LiveQty(s)' = [j \in HoldKeys |-> IF j = k THEN 0 ELSE LiveQty(s)[j]]
  BY <1>1, <1>3 DEF LiveQty, Live, TypeOK
<1>5. LiveQty(s) \in [HoldKeys -> 0..MaxQty] /\ Held(s) \in Nat
  BY <1>1, QtyTypes
<1>6. LiveQty(s)' \in [HoldKeys -> 0..MaxQty]
  BY <1>4, <1>5
<1>7. LiveQty(s)[k] = IF status[s][k] = "active" THEN qty[s][k] ELSE 0
  BY <1>1, <1>2 DEF LiveQty, Live
<1>8. /\ LiveQty(s)'[k] = 0
      /\ \A x \in HoldKeys \ {k} : LiveQty(s)'[x] = LiveQty(s)[x]
  BY <1>1, <1>4
<1> HIDE DEF k
<1>9. Total(LiveQty(s)', MaxQty) = Total(LiveQty(s), MaxQty) - LiveQty(s)[k] + LiveQty(s)'[k]
  BY <1>1, <1>5, <1>6, <1>8, TotalUpdate
<1>10. reserved[s] + overRefunded[s] = Held(s)
  BY <1>1 DEF HoldsAccounted
<1> QED
  BY <1>1, <1>3, <1>5, <1>7, <1>8, <1>9, <1>10 DEF Held, TypeOK

LEMMA AccountedStep ==
    ASSUME TypeOK, TypeOK', HoldsAccounted, SeenActiveNotConsumed, [Next]_vars
    PROVE  HoldsAccounted'
<1> SUFFICES ASSUME NEW p \in Stock PROVE reserved'[p] + overRefunded'[p] = Held(p)'
  BY DEF HoldsAccounted
<1>1. CASE UNCHANGED vars \/ Tick
  BY <1>1, AccountUntouched DEF vars, Tick
<1>2. ASSUME NEW s \in Stock,
             SetActive(s) \/ \E k \in AdjKeys, d \in Deltas : AdjustStock(s, k, d)
      PROVE  reserved'[p] + overRefunded'[p] = Held(p)'
  BY <1>2, AccountUntouched DEF SetActive, AdjustStock
<1>3. ASSUME NEW s \in Stock, NEW k \in HoldKeys, NEW q \in Quantity, NEW t \in Instants,
             NEW e \in 1..(MaxClock + 1), ReserveStock(s, k, q, t, e)
      PROVE  reserved'[p] + overRefunded'[p] = Held(p)'
  <2>1. CASE p = s
    BY <1>3, <2>1, ReserveStockAccounted
  <2>2. CASE p # s
    BY <1>3, <2>2, AccountUntouched DEF ReserveStock, TypeOK
  <2> QED
    BY <2>1, <2>2
<1>4. ASSUME NEW s \in Stock, NEW k \in HoldKeys, NEW q \in Quantity, NEW t \in Instants,
             ReserveReplay(s, k, q, t)
      PROVE  reserved'[p] + overRefunded'[p] = Held(p)'
  <2>1. CASE p = s
    BY <1>4, <2>1, ReserveReplayAccounted
  <2>2. CASE p # s
    BY <1>4, <2>2, AccountUntouched DEF ReserveReplay, TypeOK
  <2> QED
    BY <2>1, <2>2
<1>5. ASSUME NEW s \in Stock, NEW k \in HoldKeys, NEW q \in Quantity, NEW t \in Instants,
             CheckoutHold(s, k, q, t)
      PROVE  reserved'[p] + overRefunded'[p] = Held(p)'
  <2>1. CASE p = s
    BY <1>5, <2>1, CheckoutHoldAccounted
  <2>2. CASE p # s
    BY <1>5, <2>2, AccountUntouched DEF CheckoutHold, TypeOK
  <2> QED
    BY <2>1, <2>2
<1>6. ASSUME NEW s \in Stock, NEW c \in Releasers, NEW k \in HoldKeys, ReleaseLoad(c, s, k)
      PROVE  reserved'[p] + overRefunded'[p] = Held(p)'
  BY <1>6, AccountUntouched DEF ReleaseLoad
<1>7. ASSUME NEW c \in Releasers, ReleaseCommit(c)
      PROVE  reserved'[p] + overRefunded'[p] = Held(p)'
  <2>1. CASE p = release[c].stock
    BY <1>7, <2>1, ReleaseCommitAccounted
  <2>2. CASE p # release[c].stock
    BY <1>7, <2>2, AccountUntouched DEF ReleaseCommit, TypeOK
  <2> QED
    BY <2>1, <2>2
<1>8. ASSUME NEW c \in Releasers, ReleaseNoEffect(c)
      PROVE  reserved'[p] + overRefunded'[p] = Held(p)'
  BY <1>8, AccountUntouched DEF ReleaseNoEffect
<1> QED
  BY <1>1, <1>2, <1>3, <1>4, <1>5, <1>6, <1>7, <1>8, StepCases

-----------------------------------------------------------------------------
(* The theorems.                                                           *)

LEMMA StockInvInit == Init => StockInv
<1> SUFFICES ASSUME Init PROVE StockInv
  OBVIOUS
<1> MaxQty \in Nat
  BY InventoryConstants
<1>1. TypeOK
  BY TypeInit
<1>2. ReservedWithinStock
  BY DEF Init, ReservedWithinStock
<1>3. LedgerExplainsOnHand
  <2> SUFFICES ASSUME NEW s \in Stock
               PROVE  onHand[s] = Total(Received(s), MaxQty) - Total(Removed(s), MaxQty)
    BY DEF LedgerExplainsOnHand
  <2>1. \A k \in AdjKeys : Received(s)[k] = 0 /\ Removed(s)[k] = 0
    BY DEF Init, Received, Removed
  <2>2. /\ Received(s) \in [AdjKeys -> 0..MaxQty]
        /\ Removed(s) \in [AdjKeys -> 0..MaxQty]
    BY <1>1, LedgerTypes
  <2>3. Total(Received(s), MaxQty) = 0 /\ Total(Removed(s), MaxQty) = 0
    BY <2>1, <2>2, TotalZero
  <2> QED
    BY <2>3 DEF Init
<1>4. HoldsAccounted
  <2> SUFFICES ASSUME NEW s \in Stock PROVE reserved[s] + overRefunded[s] = Held(s)
    BY DEF HoldsAccounted
  <2>1. \A k \in HoldKeys : LiveQty(s)[k] = 0
    BY DEF Init, LiveQty
  <2>2. LiveQty(s) \in [HoldKeys -> 0..MaxQty]
    BY <1>1, QtyTypes
  <2>3. Held(s) = 0
    BY <2>1, <2>2, TotalZero DEF Held
  <2> QED
    BY <2>3 DEF Init
<1>5. SeenActiveNotConsumed
  BY DEF Init, SeenActiveNotConsumed, Idle
<1> QED
  BY <1>1, <1>2, <1>3, <1>4, <1>5 DEF StockInv

LEMMA StockInvStep == StockInv /\ [Next]_vars => StockInv'
<1> SUFFICES ASSUME StockInv, [Next]_vars PROVE StockInv'
  OBVIOUS
<1> USE DEF StockInv
<1>1. TypeOK'
  BY TypeStep
<1>2. ReservedWithinStock'
  BY WithinStockStep
<1>3. LedgerExplainsOnHand'
  BY LedgerStep
<1>4. HoldsAccounted'
  BY <1>1, AccountedStep
<1>5. SeenActiveNotConsumed'
  BY SeenActiveStep
<1> QED
  BY <1>1, <1>2, <1>3, <1>4, <1>5

LEMMA StockInvariant == Spec => []StockInv
<1> QED
  BY StockInvInit, StockInvStep, PTL DEF Spec

(* No interleaving of adjustments, reservations, checkouts and stale       *)
(* releases makes the reserved quantity exceed the stock: the CHECK        *)
(* reserved_lte_on_hand of inventory_balances can never fire.              *)
THEOREM ReservedStaysWithinStock == Spec => []ReservedWithinStock
<1>1. StockInv => ReservedWithinStock
  BY DEF StockInv
<1> QED
  BY <1>1, StockInvariant, PTL

(* adjust_stock applies each idempotency key once, and stock moves in no   *)
(* other way: on hand is the sum of the ledger.                            *)
THEOREM LedgerIsComplete == Spec => []LedgerExplainsOnHand
<1>1. StockInv => LedgerExplainsOnHand
  BY DEF StockInv
<1> QED
  BY <1>1, StockInvariant, PTL

(* The reserved quantity differs from the live holds exactly by what       *)
(* release_reservation returned for holds that were no longer active.      *)
THEOREM HoldsAreAccounted == Spec => []HoldsAccounted
<1>1. StockInv => HoldsAccounted
  BY DEF StockInv
<1> QED
  BY <1>1, StockInvariant, PTL

(* Hence, as long as every release is effective at most once, live holds   *)
(* never exceed the stock: the lost idempotency is the only way to oversell. *)
THEOREM IdempotentReleaseNeverOversells ==
    Spec => [](ReleaseIsIdempotent => NoOversell)
<1>1. StockInv => (ReleaseIsIdempotent => NoOversell)
  <2> SUFFICES ASSUME StockInv, ReleaseIsIdempotent, NEW s \in Stock
               PROVE  Held(s) <= onHand[s]
    BY DEF NoOversell
  <2>1. /\ reserved[s] + overRefunded[s] = Held(s)
        /\ overRefunded[s] = 0
        /\ reserved[s] <= onHand[s]
        /\ reserved[s] \in Nat
    BY DEF StockInv, TypeOK, HoldsAccounted, ReleaseIsIdempotent, ReservedWithinStock
  <2> QED
    BY <2>1
<1> QED
  BY <1>1, StockInvariant, PTL

LEMMA ConsumedStep ==
    ASSUME StockInv, [Next]_vars, NEW p \in Stock, NEW j \in HoldKeys,
           status[p][j] = "consumed"
    PROVE  status'[p][j] = "consumed" /\ qty'[p][j] = qty[p][j]
<1> USE DEF StockInv
<1>1. CASE UNCHANGED <<status, qty>>
  BY <1>1
<1>2. ASSUME NEW s \in Stock, NEW k \in HoldKeys, NEW q \in Quantity, NEW t \in Instants,
             NEW e \in 1..(MaxClock + 1), ReserveStock(s, k, q, t, e)
      PROVE  status'[p][j] = "consumed" /\ qty'[p][j] = qty[p][j]
  <2>1. ~(p = s /\ j = k)
    BY <1>2 DEF ReserveStock
  <2>2. StatusAfterExpiry(p, t)[j] = "consumed"
    BY DEF StatusAfterExpiry, Due
  <2>3. /\ status'[p] = IF p = s THEN [StatusAfterExpiry(s, t) EXCEPT ![k] = "active"]
                                 ELSE status[p]
        /\ qty'[p] = IF p = s THEN [qty[s] EXCEPT ![k] = q] ELSE qty[p]
    BY <1>2 DEF ReserveStock, TypeOK
  <2> QED
    BY <2>1, <2>2, <2>3, QtyTypes DEF TypeOK
<1>3. ASSUME NEW s \in Stock, NEW k \in HoldKeys, NEW q \in Quantity, NEW t \in Instants,
             ReserveReplay(s, k, q, t)
      PROVE  status'[p][j] = "consumed" /\ qty'[p][j] = qty[p][j]
  BY <1>3 DEF ReserveReplay, StatusAfterExpiry, Due, TypeOK
<1>4. ASSUME NEW s \in Stock, NEW k \in HoldKeys, NEW q \in Quantity, NEW t \in Instants,
             CheckoutHold(s, k, q, t)
      PROVE  status'[p][j] = "consumed" /\ qty'[p][j] = qty[p][j]
  <2>1. ~(p = s /\ j = k)
    BY <1>4 DEF CheckoutHold
  <2> QED
    BY <1>4, <2>1 DEF CheckoutHold, TypeOK
<1>5. ASSUME NEW c \in Releasers, ReleaseCommit(c)
      PROVE  status'[p][j] = "consumed" /\ qty'[p][j] = qty[p][j]
  <2>1. status[release[c].stock][release[c].key] # "consumed"
    BY <1>5 DEF SeenActiveNotConsumed, ReleaseCommit
  <2>2. ~(p = release[c].stock /\ j = release[c].key)
    BY <2>1
  <2>3. status'[p][j] = status[p][j] /\ qty' = qty
    BY <1>5, <2>2 DEF ReleaseCommit, TypeOK
  <2> QED
    BY <2>3
<1>6. CASE UNCHANGED vars \/ Tick
  BY <1>1, <1>6 DEF vars, Tick
<1>7. ASSUME NEW s \in Stock,
             SetActive(s) \/ \E k \in AdjKeys, d \in Deltas : AdjustStock(s, k, d)
      PROVE  status'[p][j] = "consumed" /\ qty'[p][j] = qty[p][j]
  BY <1>1, <1>7 DEF SetActive, AdjustStock
<1>8. ASSUME NEW s \in Stock, NEW c \in Releasers, NEW k \in HoldKeys, ReleaseLoad(c, s, k)
      PROVE  status'[p][j] = "consumed" /\ qty'[p][j] = qty[p][j]
  BY <1>1, <1>8 DEF ReleaseLoad
<1>9. ASSUME NEW c \in Releasers, ReleaseNoEffect(c)
      PROVE  status'[p][j] = "consumed" /\ qty'[p][j] = qty[p][j]
  BY <1>1, <1>9 DEF ReleaseNoEffect
<1> QED
  BY <1>2, <1>3, <1>4, <1>5, <1>6, <1>7, <1>8, <1>9, StepCases

(* The stock of a confirmed order stays held: no expiry and no stale       *)
(* release undoes a consumed reservation.                                  *)
THEOREM ConsumedStaysConsumed == Spec => ConsumedIsFinal
<1>1. StockInv /\ [Next]_vars =>
        [\A s \in Stock, k \in HoldKeys :
           status[s][k] = "consumed" =>
              status'[s][k] = "consumed" /\ qty'[s][k] = qty[s][k]]_vars
  BY ConsumedStep
<1> QED
  BY <1>1, StockInvariant, PTL DEF Spec, ConsumedIsFinal
====
