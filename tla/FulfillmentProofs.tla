---- MODULE FulfillmentProofs ----
(***************************************************************************)
(* The slots, statuses and deliveries of Fulfillment, for any number of    *)
(* orders, slots and requests. The invariant says what a request in the    *)
(* middle of its work may rely on: the row it has locked still reads as it *)
(* did, because nobody writes a row that another request has locked.       *)
(***************************************************************************)
EXTENDS Fulfillment, FiniteSetTheorems, TLAPS

Scheduling(c) ==
    call[c].at \in {"schedule.slot", "schedule.insert"} =>
        /\ call[c].order \in Orders /\ call[c].slot \in Slots
        /\ lock[OrderRow(call[c].order)] = c
        /\ delivery[call[c].order] = "none"

(* The place that was counted free is still free.                          *)
PlaceKept(c) ==
    call[c].at = "schedule.insert" =>
        /\ lock[SlotRow(call[c].slot)] = c
        /\ Cardinality(InSlot(call[c].slot)) < Capacity[call[c].slot]

Delivering(c) ==
    call[c].at = "deliver.order" =>
        /\ call[c].order \in Orders
        /\ lock[DeliveryRow(call[c].order)] = c
        /\ delivery[call[c].order] = "in_transit"

Dispatching(c) ==
    call[c].at \in {"dispatch.order", "dispatch.delivery"} =>
        /\ call[c].order \in Orders
        /\ lock[TaskRow(call[c].order)] = c
        /\ task[call[c].order] = "staged"

Relies(c) == Scheduling(c) /\ PlaceKept(c) /\ Delivering(c) /\ Dispatching(c)

FulfillmentInv ==
    /\ TypeOK
    /\ \A c \in Calls : Relies(c)
    /\ SlotWithinCapacity
    /\ FulfilledTogether

-----------------------------------------------------------------------------
(* What a step has to leave alone for another request: the rows it holds.  *)
Respects(d) ==
    /\ call'[d] = call[d]
    /\ \A r \in Rows : lock[r] = d => lock'[r] = d
    /\ \A o \in Orders :
        /\ lock[OrderRow(o)] = d /\ delivery[o] = "none" => delivery'[o] = "none"
        /\ lock[DeliveryRow(o)] = d /\ delivery[o] = "in_transit" => delivery'[o] = "in_transit"
        /\ lock[TaskRow(o)] = d => task'[o] = task[o]
    /\ \A s \in Slots : lock[SlotRow(s)] = d => InSlot(s)' = InSlot(s)

LEMMA RowsExist ==
    /\ \A o \in Orders : OrderRow(o) \in Rows /\ TaskRow(o) \in Rows /\ DeliveryRow(o) \in Rows
    /\ \A s \in Slots : SlotRow(s) \in Rows
BY DEF Rows

LEMMA SlotsFinite == \A s \in Slots :
    IsFiniteSet(InSlot(s)) /\ Cardinality(InSlot(s)) \in Nat /\ Capacity[s] \in Nat
<1>1. \A s \in Slots : InSlot(s) \in SUBSET Orders
    BY DEF InSlot
<1> QED
    BY <1>1, FulfillmentConstants, FS_Subset, FS_CardinalityType

LEMMA Respected ==
    ASSUME NEW d \in Calls, Relies(d), Respects(d), TypeOK
    PROVE  Relies(d)'
<1>1. Scheduling(d)'
    BY RowsExist DEF Relies, Scheduling, Respects
<1>2. PlaceKept(d)'
    <2>1. SUFFICES ASSUME call[d].at = "schedule.insert"
                   PROVE  /\ lock'[SlotRow(call[d].slot)] = d
                          /\ Cardinality(InSlot(call[d].slot)') < Capacity[call[d].slot]
        BY DEF PlaceKept, Respects, InSlot
    <2>2. call[d].slot \in Slots
        BY <2>1 DEF Relies, Scheduling
    <2> QED
        BY <2>1, <2>2, RowsExist DEF Relies, PlaceKept, Respects
<1>3. Delivering(d)'
    BY RowsExist DEF Relies, Delivering, Respects
<1>4. Dispatching(d)'
    BY RowsExist DEF Relies, Dispatching, Respects
<1> QED
    BY <1>1, <1>2, <1>3, <1>4 DEF Relies

(* A request that is over relies on nothing.                               *)
LEMMA IdleRelies ==
    ASSUME NEW c \in Calls, call'[c] = Idle
    PROVE  Relies(c)'
BY DEF Relies, Scheduling, PlaceKept, Delivering, Dispatching, Idle

(* Taking a free row and giving back one's own touches no other request.   *)
LEMMA TakeFrame ==
    ASSUME TypeOK, NEW c \in Calls, NEW r \in Rows, Free(r), Take(c, r)
    PROVE  /\ lock' \in [Rows -> Calls \cup {Nobody}]
           /\ lock'[r] = c
           /\ \A x \in Rows : lock[x] \in Calls => lock'[x] = lock[x]
BY FulfillmentConstants DEF TypeOK, Free, Take

LEMMA EndFrame ==
    ASSUME TypeOK, NEW c \in Calls, End(c)
    PROVE  /\ lock' \in [Rows -> Calls \cup {Nobody}]
           /\ call' \in [Calls -> [at : Ats, order : Orders \cup {Nobody}, slot : Slots \cup {NoSlot}]]
           /\ call'[c] = Idle
           /\ \A d \in Calls \ {c} :
                /\ call'[d] = call[d]
                /\ \A r \in Rows : lock[r] = d => lock'[r] = d
<1>1. Idle \in [at : Ats, order : Orders \cup {Nobody}, slot : Slots \cup {NoSlot}]
    BY DEF Idle, Ats
<1> QED
    BY <1>1 DEF TypeOK, End

-----------------------------------------------------------------------------
(* One step keeps the invariant. The picking task and the delivery while   *)
(* no request holds their rows:                                            *)

LEMMA TaskStepKeeps ==
    ASSUME FulfillmentInv, NEW o \in Orders,
           NEW from, NEW to \in {"picking", "picked", "staged"}, TaskStep(o, from, to)
    PROVE  FulfillmentInv'
<1>1. TypeOK'
    BY DEF FulfillmentInv, TypeOK, TaskStep, TaskStates, TaskSteps
<1>2. ASSUME NEW d \in Calls PROVE Respects(d)
    BY FulfillmentConstants DEF FulfillmentInv, TypeOK, TaskStep, Free, Respects, InSlot
<1>3. \A d \in Calls : Relies(d)'
    BY <1>2, Respected DEF FulfillmentInv
<1>4. SlotWithinCapacity'
    BY DEF FulfillmentInv, SlotWithinCapacity, InSlot, TaskStep
<1>5. FulfilledTogether'
    BY DEF FulfillmentInv, FulfilledTogether, TaskStep, TypeOK
<1> QED
    BY <1>1, <1>3, <1>4, <1>5 DEF FulfillmentInv

LEMMA ScanKeeps ==
    ASSUME FulfillmentInv, NEW o \in Orders, NEW q \in 1..MaxPicked, NEW d \in BOOLEAN,
           ScanAndPick(o, q, d)
    PROVE  FulfillmentInv'
<1>0. UNCHANGED <<order, task, delivery, slot, lock, call>>
    BY DEF ScanAndPick
<1>1. item' \in [Orders -> [picked : 0..MaxPicked, short : BOOLEAN, damaged : BOOLEAN]]
    <2> DEFINE Items == [picked : 0..MaxPicked, short : BOOLEAN, damaged : BOOLEAN]
    <2>1. item \in [Orders -> Items] /\ item[o] \in Items
        BY DEF FulfillmentInv, TypeOK
    <2>2. CASE d
        <3>1. [item[o] EXCEPT !.damaged = TRUE, !.short = TRUE] \in Items
            BY <2>1
        <3>2. item' = [item EXCEPT ![o] = [item[o] EXCEPT !.damaged = TRUE, !.short = TRUE]]
            BY <2>2 DEF ScanAndPick
        <3> HIDE DEF Items
        <3> QED
            BY <2>1, <3>1, <3>2 DEF Items
    <2>3. CASE ~d
        <3>1. item[o].picked + q \in 0..MaxPicked
            BY <2>1, <2>3, FulfillmentConstants DEF ScanAndPick
        <3>2. StillShort([item[o] EXCEPT !.picked = @ + q]) \in BOOLEAN
            BY DEF StillShort
        <3>3. Scanned(item[o], q) \in Items
            BY <2>1, <3>1, <3>2 DEF Scanned
        <3> QED
            BY <2>1, <2>3, <3>3 DEF ScanAndPick
    <2> QED
        BY <2>2, <2>3
<1>2. TypeOK'
    BY <1>0, <1>1 DEF FulfillmentInv, TypeOK
<1>3. \A c \in Calls : Relies(c)'
    BY <1>0 DEF FulfillmentInv, Relies, Scheduling, PlaceKept, Delivering, Dispatching, InSlot
<1>4. SlotWithinCapacity' /\ FulfilledTogether'
    BY <1>0 DEF FulfillmentInv, SlotWithinCapacity, FulfilledTogether, InSlot
<1> QED
    BY <1>2, <1>3, <1>4 DEF FulfillmentInv

LEMMA DeliveryStepKeeps ==
    ASSUME FulfillmentInv, NEW o \in Orders, NEW from, "none" \notin from,
           NEW to \in {"assigned", "picked_up", "in_transit"}, DeliveryStep(o, from, to)
    PROVE  FulfillmentInv'
<1>1. TypeOK'
    BY DEF FulfillmentInv, TypeOK, DeliveryStep, DeliveryStates, Progress
<1>2. \A s \in Slots : InSlot(s)' = InSlot(s)
    BY DEF FulfillmentInv, TypeOK, DeliveryStep, InSlot
<1>3. ASSUME NEW d \in Calls PROVE Respects(d)
    BY <1>2, FulfillmentConstants DEF FulfillmentInv, TypeOK, DeliveryStep, Free, Respects
<1>4. \A d \in Calls : Relies(d)'
    BY <1>3, Respected DEF FulfillmentInv
<1>5. SlotWithinCapacity'
    BY <1>2 DEF FulfillmentInv, SlotWithinCapacity
<1>6. FulfilledTogether'
    BY DEF FulfillmentInv, FulfilledTogether, DeliveryStep, TypeOK
<1> QED
    BY <1>1, <1>4, <1>5, <1>6 DEF FulfillmentInv

-----------------------------------------------------------------------------
(* The steps of a request that write nothing yet, or nothing at all.       *)

LEMMA CallTypes ==
    /\ Idle \in [at : Ats, order : Orders \cup {Nobody}, slot : Slots \cup {NoSlot}]
    /\ \A at \in Ats, o \in Orders, s \in Slots \cup {NoSlot} :
        [at |-> at, order |-> o, slot |-> s] \in
            [at : Ats, order : Orders \cup {Nobody}, slot : Slots \cup {NoSlot}]
BY DEF Idle, Ats

LEMMA NothingWritten ==
    ASSUME FulfillmentInv, NEW c \in Calls, UNCHANGED rows,
           lock' \in [Rows -> Calls \cup {Nobody}],
           call' \in [Calls -> [at : Ats, order : Orders \cup {Nobody}, slot : Slots \cup {NoSlot}]],
           \A d \in Calls \ {c} :
               /\ call'[d] = call[d]
               /\ \A r \in Rows : lock[r] = d => lock'[r] = d,
           Relies(c)'
    PROVE  FulfillmentInv'
<1>1. TypeOK'
    BY DEF FulfillmentInv, TypeOK, rows
<1>2. \A d \in Calls \ {c} : Respects(d)
    BY DEF Respects, rows, InSlot
<1>3. \A d \in Calls : Relies(d)'
    BY <1>2, Respected DEF FulfillmentInv
<1>4. SlotWithinCapacity' /\ FulfilledTogether'
    BY DEF FulfillmentInv, SlotWithinCapacity, FulfilledTogether, InSlot, rows
<1> QED
    BY <1>1, <1>3, <1>4 DEF FulfillmentInv

LEMMA GivingUpKeeps ==
    ASSUME FulfillmentInv, NEW c \in Calls, End(c), UNCHANGED rows
    PROVE  FulfillmentInv'
BY EndFrame, IdleRelies, NothingWritten DEF FulfillmentInv

LEMMA StartKeeps ==
    ASSUME FulfillmentInv, NEW c \in Calls, NEW o \in Orders, NEW s \in Slots \cup {NoSlot},
           NEW at \in {"schedule.slot", "deliver.order", "dispatch.order"},
           NEW r \in Rows, Free(r), Take(c, r), Begin(c, at, o, s), UNCHANGED rows,
           at = "schedule.slot" => r = OrderRow(o) /\ s \in Slots /\ delivery[o] = "none",
           at = "deliver.order" => r = DeliveryRow(o) /\ delivery[o] = "in_transit",
           at = "dispatch.order" => r = TaskRow(o) /\ task[o] = "staged"
    PROVE  FulfillmentInv'
<1>1. /\ lock' \in [Rows -> Calls \cup {Nobody}] /\ lock'[r] = c
      /\ \A x \in Rows : lock[x] \in Calls => lock'[x] = lock[x]
    BY TakeFrame DEF FulfillmentInv
<1>2. /\ call' \in [Calls -> [at : Ats, order : Orders \cup {Nobody}, slot : Slots \cup {NoSlot}]]
      /\ call'[c] = [at |-> at, order |-> o, slot |-> s]
      /\ \A d \in Calls \ {c} : call'[d] = call[d]
    BY CallTypes DEF FulfillmentInv, TypeOK, Begin, Ats
<1>3. Relies(c)'
    <2>1. call'[c].at = at /\ call'[c].order = o /\ call'[c].slot = s
        BY <1>2
    <2> QED
        BY <1>1, <2>1 DEF Relies, Scheduling, PlaceKept, Delivering, Dispatching, rows
<1> QED
    BY <1>1, <1>2, <1>3, NothingWritten

LEMMA ScheduleLockSlotKeeps ==
    ASSUME FulfillmentInv, NEW c \in Calls, ScheduleLockSlot(c)
    PROVE  FulfillmentInv'
<1> DEFINE o == call[c].order
           s == call[c].slot
<1>1. o \in Orders /\ s \in Slots /\ lock[OrderRow(o)] = c /\ delivery[o] = "none"
    BY DEF FulfillmentInv, Relies, Scheduling, ScheduleLockSlot
<1>2. /\ lock' \in [Rows -> Calls \cup {Nobody}] /\ lock'[SlotRow(s)] = c
      /\ \A x \in Rows : lock[x] \in Calls => lock'[x] = lock[x]
    BY <1>1, RowsExist, TakeFrame DEF FulfillmentInv, ScheduleLockSlot, CanUseSlot, Free
<1>3. /\ call' \in [Calls -> [at : Ats, order : Orders \cup {Nobody}, slot : Slots \cup {NoSlot}]]
      /\ call'[c].at = "schedule.insert" /\ call'[c].order = o /\ call'[c].slot = s
      /\ \A d \in Calls \ {c} : call'[d] = call[d]
    BY DEF FulfillmentInv, TypeOK, ScheduleLockSlot, Goto, Ats
<1>4. UNCHANGED rows /\ Cardinality(InSlot(s)) < Capacity[s]
    BY DEF ScheduleLockSlot, CanUseSlot
<1>5. lock'[OrderRow(o)] = c
    BY <1>1, <1>2, RowsExist
<1> HIDE DEF o, s
<1>6. Relies(c)'
    BY <1>1, <1>2, <1>3, <1>4, <1>5
    DEF Relies, Scheduling, PlaceKept, Delivering, Dispatching, rows, InSlot
<1> QED
    BY <1>2, <1>3, <1>4, <1>6, NothingWritten

LEMMA DispatchLockOrderKeeps ==
    ASSUME FulfillmentInv, NEW c \in Calls, DispatchLockOrder(c)
    PROVE  FulfillmentInv'
<1> DEFINE o == call[c].order
<1>1. o \in Orders /\ lock[TaskRow(o)] = c /\ task[o] = "staged"
    BY DEF FulfillmentInv, Relies, Dispatching, DispatchLockOrder
<1>2. /\ lock' \in [Rows -> Calls \cup {Nobody}]
      /\ \A x \in Rows : lock[x] \in Calls => lock'[x] = lock[x]
    BY <1>1, RowsExist, TakeFrame DEF FulfillmentInv, DispatchLockOrder
<1>3. /\ call' \in [Calls -> [at : Ats, order : Orders \cup {Nobody}, slot : Slots \cup {NoSlot}]]
      /\ call'[c].at = "dispatch.delivery" /\ call'[c].order = o
      /\ \A d \in Calls \ {c} : call'[d] = call[d]
    BY DEF FulfillmentInv, TypeOK, DispatchLockOrder, Goto, Ats
<1>4. UNCHANGED rows /\ lock'[TaskRow(o)] = c
    BY <1>1, <1>2, RowsExist DEF DispatchLockOrder
<1> HIDE DEF o
<1>5. Relies(c)'
    BY <1>1, <1>3, <1>4 DEF Relies, Scheduling, PlaceKept, Delivering, Dispatching, rows
<1> QED
    BY <1>2, <1>3, <1>4, <1>5, NothingWritten

-----------------------------------------------------------------------------
(* The commits.                                                            *)

LEMMA ScheduleCommitKeeps ==
    ASSUME FulfillmentInv, NEW c \in Calls, ScheduleCommit(c)
    PROVE  FulfillmentInv'
<1>0. PICK o \in Orders, s \in Slots : o = call[c].order /\ s = call[c].slot
    BY DEF FulfillmentInv, Relies, Scheduling, ScheduleCommit
<1>1. /\ delivery[o] = "none"
      /\ lock[OrderRow(o)] = c /\ lock[SlotRow(s)] = c
      /\ Cardinality(InSlot(s)) < Capacity[s]
    BY <1>0 DEF FulfillmentInv, Relies, Scheduling, PlaceKept, ScheduleCommit
<1>2. /\ delivery' = [delivery EXCEPT ![o] = "scheduled"]
      /\ slot' = [slot EXCEPT ![o] = s]
      /\ order' = [order EXCEPT ![o] = Fulfilled(order[o])]
      /\ End(c) /\ task' = task /\ item' = item
    BY <1>0 DEF ScheduleCommit
<1>3. order'[o] = "fulfilled" /\ \A x \in Orders \ {o} : order'[x] = order[x]
    BY <1>1, <1>2 DEF FulfillmentInv, TypeOK, Fulfilled
<1>4. TypeOK'
    <2>1. order' \in [Orders -> {"confirmed", "fulfilled"}]
        BY <1>1, <1>2, <1>3 DEF FulfillmentInv, TypeOK
    <2> QED
        BY <1>1, <1>2, <2>1, EndFrame
        DEF FulfillmentInv, TypeOK, DeliveryStates, Progress
<1>5. InSlot(s)' = InSlot(s) \cup {o} /\ o \notin InSlot(s)
    BY <1>1, <1>2 DEF FulfillmentInv, TypeOK, InSlot
<1>6. \A t \in Slots \ {s} : InSlot(t)' = InSlot(t)
    BY <1>1, <1>2 DEF FulfillmentInv, TypeOK, InSlot
<1>7. ASSUME NEW d \in Calls \ {c} PROVE Respects(d)
    <2>1. lock[OrderRow(o)] # d /\ lock[SlotRow(s)] # d
        BY <1>1
    <2>2. \A x \in Orders : lock[OrderRow(x)] = d /\ delivery[x] = "none" => delivery'[x] = "none"
        BY <1>2, <2>1 DEF FulfillmentInv, TypeOK
    <2>3. \A x \in Orders : delivery[x] = "in_transit" => delivery'[x] = "in_transit"
        BY <1>1, <1>2 DEF FulfillmentInv, TypeOK
    <2> QED
        BY <1>2, <1>6, <2>1, <2>2, <2>3, EndFrame DEF Respects, FulfillmentInv
<1>8. \A d \in Calls : Relies(d)'
    BY <1>2, <1>7, Respected, IdleRelies, EndFrame DEF FulfillmentInv
<1>9. SlotWithinCapacity'
    <2>1. Cardinality(InSlot(s) \cup {o}) = Cardinality(InSlot(s)) + 1
        BY <1>5, SlotsFinite, FS_AddElement
    <2>2. Cardinality(InSlot(s)') <= Capacity[s]
        BY <1>1, <1>5, <2>1, SlotsFinite
    <2> QED
        BY <1>6, <2>2 DEF FulfillmentInv, SlotWithinCapacity
<1>10. FulfilledTogether'
    BY <1>1, <1>2, <1>3 DEF FulfillmentInv, TypeOK, FulfilledTogether
<1> QED
    BY <1>4, <1>8, <1>9, <1>10 DEF FulfillmentInv

LEMMA DeliverCommitKeeps ==
    ASSUME FulfillmentInv, NEW c \in Calls, DeliverCommit(c)
    PROVE  FulfillmentInv'
<1>0. PICK o \in Orders : o = call[c].order
    BY DEF FulfillmentInv, Relies, Delivering, DeliverCommit
<1>1. lock[DeliveryRow(o)] = c /\ delivery[o] = "in_transit"
    BY <1>0 DEF FulfillmentInv, Relies, Delivering, DeliverCommit
<1>2. /\ delivery' = [delivery EXCEPT ![o] = "delivered"]
      /\ order' = [order EXCEPT ![o] = "fulfilled"]
      /\ End(c) /\ UNCHANGED <<task, item, slot>>
    BY <1>0 DEF DeliverCommit
<1>3. TypeOK'
    BY <1>2, EndFrame DEF FulfillmentInv, TypeOK, DeliveryStates, Progress
<1>4. \A s \in Slots : InSlot(s)' = InSlot(s)
    BY <1>1, <1>2 DEF FulfillmentInv, TypeOK, InSlot
<1>5. ASSUME NEW d \in Calls \ {c} PROVE Respects(d)
    <2>1. \A x \in Orders :
            /\ delivery[x] = "none" => delivery'[x] = "none"
            /\ lock[DeliveryRow(x)] = d => delivery'[x] = delivery[x]
        BY <1>1, <1>2 DEF FulfillmentInv, TypeOK
    <2> QED
        BY <1>2, <1>4, <2>1, EndFrame DEF Respects, FulfillmentInv
<1>6. \A d \in Calls : Relies(d)'
    BY <1>2, <1>5, Respected, IdleRelies, EndFrame DEF FulfillmentInv
<1>7. SlotWithinCapacity'
    BY <1>4 DEF FulfillmentInv, SlotWithinCapacity
<1>8. FulfilledTogether'
    BY <1>2 DEF FulfillmentInv, TypeOK, FulfilledTogether
<1> QED
    BY <1>3, <1>6, <1>7, <1>8 DEF FulfillmentInv

LEMMA DispatchCommitKeeps ==
    ASSUME FulfillmentInv, NEW c \in Calls, DispatchCommit(c)
    PROVE  FulfillmentInv'
<1>0. PICK o \in Orders : o = call[c].order
    BY DEF FulfillmentInv, Relies, Dispatching, DispatchCommit
<1>1. lock[TaskRow(o)] = c /\ lock[DeliveryRow(o)] = Nobody
    BY <1>0 DEF FulfillmentInv, Relies, Dispatching, DispatchCommit, Free
<1>2. /\ task' = [task EXCEPT ![o] = "dispatched"]
      /\ order' = [order EXCEPT ![o] = Fulfilled(order[o])]
      /\ delivery' = [delivery EXCEPT ![o] = HandedOver(delivery[o])]
      /\ End(c) /\ UNCHANGED <<item, slot>>
    BY <1>0 DEF DispatchCommit
<1>3. /\ order'[o] = "fulfilled" /\ \A x \in Orders \ {o} : order'[x] = order[x]
      /\ order' \in [Orders -> {"confirmed", "fulfilled"}]
    BY <1>2 DEF FulfillmentInv, TypeOK, Fulfilled
<1>4. /\ \A x \in Orders : delivery'[x] = "none" <=> delivery[x] = "none"
      /\ \A x \in Orders \ {o} : delivery'[x] = delivery[x]
      /\ delivery' \in [Orders -> DeliveryStates]
    BY <1>2 DEF FulfillmentInv, TypeOK, HandedOver, DeliveryStates, Progress
<1>5. TypeOK'
    BY <1>2, <1>3, <1>4, EndFrame DEF FulfillmentInv, TypeOK, TaskStates, TaskSteps
<1>6. \A s \in Slots : InSlot(s)' = InSlot(s)
    BY <1>2, <1>4 DEF InSlot
<1>7. ASSUME NEW d \in Calls \ {c} PROVE Respects(d)
    <2>1. lock[TaskRow(o)] # d /\ lock[DeliveryRow(o)] # d
        BY <1>1, FulfillmentConstants
    <2>2. \A x \in Orders :
            /\ lock[DeliveryRow(x)] = d => delivery'[x] = delivery[x]
            /\ lock[TaskRow(x)] = d => task'[x] = task[x]
        BY <1>2, <1>4, <2>1 DEF FulfillmentInv, TypeOK
    <2> QED
        BY <1>2, <1>4, <1>6, <2>2, EndFrame DEF Respects, FulfillmentInv
<1>8. \A d \in Calls : Relies(d)'
    BY <1>2, <1>7, Respected, IdleRelies, EndFrame DEF FulfillmentInv
<1>9. SlotWithinCapacity'
    BY <1>6 DEF FulfillmentInv, SlotWithinCapacity
<1>10. FulfilledTogether'
    BY <1>2, <1>3, <1>4 DEF FulfillmentInv, TypeOK, FulfilledTogether
<1> QED
    BY <1>5, <1>8, <1>9, <1>10 DEF FulfillmentInv

-----------------------------------------------------------------------------

LEMMA Beginning == Init => FulfillmentInv
<1> SUFFICES ASSUME Init PROVE FulfillmentInv
    OBVIOUS
<1>1. TypeOK
    BY FulfillmentConstants, CallTypes
    DEF Init, TypeOK, TaskStates, TaskSteps, DeliveryStates, Progress
<1>2. \A c \in Calls : Relies(c)
    BY DEF Init, Relies, Scheduling, PlaceKept, Delivering, Dispatching, Idle
<1>3. SlotWithinCapacity
    <2>1. \A s \in Slots : InSlot(s) = {}
        BY DEF Init, InSlot
    <2> QED
        BY <2>1, FS_EmptySet, FulfillmentConstants DEF SlotWithinCapacity
<1>4. FulfilledTogether
    BY DEF Init, FulfilledTogether
<1> QED
    BY <1>1, <1>2, <1>3, <1>4 DEF FulfillmentInv

LEMMA ContinueKeeps ==
    ASSUME FulfillmentInv, NEW c \in Calls, Continue(c)
    PROVE  FulfillmentInv'
<1>1. CASE ScheduleLockSlot(c)
    BY <1>1, ScheduleLockSlotKeeps
<1>2. CASE ScheduleFull(c) \/ AbortDeadlock(c)
    BY <1>2, GivingUpKeeps DEF ScheduleFull, AbortDeadlock
<1>3. CASE ScheduleCommit(c)
    BY <1>3, ScheduleCommitKeeps
<1>4. CASE DeliverCommit(c)
    BY <1>4, DeliverCommitKeeps
<1>5. CASE DispatchLockOrder(c)
    BY <1>5, DispatchLockOrderKeeps
<1>6. CASE DispatchCommit(c)
    BY <1>6, DispatchCommitKeeps
<1> QED
    BY <1>1, <1>2, <1>3, <1>4, <1>5, <1>6 DEF Continue

LEMMA StepKeeps == FulfillmentInv /\ [Next]_vars => FulfillmentInv'
<1> SUFFICES ASSUME FulfillmentInv, [Next]_vars PROVE FulfillmentInv'
    OBVIOUS
<1>1. ASSUME NEW o \in Orders, StartPicking(o) \/ CompletePicking(o) \/ PackAndStage(o)
      PROVE  FulfillmentInv'
    BY <1>1, TaskStepKeeps DEF StartPicking, CompletePicking, PackAndStage
<1>2. ASSUME NEW o \in Orders, NEW q \in 1..MaxPicked, NEW d \in BOOLEAN, ScanAndPick(o, q, d)
      PROVE  FulfillmentInv'
    BY <1>2, ScanKeeps
<1>3. ASSUME NEW o \in Orders, AssignCourier(o) \/ MarkPickedUp(o) \/ MarkInTransit(o)
      PROVE  FulfillmentInv'
    BY <1>3, DeliveryStepKeeps DEF AssignCourier, MarkPickedUp, MarkInTransit
<1>4. ASSUME NEW c \in Calls, NEW o \in Orders, NEW s \in Slots, ScheduleLockOrder(c, o, s)
      PROVE  FulfillmentInv'
    BY <1>4, RowsExist, StartKeeps DEF ScheduleLockOrder
<1>5. ASSUME NEW c \in Calls, NEW o \in Orders, DeliverLockDelivery(c, o)
      PROVE  FulfillmentInv'
    BY <1>5, RowsExist, StartKeeps DEF DeliverLockDelivery
<1>6. ASSUME NEW c \in Calls, NEW o \in Orders, DispatchLockTask(c, o)
      PROVE  FulfillmentInv'
    BY <1>6, RowsExist, StartKeeps DEF DispatchLockTask, Dispatchable
<1>7. ASSUME NEW c \in Calls, Continue(c) \/ Fail(c)
      PROVE  FulfillmentInv'
    BY <1>7, ContinueKeeps, GivingUpKeeps DEF Fail
<1>8. CASE UNCHANGED vars
    <2>1. \A d \in Calls : Respects(d)
        BY <1>8 DEF vars, rows, Respects, InSlot
    <2>2. \A d \in Calls : Relies(d)'
        BY <2>1, Respected DEF FulfillmentInv
    <2>3. TypeOK'
        BY <1>8 DEF vars, rows, FulfillmentInv, TypeOK
    <2>4. SlotWithinCapacity' /\ FulfilledTogether'
        BY <1>8 DEF vars, rows, FulfillmentInv, SlotWithinCapacity, FulfilledTogether, InSlot
    <2> QED
        BY <2>2, <2>3, <2>4 DEF FulfillmentInv
<1> QED
    BY <1>1, <1>2, <1>3, <1>4, <1>5, <1>6, <1>7, <1>8 DEF Next

LEMMA Invariance == Spec => []FulfillmentInv
BY Beginning, StepKeeps, PTL DEF Spec

-----------------------------------------------------------------------------

(* Orders, tasks, deliveries and requests stay well typed                  *)
(* (warehouse/service.py, delivery/service.py).                            *)
THEOREM TypeCorrect == Spec => []TypeOK
<1>1. FulfillmentInv => TypeOK
    BY DEF FulfillmentInv
<1> QED
    BY <1>1, Invariance, PTL

(* No slot takes more deliveries than its capacity (schedule_delivery).    *)
THEOREM SlotWithinCapacityHolds == Spec => []SlotWithinCapacity
<1>1. FulfillmentInv => SlotWithinCapacity
    BY DEF FulfillmentInv
<1> QED
    BY <1>1, Invariance, PTL

(* An order with a delivery, or whose bag has left, is fulfilled           *)
(* (schedule_delivery, mark_delivered, dispatch_order_to_courier).         *)
THEOREM FulfilledTogetherHolds == Spec => []FulfilledTogether
<1>1. FulfillmentInv => FulfilledTogether
    BY DEF FulfillmentInv
<1> QED
    BY <1>1, Invariance, PTL

-----------------------------------------------------------------------------
(* How far a delivery is.                                                  *)
LEMMA Ranks ==
    /\ Rank("none") = 1 /\ Rank("scheduled") = 2 /\ Rank("assigned") = 3
    /\ Rank("picked_up") = 4 /\ Rank("in_transit") = 5 /\ Rank("delivered") = 6
<1>1. /\ Progress[1] = "none" /\ Progress[2] = "scheduled" /\ Progress[3] = "assigned"
      /\ Progress[4] = "picked_up" /\ Progress[5] = "in_transit" /\ Progress[6] = "delivered"
    BY DEF Progress
<1>2. \A i \in 1..6 : i = 1 \/ i = 2 \/ i = 3 \/ i = 4 \/ i = 5 \/ i = 6
    OBVIOUS
<1>3. \A i \in 1..6 : Rank(Progress[i]) = i
    <2> SUFFICES ASSUME NEW i \in 1..6 PROVE Rank(Progress[i]) = i
        OBVIOUS
    <2>1. \A j \in 1..6 : Progress[j] = Progress[i] => j = i
        BY <1>1, <1>2
    <2> QED
        BY <2>1 DEF Rank
<1> QED
    BY <1>1, <1>3

(* A delivery that no step sets back, or that is set back by a dispatch.   *)
Onward(o) ==
    Rank(delivery'[o]) < Rank(delivery[o]) => task[o] = "staged" /\ task'[o] = "dispatched"

LEMMA StandingStill ==
    ASSUME NEW o, delivery'[o] = delivery[o], delivery[o] \in DeliveryStates
    PROVE  Onward(o)
<1>1. Rank(delivery[o]) \in Nat
    BY Ranks DEF DeliveryStates, Progress
<1> QED
    BY <1>1 DEF Onward

LEMMA Advance ==
    ASSUME FulfillmentInv, NEW o \in Orders, NEW to \in DeliveryStates,
           delivery' = [delivery EXCEPT ![o] = to], Rank(delivery[o]) <= Rank(to)
    PROVE  \A x \in Orders : Onward(x)
<1>1. \A x \in Orders : delivery[x] \in DeliveryStates
    BY DEF FulfillmentInv, TypeOK
<1>2. \A status \in DeliveryStates : Rank(status) \in Nat
    BY Ranks DEF DeliveryStates, Progress
<1>3. delivery'[o] = to /\ \A x \in Orders \ {o} : delivery'[x] = delivery[x]
    BY DEF FulfillmentInv, TypeOK
<1>4. Onward(o)
    BY <1>1, <1>2, <1>3 DEF Onward
<1>5. \A x \in Orders \ {o} : Onward(x)
    BY <1>1, <1>3, StandingStill
<1> QED
    BY <1>4, <1>5

LEMMA Unchanged ==
    ASSUME FulfillmentInv, delivery' = delivery
    PROVE  \A x \in Orders : Onward(x)
BY StandingStill DEF FulfillmentInv, TypeOK

LEMMA OnlyDispatchSetsBackStep ==
    FulfillmentInv /\ [Next]_vars => \A o \in Orders : Onward(o)
<1> SUFFICES ASSUME FulfillmentInv, [Next]_vars PROVE \A o \in Orders : Onward(o)
    OBVIOUS
<1>1. ASSUME NEW o \in Orders, AssignCourier(o) \/ MarkPickedUp(o) \/ MarkInTransit(o)
      PROVE  \A x \in Orders : Onward(x)
    <2>1. PICK to \in DeliveryStates :
            delivery' = [delivery EXCEPT ![o] = to] /\ Rank(delivery[o]) <= Rank(to)
        BY <1>1, Ranks DEF AssignCourier, MarkPickedUp, MarkInTransit, DeliveryStep,
                           DeliveryStates, Progress
    <2> QED
        BY <2>1, Advance
<1>2. ASSUME NEW c \in Calls, ScheduleCommit(c)
      PROVE  \A x \in Orders : Onward(x)
    <2>1. PICK o \in Orders : o = call[c].order /\ delivery[o] = "none"
        BY <1>2 DEF FulfillmentInv, Relies, Scheduling, ScheduleCommit
    <2>2. delivery' = [delivery EXCEPT ![o] = "scheduled"] /\ "scheduled" \in DeliveryStates
        BY <1>2, <2>1 DEF ScheduleCommit, DeliveryStates, Progress
    <2>3. Rank(delivery[o]) <= Rank("scheduled")
        BY <2>1, Ranks
    <2> QED
        BY <2>2, <2>3, Advance
<1>3. ASSUME NEW c \in Calls, DeliverCommit(c)
      PROVE  \A x \in Orders : Onward(x)
    <2>1. PICK o \in Orders : o = call[c].order /\ delivery[o] = "in_transit"
        BY <1>3 DEF FulfillmentInv, Relies, Delivering, DeliverCommit
    <2>2. delivery' = [delivery EXCEPT ![o] = "delivered"] /\ "delivered" \in DeliveryStates
        BY <1>3, <2>1 DEF DeliverCommit, DeliveryStates, Progress
    <2>3. Rank(delivery[o]) <= Rank("delivered")
        BY <2>1, Ranks
    <2> QED
        BY <2>2, <2>3, Advance
<1>4. ASSUME NEW c \in Calls, DispatchCommit(c)
      PROVE  \A x \in Orders : Onward(x)
    <2>1. PICK o \in Orders : o = call[c].order /\ task[o] = "staged"
        BY <1>4 DEF FulfillmentInv, Relies, Dispatching, DispatchCommit
    <2>2. /\ task' = [task EXCEPT ![o] = "dispatched"]
          /\ delivery' = [delivery EXCEPT ![o] = HandedOver(delivery[o])]
        BY <1>4, <2>1 DEF DispatchCommit
    <2>3. Onward(o)
        BY <2>1, <2>2 DEF Onward, FulfillmentInv, TypeOK
    <2>4. \A x \in Orders \ {o} : Onward(x)
        BY <2>2, StandingStill DEF FulfillmentInv, TypeOK
    <2> QED
        BY <2>3, <2>4
<1>5. CASE delivery' = delivery
    BY <1>5, Unchanged
<1>6. delivery' = delivery
        \/ (\E o \in Orders : AssignCourier(o) \/ MarkPickedUp(o) \/ MarkInTransit(o))
        \/ (\E c \in Calls : ScheduleCommit(c) \/ DeliverCommit(c) \/ DispatchCommit(c))
    BY DEF Next, vars, rows, Continue, Fail, AbortDeadlock, ScheduleFull, ScheduleLockSlot,
           DispatchLockOrder, ScheduleLockOrder, DeliverLockDelivery, DispatchLockTask,
           StartPicking, CompletePicking, PackAndStage, TaskStep, ScanAndPick
<1> QED
    BY <1>1, <1>2, <1>3, <1>4, <1>5, <1>6

(* Only a dispatch sets a delivery back, and a bag is dispatched once      *)
(* (dispatch_order_to_courier).                                            *)
THEOREM OnlyDispatchSetsBackHolds == Spec => OnlyDispatchSetsBack
<1>1. FulfillmentInv /\ [Next]_vars
        => [\A o \in Orders : Rank(delivery'[o]) < Rank(delivery[o]) =>
                task[o] = "staged" /\ task'[o] = "dispatched"]_vars
    BY OnlyDispatchSetsBackStep DEF Onward
<1> QED
    BY <1>1, Invariance, PTL DEF Spec, OnlyDispatchSetsBack

-----------------------------------------------------------------------------
(* Who waits for whom. A request locks rows one after the other; what it   *)
(* has locked is told by how far it is.                                    *)

Owns(c, r) ==
    \/ call[c].at \in {"schedule.slot", "schedule.insert"} /\ r = OrderRow(call[c].order)
    \/ call[c].at = "schedule.insert" /\ r = SlotRow(call[c].slot)
    \/ call[c].at = "deliver.order" /\ r = DeliveryRow(call[c].order)
    \/ call[c].at \in {"dispatch.order", "dispatch.delivery"} /\ r = TaskRow(call[c].order)
    \/ call[c].at = "dispatch.delivery" /\ r = OrderRow(call[c].order)

OnlyOwned == \A c \in Calls, r \in Rows : lock[r] = c => Owns(c, r)

(* The requests of a circle of lock waits include a mark_delivered and a   *)
(* dispatch of one and the same order.                                     *)
OnlyTheCrossing ==
    \A S \in SUBSET Calls :
        (S # {} /\ \A c \in S : WaitsFor(c) \cap S # {}) =>
            \E c, d \in S : /\ call[c].at = "deliver.order"
                            /\ call[d].at = "dispatch.delivery"
                            /\ call[c].order = call[d].order

(* Only the request c moves, and what it holds then it owns.               *)
LEMMA OwnedKept ==
    ASSUME OnlyOwned, NEW c \in Calls,
           \A d \in Calls \ {c} : /\ call'[d] = call[d]
                                  /\ \A r \in Rows : lock'[r] = d => lock[r] = d,
           \A r \in Rows : lock'[r] = c => Owns(c, r)'
    PROVE  OnlyOwned'
BY DEF OnlyOwned, Owns

LEMMA EndOwns ==
    ASSUME FulfillmentInv, OnlyOwned, NEW c \in Calls, End(c)
    PROVE  OnlyOwned'
<1>1. \A d \in Calls \ {c} : call'[d] = call[d] /\ \A r \in Rows : lock'[r] = d => lock[r] = d
    BY FulfillmentConstants DEF FulfillmentInv, TypeOK, End
<1>2. \A r \in Rows : lock'[r] # c
    BY FulfillmentConstants DEF FulfillmentInv, TypeOK, End
<1> QED
    BY <1>1, <1>2, OwnedKept

LEMMA StartOwns ==
    ASSUME FulfillmentInv, OnlyOwned, NEW c \in Calls, NEW o \in Orders,
           NEW s \in Slots \cup {NoSlot},
           NEW at \in {"schedule.slot", "deliver.order", "dispatch.order"},
           NEW r \in Rows, Take(c, r), Begin(c, at, o, s), call[c] = Idle,
           at = "schedule.slot" => r = OrderRow(o),
           at = "deliver.order" => r = DeliveryRow(o),
           at = "dispatch.order" => r = TaskRow(o)
    PROVE  OnlyOwned'
<1>1. /\ call'[c].at = at /\ call'[c].order = o
      /\ \A d \in Calls \ {c} : call'[d] = call[d]
    BY DEF FulfillmentInv, TypeOK, Begin
<1>2. lock'[r] = c /\ \A x \in Rows \ {r} : lock'[x] = lock[x]
    BY DEF FulfillmentInv, TypeOK, Take
<1>3. \A x \in Rows : lock[x] # c
    BY DEF OnlyOwned, Owns, Idle
<1>4. \A x \in Rows : lock'[x] = c => Owns(c, x)'
    BY <1>1, <1>2, <1>3 DEF Owns
<1> QED
    BY <1>1, <1>2, <1>4, OwnedKept

LEMMA NextLockOwns ==
    ASSUME FulfillmentInv, OnlyOwned, NEW c \in Calls, ScheduleLockSlot(c) \/ DispatchLockOrder(c)
    PROVE  OnlyOwned'
<1>1. PICK o \in Orders : o = call[c].order
    BY DEF FulfillmentInv, Relies, Scheduling, Dispatching, ScheduleLockSlot, DispatchLockOrder
<1>2. CASE ScheduleLockSlot(c)
    <2>1. PICK s \in Slots : s = call[c].slot
        BY <1>2 DEF FulfillmentInv, Relies, Scheduling, ScheduleLockSlot
    <2>2. /\ call[c].at = "schedule.slot" /\ call'[c].at = "schedule.insert"
          /\ call'[c].order = o /\ call'[c].slot = s
          /\ \A d \in Calls \ {c} : call'[d] = call[d]
        BY <1>1, <1>2, <2>1 DEF FulfillmentInv, TypeOK, ScheduleLockSlot, Goto
    <2>3. /\ lock'[SlotRow(s)] = c
          /\ \A x \in Rows \ {SlotRow(s)} : lock'[x] = lock[x]
        BY <1>2, <2>1, RowsExist DEF FulfillmentInv, TypeOK, ScheduleLockSlot, Take
    <2>4. ASSUME NEW x \in Rows, lock'[x] = c PROVE Owns(c, x)'
        <3>1. x = SlotRow(s) \/ x = OrderRow(o)
            BY <1>1, <2>2, <2>3, <2>4 DEF OnlyOwned, Owns
        <3> QED
            BY <2>2, <3>1 DEF Owns
    <2> QED
        BY <2>2, <2>3, <2>4, OwnedKept
<1>3. CASE DispatchLockOrder(c)
    <2>1. /\ call[c].at = "dispatch.order" /\ call'[c].at = "dispatch.delivery"
          /\ call'[c].order = o
          /\ \A d \in Calls \ {c} : call'[d] = call[d]
        BY <1>1, <1>3 DEF FulfillmentInv, TypeOK, DispatchLockOrder, Goto
    <2>2. /\ lock'[OrderRow(o)] = c
          /\ \A x \in Rows \ {OrderRow(o)} : lock'[x] = lock[x]
        BY <1>1, <1>3, RowsExist DEF FulfillmentInv, TypeOK, DispatchLockOrder, Take
    <2>3. ASSUME NEW x \in Rows, lock'[x] = c PROVE Owns(c, x)'
        <3>1. x = OrderRow(o) \/ x = TaskRow(o)
            BY <1>1, <2>1, <2>2, <2>3 DEF OnlyOwned, Owns
        <3> QED
            BY <2>1, <3>1 DEF Owns
    <2> QED
        BY <2>1, <2>2, <2>3, OwnedKept
<1> QED
    BY <1>2, <1>3

LEMMA OwnedStep == FulfillmentInv /\ OnlyOwned /\ [Next]_vars => OnlyOwned'
<1> SUFFICES ASSUME FulfillmentInv, OnlyOwned, [Next]_vars PROVE OnlyOwned'
    OBVIOUS
<1>1. CASE UNCHANGED <<lock, call>>
    BY <1>1 DEF OnlyOwned, Owns
<1>2. ASSUME NEW c \in Calls, NEW o \in Orders, NEW s \in Slots, ScheduleLockOrder(c, o, s)
      PROVE  OnlyOwned'
    BY <1>2, RowsExist, StartOwns DEF ScheduleLockOrder
<1>3. ASSUME NEW c \in Calls, NEW o \in Orders, DeliverLockDelivery(c, o)
      PROVE  OnlyOwned'
    BY <1>3, RowsExist, StartOwns DEF DeliverLockDelivery
<1>4. ASSUME NEW c \in Calls, NEW o \in Orders, DispatchLockTask(c, o)
      PROVE  OnlyOwned'
    BY <1>4, RowsExist, StartOwns DEF DispatchLockTask
<1>5. ASSUME NEW c \in Calls, Continue(c) \/ Fail(c)
      PROVE  OnlyOwned'
    BY <1>5, NextLockOwns, EndOwns
    DEF Continue, Fail, ScheduleFull, ScheduleCommit, DeliverCommit, DispatchCommit, AbortDeadlock
<1>6. \/ UNCHANGED <<lock, call>>
      \/ \E c \in Calls, o \in Orders :
            (\E s \in Slots : ScheduleLockOrder(c, o, s))
            \/ DeliverLockDelivery(c, o) \/ DispatchLockTask(c, o)
      \/ \E c \in Calls : Continue(c) \/ Fail(c)
    BY DEF Next, vars, StartPicking, CompletePicking, PackAndStage, TaskStep, ScanAndPick,
           AssignCourier, MarkPickedUp, MarkInTransit, DeliveryStep
<1> QED
    BY <1>1, <1>2, <1>3, <1>4, <1>5, <1>6

(* Whom a request waits for, by where it stands: a schedule_delivery for   *)
(* one about to commit, a mark_delivered and a dispatch for a holder of    *)
(* their order, a dispatch with its order for the mark_delivered of it.    *)
LEMMA Waits ==
    ASSUME FulfillmentInv, OnlyOwned, NEW c \in Calls, NEW d \in WaitsFor(c)
    PROVE  /\ d \in Calls
           /\ \/ call[c].at = "schedule.slot" /\ call[d].at = "schedule.insert"
              \/ /\ call[c].at \in {"deliver.order", "dispatch.order"}
                 /\ call[d].at \in {"schedule.slot", "schedule.insert", "dispatch.delivery"}
                 /\ call[d].order = call[c].order
              \/ /\ call[c].at = "dispatch.delivery"
                 /\ call[d].at = "deliver.order" /\ call[d].order = call[c].order
<1>1. PICK r \in WantedRow(c) : d = lock[r] /\ d # Nobody
    BY DEF WaitsFor
<1>2. CASE call[c].at = "schedule.slot"
    <2>1. PICK s \in Slots : s = call[c].slot
        BY <1>2 DEF FulfillmentInv, Relies, Scheduling
    <2>2. r = SlotRow(s) /\ r \in Rows
        BY <1>1, <1>2, <2>1, RowsExist DEF WantedRow
    <2>3. d \in Calls /\ Owns(d, r)
        BY <1>1, <2>2 DEF FulfillmentInv, TypeOK, OnlyOwned
    <2> QED
        BY <1>2, <2>2, <2>3 DEF Owns, SlotRow, OrderRow, DeliveryRow, TaskRow
<1>3. CASE call[c].at \in {"deliver.order", "dispatch.order"}
    <2>1. PICK o \in Orders : o = call[c].order
        BY <1>3 DEF FulfillmentInv, Relies, Delivering, Dispatching
    <2>2. r = OrderRow(o) /\ r \in Rows
        BY <1>1, <1>3, <2>1, RowsExist DEF WantedRow
    <2>3. d \in Calls /\ Owns(d, r)
        BY <1>1, <2>2 DEF FulfillmentInv, TypeOK, OnlyOwned
    <2> QED
        BY <1>3, <2>1, <2>2, <2>3 DEF Owns, SlotRow, OrderRow, DeliveryRow, TaskRow
<1>4. CASE call[c].at = "dispatch.delivery"
    <2>1. PICK o \in Orders : o = call[c].order
        BY <1>4 DEF FulfillmentInv, Relies, Dispatching
    <2>2. r = DeliveryRow(o) /\ r \in Rows
        BY <1>1, <1>4, <2>1, RowsExist DEF WantedRow
    <2>3. d \in Calls /\ Owns(d, r)
        BY <1>1, <2>2 DEF FulfillmentInv, TypeOK, OnlyOwned
    <2> QED
        BY <1>4, <2>1, <2>2, <2>3 DEF Owns, SlotRow, OrderRow, DeliveryRow, TaskRow
<1>5. call[c].at \in {"schedule.slot", "deliver.order", "dispatch.order", "dispatch.delivery"}
    BY <1>1 DEF WantedRow
<1> QED
    BY <1>2, <1>3, <1>4, <1>5

LEMMA CirclesCross == FulfillmentInv /\ OnlyOwned => OnlyTheCrossing
<1> SUFFICES ASSUME FulfillmentInv, OnlyOwned, NEW S \in SUBSET Calls, S # {},
                    \A c \in S : WaitsFor(c) \cap S # {}
             PROVE  \E c, d \in S : /\ call[c].at = "deliver.order"
                                    /\ call[d].at = "dispatch.delivery"
                                    /\ call[c].order = call[d].order
    BY DEF OnlyTheCrossing
<1>1. ASSUME NEW c \in S PROVE \E d \in S : d \in WaitsFor(c)
    OBVIOUS
<1>2. \A c \in S : call[c].at # "schedule.insert"
    BY <1>1, Waits
<1>3. \A c \in S : call[c].at # "schedule.slot"
    BY <1>1, <1>2, Waits
<1>4. ASSUME NEW d \in S, call[d].at = "dispatch.delivery"
      PROVE  \E c \in S : call[c].at = "deliver.order" /\ call[c].order = call[d].order
    BY <1>1, <1>4, Waits
<1>5. \E d \in S : call[d].at = "dispatch.delivery"
    <2>1. PICK c \in S : TRUE
        OBVIOUS
    <2>2. PICK d \in S : d \in WaitsFor(c)
        BY <1>1
    <2>3. call[c].at = "dispatch.delivery" \/ call[d].at = "dispatch.delivery"
        BY <1>2, <1>3, <2>2, Waits
    <2> QED
        BY <2>3
<1> QED
    BY <1>4, <1>5

(* Requests wait in a circle only where a mark_delivered and a dispatch of *)
(* the same order cross, the one with the delivery (delivery/service.py:   *)
(* mark_delivered), the other with the order (warehouse/service.py:        *)
(* dispatch_order_to_courier). No schedule_delivery and no two orders make *)
(* PostgreSQL break a deadlock.                                            *)
THEOREM OnlyTheCrossingDeadlocks == Spec => []OnlyTheCrossing
<1>1. Init => OnlyOwned
    BY FulfillmentConstants DEF Init, OnlyOwned
<1> QED
    BY <1>1, Invariance, OwnedStep, CirclesCross, PTL DEF Spec
====
