---- MODULE Fulfillment ----
(***************************************************************************)
(* From a confirmed order to the door: the picking task of the dark store  *)
(* (app/modules/warehouse/service.py) and the delivery                     *)
(* (app/modules/delivery/service.py), two services that share the order    *)
(* row and, at the dispatch, the delivery row.                             *)
(*                                                                         *)
(* An operation that locks one row is one action, possible while the row   *)
(* is free. schedule_delivery, mark_delivered and dispatch_order_to_courier*)
(* lock several rows one after the other, the last two in opposite orders: *)
(* they take a step per lock and their writes show at the commit.          *)
(*                                                                         *)
(* The twins defined beside a check (CountUnlocked, LeaveStatus,           *)
(* TaskStatus, AnyTask, NoDetector) are mutants of it and used by nothing  *)
(* else.                                                                   *)
(*                                                                         *)
(* Left out: who picks, packs and drives, bays, seals and times; one item  *)
(* stands for the items of a task, which the task's lock guards together.  *)
(***************************************************************************)
EXTENDS Naturals, FiniteSets

CONSTANTS
    Orders,
    Slots,
    Calls,      \* requests in progress
    Nobody,     \* holder of a free row lock, and the order of an idle call
    NoSlot,     \* slot of an order without a delivery
    Capacity,   \* capacity of each delivery slot
    Expected,   \* expected_quantity of an order's item
    MaxPicked   \* bound: picked_quantity

ASSUME FulfillmentConstants ==
    /\ IsFiniteSet(Orders)
    /\ Nobody \notin Calls /\ NoSlot \notin Slots
    /\ Capacity \in [Slots -> Nat \ {0}]
    /\ Expected \in Nat \ {0} /\ MaxPicked \in Nat

VARIABLES
    order,     \* orders.status
    task,      \* order_fulfillment_tasks.status
    item,      \* the task's item
    delivery,  \* deliveries.status, "none" before there is one
    slot,      \* deliveries.slot_id
    lock,      \* which call holds each row lock
    call       \* what each call is doing

rows == <<order, task, item, delivery, slot>>
vars == <<rows, lock, call>>

TaskSteps == <<"pending", "picking", "picked", "staged", "dispatched">>
TaskStates == {TaskSteps[i] : i \in 1..5}
Progress == <<"none", "scheduled", "assigned", "picked_up", "in_transit", "delivered">>
DeliveryStates == {Progress[i] : i \in 1..6}

TaskRow(o) == <<"task", o>>
OrderRow(o) == <<"order", o>>
DeliveryRow(o) == <<"delivery", o>>
SlotRow(s) == <<"slot", s>>
Rows == {TaskRow(o) : o \in Orders} \cup {OrderRow(o) : o \in Orders} \cup
        {DeliveryRow(o) : o \in Orders} \cup {SlotRow(s) : s \in Slots}

(* What a call does next: nothing, or the next lock it asks for.           *)
Idle == [at |-> "idle", order |-> Nobody, slot |-> NoSlot]
Ats == {"idle", "schedule.slot", "schedule.insert",
        "deliver.order", "dispatch.order", "dispatch.delivery"}

Init ==
    /\ order = [o \in Orders |-> "confirmed"]
    /\ task = [o \in Orders |-> "pending"]
    /\ item = [o \in Orders |-> [picked |-> 0, short |-> FALSE, damaged |-> FALSE]]
    /\ delivery = [o \in Orders |-> "none"]
    /\ slot = [o \in Orders |-> NoSlot]
    /\ lock = [r \in Rows |-> Nobody]
    /\ call = [c \in Calls |-> Idle]

Free(r) == lock[r] = Nobody
Take(c, r) == lock' = [lock EXCEPT ![r] = c]
Begin(c, at, o, s) == call' = [call EXCEPT ![c] = [at |-> at, order |-> o, slot |-> s]]
Goto(c, at) == call' = [call EXCEPT ![c].at = at]
End(c) ==
    /\ call' = [call EXCEPT ![c] = Idle]
    /\ lock' = [r \in Rows |-> IF lock[r] = c THEN Nobody ELSE lock[r]]

-----------------------------------------------------------------------------
(* The picking task.                                                       *)

TaskStep(o, from, to) ==
    /\ Free(TaskRow(o))
    /\ task[o] \in from
    /\ task' = [task EXCEPT ![o] = to]
    /\ UNCHANGED <<order, item, delivery, slot, lock, call>>

StartPicking(o) == TaskStep(o, {"pending"}, "picking")
CompletePicking(o) == TaskStep(o, {"picking"}, "picked")
PackAndStage(o) == TaskStep(o, {"picking", "picked"}, "staged")

StillShort(i) == i.picked < Expected

Scanned(i, quantity) ==
    LET j == [i EXCEPT !.picked = @ + quantity] IN [j EXCEPT !.short = StillShort(j)]

Scannable(o) == Free(TaskRow(o)) /\ task[o] = "picking"

ScanAndPick(o, quantity, isDamaged) ==
    /\ Scannable(o)
    /\ \/ /\ isDamaged
          /\ item' = [item EXCEPT ![o].damaged = TRUE, ![o].short = TRUE]
       \/ /\ ~isDamaged
          /\ item[o].picked + quantity <= MaxPicked
          /\ item' = [item EXCEPT ![o] = Scanned(@, quantity)]
    /\ UNCHANGED <<order, task, delivery, slot, lock, call>>

-----------------------------------------------------------------------------
(* The delivery, while nobody else holds its row.                          *)

DeliveryStep(o, from, to) ==
    /\ Free(DeliveryRow(o))
    /\ delivery[o] \in from
    /\ delivery' = [delivery EXCEPT ![o] = to]
    /\ UNCHANGED <<order, task, item, slot, lock, call>>

AssignCourier(o) == DeliveryStep(o, {"scheduled", "assigned"}, "assigned")
MarkPickedUp(o) == DeliveryStep(o, {"assigned"}, "picked_up")
MarkInTransit(o) == DeliveryStep(o, {"picked_up"}, "in_transit")

(* schedule_delivery: the order, then the slot whose deliveries it counts. *)
ScheduleLockOrder(c, o, s) ==
    /\ call[c] = Idle
    /\ Free(OrderRow(o))
    /\ order[o] \in {"confirmed", "fulfilled"}
    /\ delivery[o] = "none"
    /\ Take(c, OrderRow(o))
    /\ Begin(c, "schedule.slot", o, s)
    /\ UNCHANGED rows

InSlot(s) == {o \in Orders : delivery[o] # "none" /\ slot[o] = s}
CountUnlocked(c, s) == Cardinality(InSlot(s)) < Capacity[s]
CanUseSlot(c, s) == Free(SlotRow(s)) /\ Cardinality(InSlot(s)) < Capacity[s]

ScheduleLockSlot(c) ==
    LET s == call[c].slot
    IN  /\ call[c].at = "schedule.slot"
        /\ CanUseSlot(c, s)
        /\ Take(c, SlotRow(s))
        /\ Goto(c, "schedule.insert")
        /\ UNCHANGED rows

ScheduleFull(c) ==
    LET s == call[c].slot
    IN  /\ call[c].at = "schedule.slot"
        /\ Free(SlotRow(s))
        /\ Cardinality(InSlot(s)) >= Capacity[s]
        /\ End(c)
        /\ UNCHANGED rows

LeaveStatus(status) == status
TaskStatus(status) == "dispatched"
Fulfilled(status) == IF status = "confirmed" THEN "fulfilled" ELSE status

ScheduleCommit(c) ==
    LET o == call[c].order
    IN  /\ call[c].at = "schedule.insert"
        /\ delivery' = [delivery EXCEPT ![o] = "scheduled"]
        /\ slot' = [slot EXCEPT ![o] = call[c].slot]
        /\ order' = [order EXCEPT ![o] = Fulfilled(@)]
        /\ End(c)
        /\ UNCHANGED <<task, item>>

(* mark_delivered: the delivery, then its order.                           *)
DeliverLockDelivery(c, o) ==
    /\ call[c] = Idle
    /\ Free(DeliveryRow(o))
    /\ delivery[o] = "in_transit"
    /\ Take(c, DeliveryRow(o))
    /\ Begin(c, "deliver.order", o, NoSlot)
    /\ UNCHANGED rows

DeliverCommit(c) ==
    LET o == call[c].order
    IN  /\ call[c].at = "deliver.order"
        /\ Free(OrderRow(o))
        /\ delivery' = [delivery EXCEPT ![o] = "delivered"]
        /\ order' = [order EXCEPT ![o] = "fulfilled"]
        /\ End(c)
        /\ UNCHANGED <<task, item, slot>>

(* dispatch_order_to_courier: the task, its order, then the delivery, if   *)
(* there is one by then, whatever its status.                              *)
AnyTask(o) == TRUE
Dispatchable(o) == task[o] = "staged"

DispatchLockTask(c, o) ==
    /\ call[c] = Idle
    /\ Free(TaskRow(o))
    /\ Dispatchable(o)
    /\ Take(c, TaskRow(o))
    /\ Begin(c, "dispatch.order", o, NoSlot)
    /\ UNCHANGED rows

DispatchLockOrder(c) ==
    /\ call[c].at = "dispatch.order"
    /\ Free(OrderRow(call[c].order))
    /\ Take(c, OrderRow(call[c].order))
    /\ Goto(c, "dispatch.delivery")
    /\ UNCHANGED rows

HandedOver(status) == IF status = "none" THEN "none" ELSE "picked_up"

DispatchCommit(c) ==
    LET o == call[c].order
    IN  /\ call[c].at = "dispatch.delivery"
        /\ Free(DeliveryRow(o))
        /\ task' = [task EXCEPT ![o] = "dispatched"]
        /\ order' = [order EXCEPT ![o] = Fulfilled(@)]
        /\ delivery' = [delivery EXCEPT ![o] = HandedOver(@)]
        /\ End(c)
        /\ UNCHANGED <<item, slot>>

-----------------------------------------------------------------------------
(* A lost connection, or PostgreSQL breaking a cycle of lock waits, rolls  *)
(* the transaction back.                                                   *)

Fail(c) == call[c] # Idle /\ End(c) /\ UNCHANGED rows

WantedRow(c) ==
    CASE call[c].at = "schedule.slot" -> {SlotRow(call[c].slot)}
      [] call[c].at \in {"deliver.order", "dispatch.order"} -> {OrderRow(call[c].order)}
      [] call[c].at = "dispatch.delivery" -> {DeliveryRow(call[c].order)}
      [] OTHER -> {}

WaitsFor(c) == {lock[r] : r \in WantedRow(c)} \ {Nobody, c}

NoDetector(c) == FALSE
Deadlocked(c) ==
    \E S \in SUBSET Calls :
        /\ c \in S
        /\ \A d \in S : WaitsFor(d) \cap S # {}

AbortDeadlock(c) == Deadlocked(c) /\ End(c) /\ UNCHANGED rows

Continue(c) ==
    \/ ScheduleLockSlot(c) \/ ScheduleFull(c) \/ ScheduleCommit(c)
    \/ DeliverCommit(c)
    \/ DispatchLockOrder(c) \/ DispatchCommit(c)
    \/ AbortDeadlock(c)

Next ==
    \/ \E o \in Orders :
        \/ StartPicking(o) \/ CompletePicking(o) \/ PackAndStage(o)
        \/ \E q \in 1..MaxPicked, d \in BOOLEAN : ScanAndPick(o, q, d)
        \/ AssignCourier(o) \/ MarkPickedUp(o) \/ MarkInTransit(o)
    \/ \E c \in Calls, o \in Orders :
        \/ \E s \in Slots : ScheduleLockOrder(c, o, s)
        \/ DeliverLockDelivery(c, o)
        \/ DispatchLockTask(c, o)
    \/ \E c \in Calls : Continue(c) \/ Fail(c)

(* The server runs a started request on, and PostgreSQL queues the waiters *)
(* of a row, so that a lock that keeps changing hands is granted in the    *)
(* end (strong fairness). Staff and couriers act when they do, and nothing *)
(* has to fail.                                                            *)
Spec == Init /\ [][Next]_vars /\ \A c \in Calls : SF_vars(Continue(c))

-----------------------------------------------------------------------------

TypeOK ==
    /\ order \in [Orders -> {"confirmed", "fulfilled"}]
    /\ task \in [Orders -> TaskStates]
    /\ item \in [Orders -> [picked : 0..MaxPicked, short : BOOLEAN, damaged : BOOLEAN]]
    /\ delivery \in [Orders -> DeliveryStates]
    /\ slot \in [Orders -> Slots \cup {NoSlot}]
    /\ lock \in [Rows -> Calls \cup {Nobody}]
    /\ call \in [Calls -> [at : Ats, order : Orders \cup {Nobody}, slot : Slots \cup {NoSlot}]]

(* A slot takes no more deliveries than its capacity, although the count   *)
(* of schedule_delivery and its INSERT are apart.                          *)
SlotWithinCapacity == \A s \in Slots : Cardinality(InSlot(s)) <= Capacity[s]

(* An order that has a delivery, or whose bag has left the store, is       *)
(* fulfilled: three services write orders.status and deliveries.status     *)
(* under locks they take in different orders, and none leaves one behind.  *)
FulfilledTogether ==
    \A o \in Orders :
        delivery[o] # "none" \/ task[o] = "dispatched" => order[o] = "fulfilled"

(* Every request that took its first lock ends, although mark_delivered    *)
(* and the dispatch lock the order and the delivery in opposite orders.    *)
RequestsEnd == \A c \in Calls : call[c] # Idle ~> call[c] = Idle

(* The dispatch overwrites a delivery that went on by itself, a finished   *)
(* one included. Nothing else sets a delivery back, and a bag leaves once: *)
(* after that a delivery only goes on, and a delivered one stays delivered.*)
Rank(status) == CHOOSE i \in 1..6 : Progress[i] = status
OnlyDispatchSetsBack ==
    [][\A o \in Orders :
         Rank(delivery'[o]) < Rank(delivery[o]) =>
            task[o] = "staged" /\ task'[o] = "dispatched"]_vars
====
