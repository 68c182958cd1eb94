---- MODULE Payment ----
(***************************************************************************)
(* Paying an order: app/modules/payments/service.py, the webhooks that     *)
(* drive it and the route that starts it (app/modules/orders/router.py),   *)
(* against a payment provider that keeps its own state and its own time.   *)
(*                                                                         *)
(* The service calls the provider between locking the order and the        *)
(* commit, so that initiation and refund are steps of their own and may be *)
(* lost in between. A webhook locks, asks, writes and commits: one action. *)
(*                                                                         *)
(* RefundUnlocked, SwappedHook, TrustHook and AnyStatus are mutants of the *)
(* definitions they stand beside and used by nothing else.                 *)
(*                                                                         *)
(* Left out: amounts, signatures and payment pages. The provider is        *)
(* external; "stripe" stands for Razorpay too, which differs in wording.   *)
(***************************************************************************)
EXTENDS Naturals, Sequences, FiniteSets

CONSTANTS
    Orders,
    Calls,       \* calls of initiate_payment and refund_order in progress
    Nobody,      \* holder of a free row lock, and the order of an idle call
    NoRef,       \* no payment_reference
    EmptyRef,    \* the reference "" of an initiation the provider refused
    MaxIntents,  \* bound: payment intents of an order at the provider
    MaxRefunds   \* bound: refunds of a charge at the provider

ASSUME PaymentConstants ==
    /\ Nobody \notin Calls
    /\ MaxIntents \in Nat \ {0} /\ MaxRefunds \in Nat

VARIABLES
    fulfilled,  \* orders.status has left "confirmed"
    pay,        \* orders.payment_status
    ref,        \* orders.payment_reference
    provider,   \* orders.payment_provider
    events,     \* the payment events of the order in the outbox
    answered,   \* orders whose payment the route said it initiated
    lock,       \* which call holds the order row
    call,       \* what each call is doing
    charge,     \* the provider's state of each intent
    hooks,      \* webhook messages the provider has sent, delivered any number of times
    refunds,    \* refunds the provider has made of each charge
    lost        \* refunds made for a call that was then lost

rows == <<fulfilled, pay, ref, provider, events>>
tx == <<lock, call>>
outside == <<charge, hooks, refunds>>
vars == <<rows, answered, tx, outside, lost>>

Providers == {"stripe", "phonepe"}
PayStates == {"pending", "authorized", "captured", "failed", "refunded"}

(* PhonePe is given a reference derived from the order, the others number  *)
(* their intents.                                                          *)
PhonePeRef(o) == <<o, 0>>
Refs(o) == {<<o, n>> : n \in 0..MaxIntents}
AllRefs == UNION {Refs(o) : o \in Orders}

ASSUME RefConstants == NoRef \notin AllRefs /\ EmptyRef \notin AllRefs

Idle == [at |-> "idle", order |-> Nobody, provider |-> "", route |-> FALSE, ref |-> NoRef]
Ats == {"idle", "create", "authorize", "refund", "refunded"}

Init ==
    /\ fulfilled = [o \in Orders |-> FALSE]
    /\ pay = [o \in Orders |-> "pending"]
    /\ ref = [o \in Orders |-> NoRef]
    /\ provider = [o \in Orders |-> ""]
    /\ events = [o \in Orders |-> <<>>]
    /\ answered = {}
    /\ lock = [o \in Orders |-> Nobody]
    /\ call = [c \in Calls |-> Idle]
    /\ charge = [r \in AllRefs |-> "none"]
    /\ hooks = {}
    /\ refunds = [r \in AllRefs |-> 0]
    /\ lost = [o \in Orders |-> 0]

Free(o) == lock[o] = Nobody
Record(o, event) == events' = [events EXCEPT ![o] = Append(@, event)]
Start(c, o, state) ==
    /\ lock' = [lock EXCEPT ![o] = c]
    /\ call' = [call EXCEPT ![c] = state]
End(c) ==
    /\ lock' = [lock EXCEPT ![call[c].order] = Nobody]
    /\ call' = [call EXCEPT ![c] = Idle]

-----------------------------------------------------------------------------
(* initiate_payment, called by the route or on a session of its own.       *)

InitiateLock(c, o, p, byRoute) ==
    /\ call[c] = Idle
    /\ Free(o)
    /\ ~fulfilled[o]
    /\ pay[o] = "pending"
    /\ Start(c, o, [at |-> "create", order |-> o, provider |-> p,
                    route |-> byRoute, ref |-> NoRef])
    /\ UNCHANGED <<rows, answered, outside, lost>>

FreshRefs(o, p) ==
    IF p = "phonepe" THEN {PhonePeRef(o)}
                     ELSE {r \in Refs(o) \ {PhonePeRef(o)} : charge[r] = "none"}

RefusedRef(o, p) == IF p = "phonepe" THEN PhonePeRef(o) ELSE EmptyRef

(* The provider makes an intent (Stripe a second one behind the checkout   *)
(* session it opens for a return URL) or answers with an error, before or  *)
(* after making one. Its client turns the error into a result that the     *)
(* service does not look at.                                               *)
CreateIntent(c) ==
    LET o == call[c].order
        p == call[c].provider
    IN  /\ call[c].at = "create"
        /\ \E made \in SUBSET FreshRefs(o, p) :
             /\ Cardinality(made) <= 2
             /\ charge' = [r \in AllRefs |->
                             IF r \in made /\ charge[r] = "none" THEN "open" ELSE charge[r]]
             /\ \E r \in made \cup {RefusedRef(o, p)} :
                  call' = [call EXCEPT ![c].ref = r, ![c].at = "authorize"]
        /\ UNCHANGED <<rows, answered, lock, hooks, refunds, lost>>

Authorize(c) ==
    LET o == call[c].order
    IN  /\ call[c].at = "authorize"
        /\ ~call[c].route
        /\ pay' = [pay EXCEPT ![o] = "authorized"]
        /\ provider' = [provider EXCEPT ![o] = call[c].provider]
        /\ ref' = [ref EXCEPT ![o] = call[c].ref]
        /\ Record(o, "initiated")
        /\ End(c)
        /\ UNCHANGED <<fulfilled, answered, outside, lost>>

(* The route read the order first, on the same session: the service's      *)
(* transaction is then a savepoint in one that nobody commits. The answer  *)
(* is sent, and closing the session rolls everything back.                 *)
AnswerRoute(c) ==
    /\ call[c].at = "authorize"
    /\ call[c].route
    /\ answered' = answered \cup {call[c].order}
    /\ End(c)
    /\ UNCHANGED <<rows, outside, lost>>

-----------------------------------------------------------------------------
(* refund_order.                                                           *)

RefundUnlocked(o) == pay[o] = "captured"
CanRefund(o) == Free(o) /\ pay[o] = "captured"

RefundLock(c, o) ==
    /\ call[c] = Idle
    /\ CanRefund(o)
    /\ Start(c, o, [Idle EXCEPT !.at = "refund", !.order = o])
    /\ UNCHANGED <<rows, answered, outside, lost>>

RefundAtProvider(c) ==
    LET r == ref[call[c].order]
    IN  /\ call[c].at = "refund"
        /\ charge[r] = "paid"
        /\ refunds[r] < MaxRefunds
        /\ refunds' = [refunds EXCEPT ![r] = @ + 1]
        /\ call' = [call EXCEPT ![c].at = "refunded"]
        /\ UNCHANGED <<rows, answered, lock, charge, hooks, lost>>

RefundCommit(c) ==
    LET o == call[c].order
    IN  /\ call[c].at = "refunded"
        /\ pay' = [pay EXCEPT ![o] = "refunded"]
        /\ Record(o, "refunded")
        /\ End(c)
        /\ UNCHANGED <<fulfilled, ref, provider, answered, outside, lost>>

(* The provider refuses or is unreachable, or the server stops: rollback.  *)
Lose(c) ==
    /\ call[c] # Idle
    /\ lost' = [lost EXCEPT ![call[c].order] = @ + (IF call[c].at = "refunded" THEN 1 ELSE 0)]
    /\ End(c)
    /\ UNCHANGED <<rows, answered, outside>>

-----------------------------------------------------------------------------
(* The provider: an attempt at an open intent is declined or succeeds, a   *)
(* declined intent may be tried again. Only a PhonePe completion does not  *)
(* tell which of the two it was.                                           *)

SwappedHook(kind, o, r) == [kind |-> kind, order |-> r, ref |-> o]
Hook(kind, o, r) == [kind |-> kind, order |-> o, ref |-> r]

CustomerPays(o, r) ==
    /\ charge[r] \in {"open", "declined"}
    /\ charge' = [charge EXCEPT ![r] = "paid"]
    /\ hooks' = hooks \cup {Hook("completed", o, r)}
    /\ UNCHANGED <<rows, answered, tx, refunds, lost>>

CustomerDeclined(o, r) ==
    /\ charge[r] = "open"
    /\ charge' = [charge EXCEPT ![r] = "declined"]
    /\ hooks' = hooks \cup {Hook(IF r = PhonePeRef(o) THEN "completed" ELSE "failed", o, r)}
    /\ UNCHANGED <<rows, answered, tx, refunds, lost>>

-----------------------------------------------------------------------------
(* The webhooks. An error, an order not found or a payment not verified    *)
(* (the "failed" confirm_payment has just written is rolled back by the    *)
(* error it raises) changes nothing, and the answer is "ok" all the same.  *)

TrustHook(h) == TRUE
Verified(h) == charge[h.ref] = "paid"
AnyStatus(o) == TRUE
AwaitsPayment(o) == pay[o] = "authorized"

ConfirmPayment(h, o) ==
    /\ h.kind = "completed"
    /\ ref[o] = h.ref
    /\ Free(o)
    /\ AwaitsPayment(o)
    /\ Verified(h)
    /\ pay' = [pay EXCEPT ![o] = "captured"]
    /\ Record(o, "captured")
    /\ UNCHANGED <<fulfilled, ref, provider, answered, tx, outside, lost>>

(* The order is the one of the intent's metadata, whatever its reference.  *)
PaymentFailed(h) ==
    /\ h.kind = "failed"
    /\ Free(h.order)
    /\ AwaitsPayment(h.order)
    /\ pay' = [pay EXCEPT ![h.order] = "failed"]
    /\ UNCHANGED <<fulfilled, ref, provider, events, answered, tx, outside, lost>>

(* schedule_delivery and the dispatch do not ask for the payment.          *)
Fulfil(o) ==
    /\ Free(o)
    /\ ~fulfilled[o]
    /\ fulfilled' = [fulfilled EXCEPT ![o] = TRUE]
    /\ UNCHANGED <<pay, ref, provider, events, answered, tx, outside, lost>>

Next ==
    \/ \E c \in Calls, o \in Orders :
        \/ \E p \in Providers, byRoute \in BOOLEAN : InitiateLock(c, o, p, byRoute)
        \/ RefundLock(c, o)
    \/ \E c \in Calls :
        \/ CreateIntent(c) \/ Authorize(c) \/ AnswerRoute(c)
        \/ RefundAtProvider(c) \/ RefundCommit(c)
        \/ Lose(c)
    \/ \E o \in Orders : Fulfil(o)
    \/ \E o \in Orders : \E r \in Refs(o) : CustomerPays(o, r) \/ CustomerDeclined(o, r)
    \/ \E h \in hooks : PaymentFailed(h) \/ \E o \in Orders : ConfirmPayment(h, o)

Spec == Init /\ [][Next]_vars

-----------------------------------------------------------------------------

CallRecords ==
    [at : Ats, order : Orders \cup {Nobody}, provider : Providers \cup {""}, route : BOOLEAN,
     ref : AllRefs \cup {NoRef, EmptyRef}]
Announced == {"initiated", "captured", "refunded"}

TypeOK ==
    /\ fulfilled \in [Orders -> BOOLEAN]
    /\ pay \in [Orders -> PayStates]
    /\ ref \in [Orders -> AllRefs \cup {NoRef, EmptyRef}]
    /\ provider \in [Orders -> Providers \cup {""}]
    /\ events \in [Orders -> Seq(Announced)]
    /\ answered \subseteq Orders
    /\ lock \in [Orders -> Calls \cup {Nobody}]
    /\ call \in [Calls -> CallRecords]
    /\ charge \in [AllRefs -> {"none", "open", "declined", "paid"}]
    /\ hooks \subseteq [kind : {"completed", "failed"}, order : Orders, ref : AllRefs]
    /\ refunds \in [AllRefs -> 0..MaxRefunds]
    /\ lost \in [Orders -> Nat]

(* An order is captured only when its own intent was paid: a completion of *)
(* a declined intent, or one that comes twice or late, does not do it.     *)
CapturedWasPaid ==
    \A o \in Orders : pay[o] \in {"captured", "refunded"} => charge[ref[o]] = "paid"

(* The outbox tells the payment of an order step by step, each step once:  *)
(* repeated webhooks and lost calls leave no event without its status, and *)
(* no status without its event but one. That a payment failed is told by   *)
(* none, against docs/orders.md:144 ("All mutations emit to the            *)
(* transactional outbox in the same transaction", order.payment.failed     *)
(* among them) and ADR 0008:20: the event of confirm_payment is rolled     *)
(* back by the error it raises, the failure webhooks write none.           *)
History ==
    [pending |-> <<>>,
     authorized |-> <<"initiated">>,
     failed |-> <<"initiated">>,   \* the documented "failed" is missing
     captured |-> <<"initiated", "captured">>,
     refunded |-> <<"initiated", "captured", "refunded">>]
EventsTellTheStatus == \A o \in Orders : events[o] = History[pay[o]]

(* The provider has refunded an order once for the status "refunded", once *)
(* for the call that is about to say so, and once for every call that was  *)
(* lost before it could: concurrent refunds do not add up, lost ones do.   *)
Refunding(o) == \E c \in Calls : call[c].at = "refunded" /\ call[c].order = o
RefundsAccounted ==
    \A o \in Orders, r \in AllRefs :
        r = ref[o] =>
            refunds[r] = lost[o] + (IF pay[o] = "refunded" THEN 1 ELSE 0)
                                 + (IF Refunding(o) THEN 1 ELSE 0)

(* docs/orders.md, "Initiate Payment": "Order payment status transitions   *)
(* to `authorized`".                                                       *)
AnsweredIsAuthorized == \A o \in answered : pay[o] # "pending"
====
