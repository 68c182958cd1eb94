---- MODULE PaymentProofs ----
(***************************************************************************)
(* For any number of orders, calls, intents and refunds: the state of      *)
(* Payment is well typed, an order is captured only when its intent was    *)
(* paid, its events tell its status, and the provider's refunds are the    *)
(* ones the order accounts for. The invariant that is inductive says what  *)
(* a call in progress can rely on while it waits for the provider (its     *)
(* order is locked, and in the status it found), that references are never *)
(* shared by orders, and that nothing is refunded before a capture.        *)
(***************************************************************************)
EXTENDS Payment, TLAPS, SequenceTheorems

Held ==
    \A c \in Calls :
        \/ call[c] = Idle
        \/ call[c].at # "idle" /\ call[c].order \in Orders /\ lock[call[c].order] = c
Due ==
    \A c \in Calls :
        /\ call[c].at \in {"create", "authorize"} => pay[call[c].order] = "pending"
        /\ call[c].at \in {"refund", "refunded"} => pay[call[c].order] = "captured"
Paid == {"captured", "refunded"}
OwnRefs ==
    /\ \A o \in Orders :
          /\ ref[o] \in Refs(o) \cup {NoRef, EmptyRef}
          /\ pay[o] \in Paid => ref[o] \in Refs(o)
    /\ \A c \in Calls :
          call[c].at = "authorize" => call[c].ref \in Refs(call[c].order) \cup {EmptyRef}
Unrefunded ==
    \A o \in Orders :
        pay[o] \notin Paid => lost[o] = 0 /\ \A r \in Refs(o) : refunds[r] = 0

IInv ==
    /\ TypeOK /\ Held /\ Due /\ OwnRefs /\ Unrefunded
    /\ CapturedWasPaid /\ EventsTellTheStatus /\ RefundsAccounted

-----------------------------------------------------------------------------
(* Facts about references and calls.                                       *)

LEMMA RefsAreOwn ==
    /\ \A o \in Orders : Refs(o) \subseteq AllRefs
    /\ \A o \in Orders : PhonePeRef(o) \in Refs(o)
    /\ \A o, x \in Orders : o # x => Refs(o) \cap Refs(x) = {}
<1>1. \A o \in Orders : Refs(o) \subseteq AllRefs
    BY DEF AllRefs
<1>2. ASSUME NEW o \in Orders PROVE PhonePeRef(o) \in Refs(o)
    <2>1. 0 \in 0..MaxIntents
        BY PaymentConstants
    <2> QED
        BY <2>1 DEF PhonePeRef, Refs
<1>3. ASSUME NEW o \in Orders, NEW x \in Orders, NEW r \in Refs(o) \cap Refs(x) PROVE o = x
    <2>1. PICK n \in 0..MaxIntents : r = <<o, n>>
        BY DEF Refs
    <2>2. PICK m \in 0..MaxIntents : r = <<x, m>>
        BY DEF Refs
    <2> QED
        BY <2>1, <2>2
<1> QED
    BY <1>1, <1>2, <1>3

(* What appending gives, for sequences as short as a payment's history.    *)
LEMMA AppendIs ==
    ASSUME NEW S, NEW s \in Seq(S), NEW t \in Seq(S), NEW e \in S,
           Len(t) = Len(s) + 1, t[Len(t)] = e, \A i \in 1..Len(s) : t[i] = s[i]
    PROVE  Append(s, e) = t
<1> DEFINE u == Append(s, e)
<1>1. u \in Seq(S)
    BY AppendProperties
<1>2. Len(u) = Len(s) + 1
    BY AppendProperties
<1>3. \A i \in 1..Len(s) : u[i] = s[i]
    BY AppendProperties
<1>4. u[Len(s) + 1] = e
    BY AppendProperties
<1> HIDE DEF u
<1>5. \A i \in 1..Len(u) : u[i] = t[i]
    BY <1>2, <1>3, <1>4
<1>6. u = t
    BY <1>1, <1>2, <1>5, SeqEqual
<1> QED
    BY <1>6 DEF u

LEMMA AppendSecond ==
    ASSUME NEW a, NEW b PROVE Append(<<a>>, b) = <<a, b>>
<1> DEFINE S == {a, b}
           s == <<a>>
           t == <<a, b>>
<1>0. a \in S /\ b \in S
    OBVIOUS
<1> HIDE DEF S
<1>1. /\ s \in Seq(S) /\ t \in Seq(S) /\ Len(s) = 1 /\ Len(t) = 2
      /\ t[1] = s[1] /\ t[2] = b
    BY <1>0
<1> HIDE DEF s, t
<1>2. /\ s \in Seq(S) /\ t \in Seq(S) /\ b \in S
      /\ Len(t) = Len(s) + 1 /\ t[Len(t)] = b /\ \A i \in 1..Len(s) : t[i] = s[i]
    BY <1>0, <1>1
<1>3. Append(s, b) = t
    BY <1>2, AppendIs
<1> QED
    BY <1>3 DEF s, t

LEMMA AppendThird ==
    ASSUME NEW a, NEW b, NEW d
    PROVE  Append(<<a, b>>, d) = <<a, b, d>>
<1> DEFINE S == {a, b, d}
           s == <<a, b>>
           t == <<a, b, d>>
<1>0. a \in S /\ b \in S /\ d \in S
    OBVIOUS
<1> HIDE DEF S
<1>1. /\ s \in Seq(S) /\ t \in Seq(S) /\ Len(s) = 2 /\ Len(t) = 3
      /\ t[1] = s[1] /\ t[2] = s[2] /\ t[3] = d
    BY <1>0
<1> HIDE DEF s, t
<1>2. /\ s \in Seq(S) /\ t \in Seq(S) /\ d \in S
      /\ Len(t) = Len(s) + 1 /\ t[Len(t)] = d /\ \A i \in 1..Len(s) : t[i] = s[i]
    BY <1>0, <1>1
<1>3. Append(s, d) = t
    BY <1>2, AppendIs
<1> QED
    BY <1>3 DEF s, t

LEMMA IdleIsCall == Idle \in CallRecords /\ Idle.at = "idle"
BY DEF Idle, CallRecords, Ats

LEMMA NoEvents ==
    ASSUME NEW S, NEW f, f = [o \in Orders |-> <<>>] PROVE f \in [Orders -> Seq(S)]
BY EmptySeq

LEMMA TypeInit == Init => TypeOK
<1> SUFFICES ASSUME Init PROVE TypeOK
    OBVIOUS
<1>1. call \in [Calls -> CallRecords]
    BY IdleIsCall DEF Init
<1>2. events \in [Orders -> Seq(Announced)]
    BY NoEvents DEF Init
<1>3. refunds \in [AllRefs -> 0..MaxRefunds]
    <2>1. 0 \in 0..MaxRefunds
        BY PaymentConstants
    <2> QED
        BY <2>1 DEF Init
<1> QED
    BY <1>1, <1>2, <1>3 DEF Init, TypeOK, PayStates, Providers

(* What a call that works on an order knows of it, and of the others.      *)
LEMMA Alone ==
    ASSUME TypeOK, Held, NEW c \in Calls, call[c] # Idle
    PROVE  /\ call[c] \in CallRecords /\ call[c].at # "idle"
           /\ call[c].order \in Orders /\ lock[call[c].order] = c
           /\ \A x \in Calls \ {c} : call[x] # Idle => call[x].order # call[c].order
<1>1. \A x \in Calls : call[x] # Idle => lock[call[x].order] = x
    BY DEF Held
<1>2. \A x \in Calls \ {c} : call[x] # Idle => call[x].order # call[c].order
    BY <1>1
<1> QED
    BY <1>1, <1>2 DEF TypeOK, Held

LEMMA Working ==
    ASSUME NEW c \in Calls, call[c].at # "idle"
    PROVE  call[c] # Idle
BY IdleIsCall

LEMMA StartStep ==
    ASSUME TypeOK, Held, NEW c \in Calls, NEW o \in Orders, NEW k \in CallRecords,
           k.at # "idle", k.order = o, Free(o), call[c] = Idle, Start(c, o, k)
    PROVE  /\ call' \in [Calls -> CallRecords] /\ lock' \in [Orders -> Calls \cup {Nobody}]
           /\ Held' /\ call'[c] = k /\ \A x \in Calls \ {c} : call'[x] = call[x]
<1>1. /\ call' \in [Calls -> CallRecords] /\ lock' \in [Orders -> Calls \cup {Nobody}]
      /\ call'[c] = k /\ \A x \in Calls \ {c} : call'[x] = call[x]
      /\ lock'[o] = c /\ \A x \in Orders \ {o} : lock'[x] = lock[x]
    BY DEF TypeOK, Start
<1>2. Held'
    BY <1>1, PaymentConstants DEF Held, Free
<1> QED
    BY <1>1, <1>2

LEMMA EndStep ==
    ASSUME TypeOK, Held, NEW c \in Calls, call[c] # Idle, End(c)
    PROVE  /\ call' \in [Calls -> CallRecords] /\ lock' \in [Orders -> Calls \cup {Nobody}]
           /\ Held' /\ call'[c] = Idle /\ \A x \in Calls \ {c} : call'[x] = call[x]
<1> DEFINE o == call[c].order
<1>1. /\ o \in Orders /\ lock[o] = c
      /\ \A x \in Calls \ {c} : call[x] # Idle => call[x].order # o
    BY Alone
<1>2. lock' = [lock EXCEPT ![o] = Nobody] /\ call' = [call EXCEPT ![c] = Idle]
    BY DEF End
<1> HIDE DEF o
<1>3. /\ call' \in [Calls -> CallRecords] /\ lock' \in [Orders -> Calls \cup {Nobody}]
      /\ call'[c] = Idle /\ \A x \in Calls \ {c} : call'[x] = call[x]
      /\ \A x \in Orders \ {o} : lock'[x] = lock[x]
    BY <1>1, <1>2, IdleIsCall DEF TypeOK
<1>4. Held'
    BY <1>1, <1>3 DEF Held
<1> QED
    BY <1>3, <1>4

LEMMA MoveStep ==
    ASSUME TypeOK, Held, NEW c \in Calls, call[c] # Idle, NEW k \in CallRecords,
           k.at # "idle", k.order = call[c].order, call' = [call EXCEPT ![c] = k],
           UNCHANGED lock
    PROVE  /\ call' \in [Calls -> CallRecords]
           /\ Held' /\ call'[c] = k /\ \A x \in Calls \ {c} : call'[x] = call[x]
<1>1. /\ call' \in [Calls -> CallRecords]
      /\ call'[c] = k /\ \A x \in Calls \ {c} : call'[x] = call[x]
    BY DEF TypeOK
<1>2. Held'
    BY <1>1, Alone DEF Held
<1> QED
    BY <1>1, <1>2

(* A step that refunds nothing, loses nothing and starts or ends no refund.*)
LEMMA MoneyFrame ==
    ASSUME IInv, UNCHANGED <<refunds, lost>>,
           \A c \in Calls : call'[c].at = "refunded" <=> call[c].at = "refunded",
           \A c \in Calls : call[c].at = "refunded" => call'[c].order = call[c].order,
           \A o \in Orders :
               /\ pay'[o] = "refunded" <=> pay[o] = "refunded"
               /\ pay'[o] \notin Paid => pay[o] \notin Paid
               /\ ref'[o] = ref[o] \/ (pay[o] = "pending" /\ ref'[o] \in Refs(o) \cup {EmptyRef})
    PROVE  RefundsAccounted' /\ Unrefunded'
<1>1. Unrefunded'
    BY DEF IInv, Unrefunded
<1>2. RefundsAccounted'
    <2> SUFFICES ASSUME NEW o \in Orders, NEW r \in AllRefs, r = ref'[o]
                 PROVE  refunds'[r] = lost'[o] + (IF pay'[o] = "refunded" THEN 1 ELSE 0)
                          + (IF \E c \in Calls : call'[c].at = "refunded" /\ call'[c].order = o
                             THEN 1 ELSE 0)
        BY DEF RefundsAccounted, Refunding
    <2>1. (\E c \in Calls : call'[c].at = "refunded" /\ call'[c].order = o)
            <=> (\E c \in Calls : call[c].at = "refunded" /\ call[c].order = o)
        OBVIOUS
    <2>2. CASE ref'[o] = ref[o]
        BY <2>1, <2>2 DEF IInv, RefundsAccounted, Refunding
    <2>3. CASE pay[o] = "pending" /\ ref'[o] \in Refs(o) \cup {EmptyRef}
        <3>1. r \in Refs(o)
            BY <2>3, RefConstants
        <3>2. refunds[r] = 0 /\ lost[o] = 0
            BY <2>3, <3>1 DEF IInv, Unrefunded, Paid
        <3>3. ~\E c \in Calls : call[c].at = "refunded" /\ call[c].order = o
            BY <2>3 DEF IInv, Due
        <3> QED
            BY <2>1, <2>3, <3>2, <3>3
    <2> QED
        BY <2>2, <2>3
<1> QED
    BY <1>1, <1>2

LEMMA RecordStep ==
    ASSUME TypeOK, NEW o \in Orders, NEW e \in Announced,
           Record(o, e)
    PROVE  /\ events' \in [Orders -> Seq(Announced)]
           /\ events'[o] = Append(events[o], e)
           /\ \A x \in Orders \ {o} : events'[x] = events[x]
<1>1. Append(events[o], e) \in Seq(Announced)
    BY AppendProperties DEF TypeOK
<1> QED
    BY <1>1 DEF TypeOK, Record

LEMMA Histories ==
    /\ History["pending"] = <<>>
    /\ Append(History["pending"], "initiated") = History["authorized"]
    /\ History["failed"] = History["authorized"]
    /\ Append(History["authorized"], "captured") = History["captured"]
    /\ Append(History["captured"], "refunded") = History["refunded"]
<1>1. /\ History["pending"] = <<>> /\ History["authorized"] = <<"initiated">>
      /\ History["failed"] = <<"initiated">>
      /\ History["captured"] = <<"initiated", "captured">>
      /\ History["refunded"] = <<"initiated", "captured", "refunded">>
    BY DEF History
<1>2. Append(<<>>, "initiated") = <<"initiated">>
    OBVIOUS
<1>3. Append(<<"initiated">>, "captured") = <<"initiated", "captured">>
    BY AppendSecond
<1>4. Append(<<"initiated", "captured">>, "refunded") = <<"initiated", "captured", "refunded">>
    BY AppendThird
<1> QED
    BY <1>1, <1>2, <1>3, <1>4

(* A step that tells what it does to the payment of one order.             *)
LEMMA TellStep ==
    ASSUME TypeOK, EventsTellTheStatus, NEW o \in Orders, NEW e \in Announced, Record(o, e),
           NEW new, Append(History[pay[o]], e) = History[new],
           pay' = [pay EXCEPT ![o] = new]
    PROVE  EventsTellTheStatus'
<1>1. events'[o] = Append(events[o], e) /\ \A x \in Orders \ {o} : events'[x] = events[x]
    BY RecordStep
<1>2. pay'[o] = new /\ \A x \in Orders \ {o} : pay'[x] = pay[x]
    BY DEF TypeOK
<1>3. \A x \in Orders : events[x] = History[pay[x]]
    BY DEF EventsTellTheStatus
<1>4. \A x \in Orders : events'[x] = History[pay'[x]]
    BY <1>1, <1>2, <1>3
<1> QED
    BY <1>4 DEF EventsTellTheStatus, History

-----------------------------------------------------------------------------
(* One lemma for each action.                                              *)

Frame == TypeOK /\ Held /\ Due /\ OwnRefs
Money == Unrefunded /\ CapturedWasPaid /\ EventsTellTheStatus /\ RefundsAccounted

(* A step that leaves the orders' payments and the provider alone, and lets*)
(* no call begin or end a refund.                                          *)
LEMMA MoneyKept ==
    ASSUME IInv, UNCHANGED <<pay, ref, events, charge, refunds, lost>>,
           \A c \in Calls : call'[c].at = "refunded" <=> call[c].at = "refunded",
           \A c \in Calls : call[c].at = "refunded" => call'[c].order = call[c].order
    PROVE  Money'
<1>1. RefundsAccounted' /\ Unrefunded'
    BY MoneyFrame
<1>2. CapturedWasPaid'
    BY DEF IInv, CapturedWasPaid
<1>3. EventsTellTheStatus'
    BY DEF IInv, EventsTellTheStatus, History
<1> QED
    BY <1>1, <1>2, <1>3 DEF Money

LEMMA InitiateLockStep ==
    ASSUME IInv, NEW c \in Calls, NEW o \in Orders, NEW p \in Providers,
           NEW byRoute \in BOOLEAN, InitiateLock(c, o, p, byRoute)
    PROVE  Frame' /\ Money'
<1> DEFINE k == [at |-> "create", order |-> o, provider |-> p, route |-> byRoute, ref |-> NoRef]
<1>1. k \in CallRecords /\ k.at = "create" /\ k.order = o
    BY DEF CallRecords, Ats
<1>2. /\ Free(o) /\ call[c] = Idle /\ Start(c, o, k) /\ pay[o] = "pending"
      /\ UNCHANGED <<fulfilled, pay, ref, provider, events, answered, charge, hooks, refunds, lost>>
    BY DEF InitiateLock, rows, outside
<1> HIDE DEF k
<1>3. /\ call' \in [Calls -> CallRecords] /\ lock' \in [Orders -> Calls \cup {Nobody}]
      /\ Held' /\ call'[c] = k /\ \A x \in Calls \ {c} : call'[x] = call[x]
    BY <1>1, <1>2, StartStep DEF IInv
<1>4. TypeOK'
    BY <1>2, <1>3 DEF IInv, TypeOK
<1>5. Due'
    BY <1>1, <1>2, <1>3 DEF IInv, Due
<1>6. OwnRefs'
    BY <1>1, <1>2, <1>3 DEF IInv, OwnRefs
<1>7. Money'
    BY <1>1, <1>2, <1>3, IdleIsCall, MoneyKept
<1> QED
    BY <1>3, <1>4, <1>5, <1>6, <1>7 DEF Frame

LEMMA RefundLockStep ==
    ASSUME IInv, NEW c \in Calls, NEW o \in Orders, RefundLock(c, o)
    PROVE  Frame' /\ Money'
<1> DEFINE k == [Idle EXCEPT !.at = "refund", !.order = o]
<1>1. k \in CallRecords /\ k.at = "refund" /\ k.order = o
    BY IdleIsCall DEF CallRecords, Ats
<1>2. /\ Free(o) /\ call[c] = Idle /\ Start(c, o, k) /\ pay[o] = "captured"
      /\ UNCHANGED <<fulfilled, pay, ref, provider, events, answered, charge, hooks, refunds, lost>>
    BY DEF RefundLock, CanRefund, rows, outside
<1> HIDE DEF k
<1>3. /\ call' \in [Calls -> CallRecords] /\ lock' \in [Orders -> Calls \cup {Nobody}]
      /\ Held' /\ call'[c] = k /\ \A x \in Calls \ {c} : call'[x] = call[x]
    BY <1>1, <1>2, StartStep DEF IInv
<1>4. TypeOK'
    BY <1>2, <1>3 DEF IInv, TypeOK
<1>5. Due'
    BY <1>1, <1>2, <1>3 DEF IInv, Due
<1>6. OwnRefs'
    BY <1>1, <1>2, <1>3 DEF IInv, OwnRefs
<1>7. Money'
    BY <1>1, <1>2, <1>3, IdleIsCall, MoneyKept
<1> QED
    BY <1>3, <1>4, <1>5, <1>6, <1>7 DEF Frame

LEMMA CreateIntentStep ==
    ASSUME IInv, NEW c \in Calls, CreateIntent(c)
    PROVE  Frame' /\ Money'
<1> DEFINE o == call[c].order
           p == call[c].provider
<1>1. /\ call[c].at = "create" /\ call[c] # Idle /\ o \in Orders /\ call[c] \in CallRecords
      /\ UNCHANGED <<fulfilled, pay, ref, provider, events, answered, lock, hooks, refunds, lost>>
    BY IdleIsCall, Alone DEF IInv, CreateIntent, rows
<1>2. PICK made \in SUBSET FreshRefs(o, p) :
          /\ charge' = [r \in AllRefs |->
                           IF r \in made /\ charge[r] = "none" THEN "open" ELSE charge[r]]
          /\ \E r \in made \cup {RefusedRef(o, p)} :
                call' = [call EXCEPT ![c].ref = r, ![c].at = "authorize"]
    BY DEF CreateIntent
<1>3. PICK r \in made \cup {RefusedRef(o, p)} :
          call' = [call EXCEPT ![c].ref = r, ![c].at = "authorize"]
    BY <1>2
<1>4. r \in Refs(o) \cup {EmptyRef} /\ r \in AllRefs \cup {EmptyRef}
    BY <1>1, RefsAreOwn DEF FreshRefs, RefusedRef
<1> DEFINE k == [call[c] EXCEPT !.ref = r, !.at = "authorize"]
<1>5. k \in CallRecords /\ k.at = "authorize" /\ k.order = o /\ k.ref = r
    BY <1>1, <1>4 DEF CallRecords, Ats
<1>6. call' = [call EXCEPT ![c] = k]
    BY <1>3
<1> HIDE DEF k, p
<1>7. /\ call' \in [Calls -> CallRecords]
      /\ Held' /\ call'[c] = k /\ \A x \in Calls \ {c} : call'[x] = call[x]
    BY <1>1, <1>5, <1>6, MoveStep DEF IInv
<1>8. charge' \in [AllRefs -> {"none", "open", "declined", "paid"}]
      /\ \A x \in AllRefs : charge[x] = "paid" => charge'[x] = "paid"
    BY <1>2 DEF IInv, TypeOK
<1> HIDE DEF o
<1>9. TypeOK'
    BY <1>1, <1>7, <1>8 DEF IInv, TypeOK
<1>10. Due'
    BY <1>1, <1>5, <1>7 DEF IInv, Due, o
<1>11. OwnRefs'
    BY <1>1, <1>4, <1>5, <1>7 DEF IInv, OwnRefs
<1>12. RefundsAccounted' /\ Unrefunded'
    <2>1. \A x \in Calls : call'[x].at = "refunded" <=> call[x].at = "refunded"
        BY <1>1, <1>5, <1>7
    <2>2. \A x \in Calls : call[x].at = "refunded" => call'[x].order = call[x].order
        BY <1>1, <1>5, <1>7
    <2>3. UNCHANGED <<pay, ref, refunds, lost>>
        BY DEF CreateIntent, rows
    <2>4. \A x \in Orders :
              /\ pay'[x] = "refunded" <=> pay[x] = "refunded"
              /\ pay'[x] \notin Paid => pay[x] \notin Paid
              /\ ref'[x] = ref[x] \/ (pay[x] = "pending" /\ ref'[x] \in Refs(x) \cup {EmptyRef})
        BY <2>3
    <2>5. UNCHANGED <<refunds, lost>>
        BY <2>3
    <2> QED
        BY <2>1, <2>2, <2>4, <2>5, MoneyFrame
<1>13. CapturedWasPaid'
    BY <1>1, <1>8, RefsAreOwn DEF IInv, CapturedWasPaid, OwnRefs, Paid
<1>14. EventsTellTheStatus'
    BY <1>1 DEF IInv, EventsTellTheStatus, History
<1> QED
    BY <1>7, <1>9, <1>10, <1>11, <1>12, <1>13, <1>14 DEF Frame, Money

LEMMA AuthorizeStep ==
    ASSUME IInv, NEW c \in Calls, Authorize(c)
    PROVE  Frame' /\ Money'
<1> DEFINE o == call[c].order
<1>1. /\ call[c].at = "authorize" /\ call[c] # Idle /\ o \in Orders /\ call[c] \in CallRecords
      /\ pay[o] = "pending" /\ call[c].ref \in Refs(o) \cup {EmptyRef}
      /\ \A x \in Calls \ {c} : call[x] # Idle => call[x].order # o
    BY IdleIsCall, Alone DEF IInv, Authorize, Due, OwnRefs
<1>2. /\ pay' = [pay EXCEPT ![o] = "authorized"] /\ ref' = [ref EXCEPT ![o] = call[c].ref]
      /\ provider' = [provider EXCEPT ![o] = call[c].provider]
      /\ Record(o, "initiated") /\ End(c)
      /\ UNCHANGED <<fulfilled, answered, charge, hooks, refunds, lost>>
    BY DEF Authorize, outside
<1>3. call[c].ref \in AllRefs \cup {NoRef, EmptyRef} /\ call[c].provider \in Providers \cup {""}
    BY <1>1 DEF CallRecords
<1> HIDE DEF o
<1>4. /\ call' \in [Calls -> CallRecords] /\ lock' \in [Orders -> Calls \cup {Nobody}]
      /\ Held' /\ call'[c] = Idle /\ \A x \in Calls \ {c} : call'[x] = call[x]
    BY <1>1, <1>2, EndStep DEF IInv
<1>5. /\ pay' \in [Orders -> PayStates] /\ pay'[o] = "authorized"
      /\ ref' \in [Orders -> AllRefs \cup {NoRef, EmptyRef}] /\ ref'[o] = call[c].ref
      /\ provider' \in [Orders -> Providers \cup {""}]
      /\ \A x \in Orders \ {o} : pay'[x] = pay[x] /\ ref'[x] = ref[x]
    BY <1>1, <1>2, <1>3 DEF IInv, TypeOK, PayStates
<1>6. events' \in [Orders -> Seq(Announced)]
    BY <1>1, <1>2, RecordStep DEF IInv, Announced
<1>7. TypeOK'
    BY <1>2, <1>4, <1>5, <1>6 DEF IInv, TypeOK
<1>8. Due'
    <2>1. \A x \in Calls \ {c} : call[x].at # "idle" => call[x].order \in Orders \ {o}
        BY <1>1, IdleIsCall DEF IInv, Held
    <2>2. \A x \in Calls \ {c} : /\ call'[x] = call[x]
                                /\ call[x].at # "idle" => pay'[call[x].order] = pay[call[x].order]
        BY <1>4, <1>5, <2>1
    <2> QED
        BY <1>4, <2>2, IdleIsCall DEF IInv, Due
<1>9. OwnRefs'
    BY <1>1, <1>4, <1>5, IdleIsCall DEF IInv, OwnRefs, Paid
<1>10. RefundsAccounted' /\ Unrefunded'
    <2>0. \A x \in Calls : call'[x].at = "refunded" <=> call[x].at = "refunded"
        BY <1>1, <1>4, IdleIsCall
    <2>1. \A x \in Calls : call[x].at = "refunded" => call'[x].order = call[x].order
        BY <1>1, <1>4, IdleIsCall
    <2>2. \A x \in Orders :
              /\ pay'[x] = "refunded" <=> pay[x] = "refunded"
              /\ pay'[x] \notin Paid => pay[x] \notin Paid
              /\ ref'[x] = ref[x] \/ (pay[x] = "pending" /\ ref'[x] \in Refs(x) \cup {EmptyRef})
        BY <1>1, <1>5 DEF Paid
    <2>3. UNCHANGED <<refunds, lost>>
        BY <1>2
    <2> QED
        BY <2>0, <2>1, <2>2, <2>3, MoneyFrame
<1>11. CapturedWasPaid'
    BY <1>2, <1>5 DEF IInv, CapturedWasPaid
<1>12. EventsTellTheStatus'
    BY <1>1, <1>2, Histories, TellStep DEF IInv, Announced
<1> QED
    BY <1>4, <1>7, <1>8, <1>9, <1>10, <1>11, <1>12 DEF Frame, Money

LEMMA AnswerRouteStep ==
    ASSUME IInv, NEW c \in Calls, AnswerRoute(c)
    PROVE  Frame' /\ Money'
<1>1. /\ call[c].at = "authorize" /\ call[c] # Idle /\ call[c].order \in Orders
    BY IdleIsCall, Alone DEF IInv, AnswerRoute
<1>2. /\ End(c) /\ answered' = answered \cup {call[c].order}
      /\ UNCHANGED <<fulfilled, pay, ref, provider, events, charge, hooks, refunds, lost>>
    BY DEF AnswerRoute, rows, outside
<1>3. /\ call' \in [Calls -> CallRecords] /\ lock' \in [Orders -> Calls \cup {Nobody}]
      /\ Held' /\ call'[c] = Idle /\ \A x \in Calls \ {c} : call'[x] = call[x]
    BY <1>1, <1>2, EndStep DEF IInv
<1>4. TypeOK'
    BY <1>1, <1>2, <1>3 DEF IInv, TypeOK
<1>5. Due'
    BY <1>2, <1>3, IdleIsCall DEF IInv, Due
<1>6. OwnRefs'
    BY <1>2, <1>3, IdleIsCall DEF IInv, OwnRefs
<1>7. Money'
    BY <1>1, <1>2, <1>3, IdleIsCall, MoneyKept
<1> QED
    BY <1>3, <1>4, <1>5, <1>6, <1>7 DEF Frame

(* A refund in progress is the only one of its order.                      *)
LEMMA OneRefund ==
    ASSUME IInv, NEW c \in Calls, call[c].at \in {"refund", "refunded"}
    PROVE  /\ call[c] # Idle /\ call[c].order \in Orders /\ call[c] \in CallRecords
           /\ pay[call[c].order] = "captured" /\ ref[call[c].order] \in Refs(call[c].order)
           /\ \A x \in Calls \ {c} : call[x].at # "idle" => call[x].order # call[c].order
<1>1. /\ call[c] # Idle /\ call[c].order \in Orders /\ call[c] \in CallRecords
      /\ \A x \in Calls \ {c} : call[x] # Idle => call[x].order # call[c].order
    BY IdleIsCall, Alone DEF IInv
<1>2. pay[call[c].order] = "captured"
    BY DEF IInv, Due
<1>3. ref[call[c].order] \in Refs(call[c].order)
    BY <1>1, <1>2 DEF IInv, OwnRefs, Paid
<1> QED
    BY <1>1, <1>2, <1>3, IdleIsCall

LEMMA RefundAtProviderStep ==
    ASSUME IInv, NEW c \in Calls, RefundAtProvider(c)
    PROVE  Frame' /\ Money'
<1> DEFINE o == call[c].order
           k == [call[c] EXCEPT !.at = "refunded"]
<1>1. call[c].at = "refund" /\ charge[ref[o]] = "paid" /\ refunds[ref[o]] < MaxRefunds
    BY DEF RefundAtProvider
<1>2. /\ refunds' = [refunds EXCEPT ![ref[o]] = @ + 1] /\ call' = [call EXCEPT ![c] = k]
      /\ UNCHANGED <<fulfilled, pay, ref, provider, events, answered, lock, charge, hooks, lost>>
    BY DEF RefundAtProvider, rows
<1>3. /\ call[c] # Idle /\ o \in Orders /\ call[c] \in CallRecords
      /\ pay[o] = "captured" /\ ref[o] \in Refs(o) /\ ref[o] \in AllRefs
      /\ \A x \in Calls \ {c} : call[x].at # "idle" => call[x].order # o
    BY <1>1, OneRefund, RefsAreOwn
<1>4. k \in CallRecords /\ k.at = "refunded" /\ k.order = o
    BY <1>3 DEF CallRecords, Ats
<1> HIDE DEF k
<1>5. /\ call' \in [Calls -> CallRecords]
      /\ Held' /\ call'[c] = k /\ \A x \in Calls \ {c} : call'[x] = call[x]
    BY <1>2, <1>3, <1>4, MoveStep DEF IInv
<1>6. /\ refunds' \in [AllRefs -> 0..MaxRefunds] /\ refunds'[ref[o]] = refunds[ref[o]] + 1
      /\ \A r \in AllRefs \ {ref[o]} : refunds'[r] = refunds[r]
    <2>1. refunds \in [AllRefs -> 0..MaxRefunds] /\ MaxRefunds \in Nat
        BY PaymentConstants DEF IInv, TypeOK
    <2>2. refunds[ref[o]] + 1 \in 0..MaxRefunds
        BY <1>1, <1>3, <2>1
    <2> QED
        BY <1>2, <1>3, <2>1, <2>2
<1> HIDE DEF o
<1>7. TypeOK'
    BY <1>2, <1>5, <1>6 DEF IInv, TypeOK
<1>8. Due'
    BY <1>2, <1>3, <1>4, <1>5 DEF IInv, Due
<1>9. OwnRefs'
    BY <1>2, <1>4, <1>5 DEF IInv, OwnRefs
<1>10. Unrefunded'
    <2> SUFFICES ASSUME NEW x \in Orders, pay[x] \notin Paid
                 PROVE  lost'[x] = 0 /\ \A r \in Refs(x) : refunds'[r] = 0
        BY <1>2 DEF Unrefunded
    <2>1. x # o /\ lost[x] = 0 /\ \A r \in Refs(x) : refunds[r] = 0
        BY <1>3 DEF IInv, Unrefunded, Paid
    <2>2. \A r \in Refs(x) : r \in AllRefs /\ r # ref[o]
        BY <1>3, <2>1, RefsAreOwn
    <2> QED
        BY <1>2, <1>6, <2>1, <2>2
<1>11. RefundsAccounted'
    <2> SUFFICES ASSUME NEW x \in Orders, NEW r \in AllRefs, r = ref[x]
                 PROVE  refunds'[r] = lost[x] + (IF pay[x] = "refunded" THEN 1 ELSE 0)
                          + (IF \E y \in Calls : call'[y].at = "refunded" /\ call'[y].order = x
                             THEN 1 ELSE 0)
        BY <1>2 DEF RefundsAccounted, Refunding
    <2>1. refunds[r] = lost[x] + (IF pay[x] = "refunded" THEN 1 ELSE 0)
              + (IF \E y \in Calls : call[y].at = "refunded" /\ call[y].order = x THEN 1 ELSE 0)
        BY DEF IInv, RefundsAccounted, Refunding
    <2>2. CASE x = o
        <3>1. ~\E y \in Calls : call[y].at = "refunded" /\ call[y].order = x
            BY <1>1, <1>3, <2>2
        <3>2. \E y \in Calls : call'[y].at = "refunded" /\ call'[y].order = x
            BY <1>4, <1>5, <2>2
        <3>3. pay[x] # "refunded" /\ lost[x] \in Nat
            BY <1>3, <2>2 DEF IInv, TypeOK
        <3> QED
            BY <1>6, <2>1, <2>2, <3>1, <3>2, <3>3
    <2>3. CASE x # o
        <3>1. r \in Refs(x)
            BY RefConstants DEF IInv, OwnRefs
        <3>2. r # ref[o]
            BY <1>3, <2>3, <3>1, RefsAreOwn
        <3>3. (\E y \in Calls : call'[y].at = "refunded" /\ call'[y].order = x)
                <=> (\E y \in Calls : call[y].at = "refunded" /\ call[y].order = x)
            BY <1>1, <1>4, <1>5, <2>3
        <3> QED
            BY <1>6, <2>1, <3>2, <3>3
    <2> QED
        BY <2>2, <2>3
<1>12. CapturedWasPaid'
    BY <1>2 DEF IInv, CapturedWasPaid
<1>13. EventsTellTheStatus'
    BY <1>2 DEF IInv, EventsTellTheStatus, History
<1> QED
    BY <1>5, <1>7, <1>8, <1>9, <1>10, <1>11, <1>12, <1>13 DEF Frame, Money

LEMMA RefundCommitStep ==
    ASSUME IInv, NEW c \in Calls, RefundCommit(c)
    PROVE  Frame' /\ Money'
<1> DEFINE o == call[c].order
<1>1. /\ call[c].at = "refunded" /\ pay' = [pay EXCEPT ![o] = "refunded"]
      /\ Record(o, "refunded") /\ End(c)
      /\ UNCHANGED <<fulfilled, ref, provider, answered, charge, hooks, refunds, lost>>
    BY DEF RefundCommit, outside
<1>2. /\ call[c] # Idle /\ o \in Orders /\ pay[o] = "captured" /\ ref[o] \in Refs(o)
      /\ \A x \in Calls \ {c} : call[x].at # "idle" => call[x].order # o
    BY <1>1, OneRefund
<1> HIDE DEF o
<1>3. /\ call' \in [Calls -> CallRecords] /\ lock' \in [Orders -> Calls \cup {Nobody}]
      /\ Held' /\ call'[c] = Idle /\ \A x \in Calls \ {c} : call'[x] = call[x]
    BY <1>1, <1>2, EndStep DEF IInv
<1>4. /\ pay' \in [Orders -> PayStates] /\ pay'[o] = "refunded"
      /\ \A x \in Orders \ {o} : pay'[x] = pay[x]
    BY <1>1, <1>2 DEF IInv, TypeOK, PayStates
<1>5. events' \in [Orders -> Seq(Announced)]
    BY <1>1, <1>2, RecordStep DEF IInv, Announced
<1>6. TypeOK'
    BY <1>1, <1>3, <1>4, <1>5 DEF IInv, TypeOK
<1>7. \A x \in Calls \ {c} : /\ call'[x] = call[x]
                            /\ call[x].at # "idle" => call[x].order \in Orders \ {o}
    BY <1>2, <1>3, IdleIsCall DEF IInv, Held
<1>8. Due'
    BY <1>3, <1>4, <1>7, IdleIsCall DEF IInv, Due
<1>9. OwnRefs'
    BY <1>1, <1>2, <1>3, <1>4, IdleIsCall DEF IInv, OwnRefs, Paid
<1>10. Unrefunded'
    BY <1>1, <1>4 DEF IInv, Unrefunded, Paid
<1>11. RefundsAccounted'
    <2> SUFFICES ASSUME NEW x \in Orders, NEW r \in AllRefs, r = ref[x]
                 PROVE  refunds[r] = lost[x] + (IF pay'[x] = "refunded" THEN 1 ELSE 0)
                          + (IF \E y \in Calls : call'[y].at = "refunded" /\ call'[y].order = x
                             THEN 1 ELSE 0)
        BY <1>1 DEF RefundsAccounted, Refunding
    <2>1. refunds[r] = lost[x] + (IF pay[x] = "refunded" THEN 1 ELSE 0)
              + (IF \E y \in Calls : call[y].at = "refunded" /\ call[y].order = x THEN 1 ELSE 0)
        BY DEF IInv, RefundsAccounted, Refunding
    <2>2. CASE x = o
        <3>1. \E y \in Calls : call[y].at = "refunded" /\ call[y].order = x
            BY <1>1, <2>2 DEF o
        <3>2. ~\E y \in Calls : call'[y].at = "refunded" /\ call'[y].order = x
            BY <1>3, <1>7, <2>2, IdleIsCall
        <3>3. pay[x] # "refunded" /\ pay'[x] = "refunded" /\ lost[x] \in Nat
            BY <1>2, <1>4, <2>2 DEF IInv, TypeOK
        <3> QED
            BY <2>1, <3>1, <3>2, <3>3
    <2>3. CASE x # o
        <3>1. (\E y \in Calls : call'[y].at = "refunded" /\ call'[y].order = x)
                <=> (\E y \in Calls : call[y].at = "refunded" /\ call[y].order = x)
            BY <1>3, <2>3, IdleIsCall DEF o
        <3> QED
            BY <1>4, <2>1, <2>3, <3>1
    <2> QED
        BY <2>2, <2>3
<1>12. CapturedWasPaid'
    BY <1>1, <1>2, <1>4 DEF IInv, CapturedWasPaid
<1>13. EventsTellTheStatus'
    BY <1>1, <1>2, Histories, TellStep DEF IInv, Announced
<1> QED
    BY <1>3, <1>6, <1>8, <1>9, <1>10, <1>11, <1>12, <1>13 DEF Frame, Money

LEMMA LoseStep ==
    ASSUME IInv, NEW c \in Calls, Lose(c)
    PROVE  Frame' /\ Money'
<1> DEFINE o == call[c].order
           gone == IF call[c].at = "refunded" THEN 1 ELSE 0
<1>1. /\ call[c] # Idle /\ lost' = [lost EXCEPT ![o] = @ + gone] /\ End(c)
      /\ UNCHANGED <<fulfilled, pay, ref, provider, events, answered, charge, hooks, refunds>>
    BY DEF Lose, rows, outside
<1>2. /\ o \in Orders /\ call[c].at # "idle"
      /\ \A x \in Calls \ {c} : call[x].at # "idle" => call[x].order # o
      /\ call[c].at = "refunded" => pay[o] = "captured"
    BY <1>1, Alone, IdleIsCall DEF IInv, Due
<1>3. gone \in {0, 1} /\ (gone = 1 <=> call[c].at = "refunded")
    OBVIOUS
<1> HIDE DEF o, gone
<1>4. /\ call' \in [Calls -> CallRecords] /\ lock' \in [Orders -> Calls \cup {Nobody}]
      /\ Held' /\ call'[c] = Idle /\ \A x \in Calls \ {c} : call'[x] = call[x]
    BY <1>1, EndStep DEF IInv
<1>5. /\ lost' \in [Orders -> Nat] /\ lost'[o] = lost[o] + gone
      /\ \A x \in Orders \ {o} : lost'[x] = lost[x]
    <2>1. lost \in [Orders -> Nat]
        BY DEF IInv, TypeOK
    <2>2. lost[o] + gone \in Nat
        BY <2>1, <1>2, <1>3
    <2>3. lost' = [lost EXCEPT ![o] = lost[o] + gone]
        BY <1>1
    <2> QED
        BY <2>1, <2>2, <2>3, <1>2
<1>6. TypeOK'
    BY <1>1, <1>4, <1>5 DEF IInv, TypeOK
<1>7. Due'
    BY <1>1, <1>4, IdleIsCall DEF IInv, Due
<1>8. OwnRefs'
    BY <1>1, <1>4, IdleIsCall DEF IInv, OwnRefs
<1>9. Unrefunded'
    <2> SUFFICES ASSUME NEW x \in Orders, pay[x] \notin Paid
                 PROVE  lost'[x] = 0 /\ \A r \in Refs(x) : refunds[r] = 0
        BY <1>1 DEF Unrefunded
    <2>1. lost[x] = 0 /\ \A r \in Refs(x) : refunds[r] = 0
        BY DEF IInv, Unrefunded
    <2>2. x = o => gone = 0
        BY <1>2, <1>3 DEF Paid
    <2> QED
        BY <2>1, <2>2, <1>5
<1>10. RefundsAccounted'
    <2> SUFFICES ASSUME NEW x \in Orders, NEW r \in AllRefs, r = ref[x]
                 PROVE  refunds[r] = lost'[x] + (IF pay[x] = "refunded" THEN 1 ELSE 0)
                          + (IF \E y \in Calls : call'[y].at = "refunded" /\ call'[y].order = x
                             THEN 1 ELSE 0)
        BY <1>1 DEF RefundsAccounted, Refunding
    <2>1. refunds[r] = lost[x] + (IF pay[x] = "refunded" THEN 1 ELSE 0)
              + (IF \E y \in Calls : call[y].at = "refunded" /\ call[y].order = x THEN 1 ELSE 0)
        BY DEF IInv, RefundsAccounted, Refunding
    <2>2. lost[x] \in Nat
        BY DEF IInv, TypeOK
    <2>3. CASE x = o
        <3>1. (\E y \in Calls : call[y].at = "refunded" /\ call[y].order = x) <=> gone = 1
            BY <1>2, <1>3, <2>3 DEF o
        <3>2. ~\E y \in Calls : call'[y].at = "refunded" /\ call'[y].order = x
            BY <1>2, <1>4, <2>3, IdleIsCall
        <3> QED
            BY <1>3, <1>5, <2>1, <2>2, <2>3, <3>1, <3>2
    <2>4. CASE x # o
        <3>1. (\E y \in Calls : call'[y].at = "refunded" /\ call'[y].order = x)
                <=> (\E y \in Calls : call[y].at = "refunded" /\ call[y].order = x)
            BY <1>4, <2>4, IdleIsCall DEF o
        <3> QED
            BY <1>5, <2>1, <2>4, <3>1
    <2> QED
        BY <2>3, <2>4
<1>11. CapturedWasPaid'
    BY <1>1 DEF IInv, CapturedWasPaid
<1>12. EventsTellTheStatus'
    BY <1>1 DEF IInv, EventsTellTheStatus, History
<1> QED
    BY <1>4, <1>6, <1>7, <1>8, <1>9, <1>10, <1>11, <1>12 DEF Frame, Money

(* An attempt at an intent, whatever comes of it.                          *)
LEMMA AttemptStep ==
    ASSUME IInv, NEW o \in Orders, NEW r \in Refs(o),
           CustomerPays(o, r) \/ CustomerDeclined(o, r)
    PROVE  Frame' /\ Money'
<1>1. /\ UNCHANGED <<fulfilled, pay, ref, provider, events, answered, lock, call, refunds, lost>>
      /\ charge[r] # "paid"
      /\ \E now \in {"paid", "declined"} : charge' = [charge EXCEPT ![r] = now]
      /\ \E kind \in {"completed", "failed"} : hooks' = hooks \cup {Hook(kind, o, r)}
    BY DEF CustomerPays, CustomerDeclined, rows, tx
<1>2. r \in AllRefs
    BY RefsAreOwn
<1>3. /\ charge' \in [AllRefs -> {"none", "open", "declined", "paid"}]
      /\ \A x \in AllRefs : charge[x] = "paid" => charge'[x] = "paid"
    BY <1>1, <1>2 DEF IInv, TypeOK
<1>4. hooks' \subseteq [kind : {"completed", "failed"}, order : Orders, ref : AllRefs]
    <2>1. PICK kind \in {"completed", "failed"} : hooks' = hooks \cup {Hook(kind, o, r)}
        BY <1>1
    <2>2. Hook(kind, o, r) \in [kind : {"completed", "failed"}, order : Orders, ref : AllRefs]
        BY <1>2 DEF Hook
    <2>3. hooks \subseteq [kind : {"completed", "failed"}, order : Orders, ref : AllRefs]
        BY DEF IInv, TypeOK
    <2> QED
        BY <2>1, <2>2, <2>3
<1>5. TypeOK'
    BY <1>1, <1>3, <1>4 DEF IInv, TypeOK
<1>6. Held' /\ Due' /\ OwnRefs'
    BY <1>1 DEF IInv, Held, Due, OwnRefs
<1>7. RefundsAccounted' /\ Unrefunded'
    BY <1>1 DEF IInv, RefundsAccounted, Refunding, Unrefunded
<1>8. CapturedWasPaid'
    BY <1>1, <1>3, RefsAreOwn DEF IInv, CapturedWasPaid, OwnRefs, Paid
<1>9. EventsTellTheStatus'
    BY <1>1 DEF IInv, EventsTellTheStatus, History
<1> QED
    BY <1>5, <1>6, <1>7, <1>8, <1>9 DEF Frame, Money

(* A webhook that moves an order on that no call holds.                    *)
LEMMA HookFrame ==
    ASSUME IInv, NEW o \in Orders, Free(o), NEW new \in PayStates \ {"pending", "refunded"},
           pay[o] = "authorized", pay' = [pay EXCEPT ![o] = new],
           events' \in [Orders -> Seq(Announced)],
           new = "captured" => ref[o] \in Refs(o) /\ charge[ref[o]] = "paid",
           UNCHANGED <<fulfilled, ref, provider, answered, tx, outside, lost>>
    PROVE  Frame' /\ RefundsAccounted' /\ Unrefunded' /\ CapturedWasPaid'
<1>1. /\ UNCHANGED <<fulfilled, ref, provider, answered, lock, call, charge, hooks, refunds, lost>>
      /\ pay' \in [Orders -> PayStates] /\ pay'[o] = new
      /\ \A x \in Orders \ {o} : pay'[x] = pay[x]
    BY DEF IInv, TypeOK, tx, outside
<1>2. \A c \in Calls : call[c].at # "idle" => call[c].order \in Orders \ {o}
    <2> SUFFICES ASSUME NEW c \in Calls, call[c].at # "idle"
                 PROVE  call[c].order \in Orders \ {o}
        OBVIOUS
    <2>1. call[c].order \in Orders /\ lock[call[c].order] = c
        BY IdleIsCall DEF IInv, Held
    <2>2. lock[o] = Nobody /\ c # Nobody
        BY PaymentConstants DEF Free
    <2> QED
        BY <2>1, <2>2
<1>3. TypeOK' /\ Held'
    <2>1. TypeOK'
        BY <1>1 DEF IInv, TypeOK
    <2>2. Held'
        BY <1>1 DEF IInv, Held
    <2> QED
        BY <2>1, <2>2
<1>4. Due'
    BY <1>1, <1>2 DEF IInv, Due
<1>5. OwnRefs'
    BY <1>1 DEF IInv, OwnRefs, Paid
<1>6. RefundsAccounted' /\ Unrefunded'
    <2>1. \A x \in Orders :
              /\ pay'[x] = "refunded" <=> pay[x] = "refunded"
              /\ pay'[x] \notin Paid => pay[x] \notin Paid
              /\ ref'[x] = ref[x] \/ (pay[x] = "pending" /\ ref'[x] \in Refs(x) \cup {EmptyRef})
        BY <1>1 DEF Paid
    <2>2. UNCHANGED <<call, refunds, lost>>
        BY <1>1
    <2> QED
        BY <2>1, <2>2, MoneyFrame
<1>7. CapturedWasPaid'
    BY <1>1 DEF IInv, CapturedWasPaid
<1> QED
    BY <1>3, <1>4, <1>5, <1>6, <1>7 DEF Frame

LEMMA ConfirmPaymentStep ==
    ASSUME IInv, NEW h \in hooks, NEW o \in Orders, ConfirmPayment(h, o)
    PROVE  Frame' /\ Money'
<1>1. /\ Free(o) /\ pay[o] = "authorized" /\ pay' = [pay EXCEPT ![o] = "captured"]
      /\ Record(o, "captured") /\ ref[o] = h.ref /\ charge[h.ref] = "paid"
      /\ UNCHANGED <<fulfilled, ref, provider, answered, tx, outside, lost>>
    BY DEF ConfirmPayment, AwaitsPayment, Verified
<1>2. ref[o] \in Refs(o)
    <2>1. h \in [kind : {"completed", "failed"}, order : Orders, ref : AllRefs]
        BY DEF IInv, TypeOK
    <2>2. h.ref \in AllRefs
        BY <2>1
    <2>3. ref[o] # NoRef /\ ref[o] # EmptyRef
        BY <1>1, <2>2, RefConstants
    <2> QED
        BY <2>3 DEF IInv, OwnRefs
<1>3. events' \in [Orders -> Seq(Announced)]
    BY <1>1, RecordStep DEF IInv, Announced
<1>4. "captured" \in PayStates \ {"pending", "refunded"}
    BY DEF PayStates
<1>5. Frame' /\ RefundsAccounted' /\ Unrefunded' /\ CapturedWasPaid'
    BY <1>1, <1>2, <1>3, <1>4, HookFrame
<1>6. EventsTellTheStatus'
    BY <1>1, Histories, TellStep DEF IInv, Announced
<1> QED
    BY <1>5, <1>6 DEF Money

LEMMA PaymentFailedStep ==
    ASSUME IInv, NEW h \in hooks, PaymentFailed(h)
    PROVE  Frame' /\ Money'
<1> DEFINE o == h.order
<1>1. /\ Free(o) /\ pay[o] = "authorized" /\ pay' = [pay EXCEPT ![o] = "failed"]
      /\ UNCHANGED <<fulfilled, ref, provider, events, answered, tx, outside, lost>>
    BY DEF PaymentFailed, AwaitsPayment
<1>2. o \in Orders /\ events' \in [Orders -> Seq(Announced)]
    BY <1>1 DEF IInv, TypeOK
<1>3. "failed" \in PayStates \ {"pending", "refunded"} /\ "failed" # "captured"
    BY DEF PayStates
<1> HIDE DEF o
<1>4. Frame' /\ RefundsAccounted' /\ Unrefunded' /\ CapturedWasPaid'
    BY <1>1, <1>2, <1>3, HookFrame
<1>5. pay'[o] = "failed" /\ \A x \in Orders \ {o} : pay'[x] = pay[x]
    BY <1>1, <1>2 DEF IInv, TypeOK
<1>6. \A x \in Orders : events'[x] = History[pay'[x]]
    <2>1. \A x \in Orders : events'[x] = History[pay[x]]
        BY <1>1 DEF IInv, EventsTellTheStatus
    <2> QED
        BY <1>1, <1>5, <2>1, Histories
<1>7. EventsTellTheStatus'
    BY <1>6 DEF EventsTellTheStatus, History
<1> QED
    BY <1>4, <1>7 DEF Money

LEMMA FulfilStep ==
    ASSUME IInv, NEW o \in Orders, Fulfil(o)
    PROVE  Frame' /\ Money'
<1>1. /\ fulfilled' = [fulfilled EXCEPT ![o] = TRUE]
      /\ UNCHANGED <<pay, ref, provider, events, answered, lock, call, charge, hooks, refunds, lost>>
    BY DEF Fulfil, tx, outside
<1>2. TypeOK' /\ Held' /\ Due' /\ OwnRefs'
    BY <1>1 DEF IInv, TypeOK, Held, Due, OwnRefs
<1>3. UNCHANGED <<pay, ref, events, charge, call, refunds, lost>>
    BY <1>1
<1> QED
    BY <1>2, <1>3, MoneyKept DEF Frame

-----------------------------------------------------------------------------

LEMMA Inductive == IInv /\ [Next]_vars => IInv'
<1> SUFFICES ASSUME IInv, [Next]_vars PROVE Frame' /\ Money'
    BY DEF IInv, Frame, Money
<1>1. ASSUME NEW c \in Calls, NEW o \in Orders, NEW p \in Providers, NEW byRoute \in BOOLEAN,
             InitiateLock(c, o, p, byRoute)
      PROVE  Frame' /\ Money'
    BY <1>1, InitiateLockStep
<1>2. ASSUME NEW c \in Calls, NEW o \in Orders, RefundLock(c, o) PROVE Frame' /\ Money'
    BY <1>2, RefundLockStep
<1>3. ASSUME NEW c \in Calls, CreateIntent(c) PROVE Frame' /\ Money'
    BY <1>3, CreateIntentStep
<1>4. ASSUME NEW c \in Calls, Authorize(c) PROVE Frame' /\ Money'
    BY <1>4, AuthorizeStep
<1>5. ASSUME NEW c \in Calls, AnswerRoute(c) PROVE Frame' /\ Money'
    BY <1>5, AnswerRouteStep
<1>6. ASSUME NEW c \in Calls, RefundAtProvider(c) PROVE Frame' /\ Money'
    BY <1>6, RefundAtProviderStep
<1>7. ASSUME NEW c \in Calls, RefundCommit(c) PROVE Frame' /\ Money'
    BY <1>7, RefundCommitStep
<1>8. ASSUME NEW c \in Calls, Lose(c) PROVE Frame' /\ Money'
    BY <1>8, LoseStep
<1>9. ASSUME NEW o \in Orders, Fulfil(o) PROVE Frame' /\ Money'
    BY <1>9, FulfilStep
<1>10. ASSUME NEW o \in Orders, NEW r \in Refs(o), CustomerPays(o, r) \/ CustomerDeclined(o, r)
       PROVE  Frame' /\ Money'
    BY <1>10, AttemptStep
<1>11. ASSUME NEW h \in hooks, PaymentFailed(h) PROVE Frame' /\ Money'
    BY <1>11, PaymentFailedStep
<1>12. ASSUME NEW h \in hooks, NEW o \in Orders, ConfirmPayment(h, o) PROVE Frame' /\ Money'
    BY <1>12, ConfirmPaymentStep
<1>13. CASE UNCHANGED vars
    <2>1. UNCHANGED <<fulfilled, pay, ref, provider, events, answered, lock, call, charge, hooks,
                      refunds, lost>>
        BY <1>13 DEF vars, rows, tx, outside
    <2>2. TypeOK' /\ Held' /\ Due' /\ OwnRefs'
        BY <2>1 DEF IInv, TypeOK, Held, Due, OwnRefs
    <2> QED
        BY <2>1, <2>2, MoneyKept DEF Frame
<1> QED
    BY <1>1, <1>2, <1>3, <1>4, <1>5, <1>6, <1>7, <1>8, <1>9, <1>10, <1>11, <1>12, <1>13 DEF Next

LEMMA Initially == Init => IInv
<1> SUFFICES ASSUME Init PROVE IInv
    OBVIOUS
<1>1. TypeOK
    BY TypeInit
<1>2. \A c \in Calls : call[c] = Idle /\ call[c].at = "idle"
    BY IdleIsCall DEF Init
<1>3. \A o \in Orders : pay[o] = "pending" /\ ref[o] = NoRef /\ lost[o] = 0 /\ events[o] = <<>>
    BY DEF Init
<1>4. Held /\ Due /\ OwnRefs
    BY <1>2, <1>3 DEF Held, Due, OwnRefs, Paid
<1>5. \A r \in AllRefs : refunds[r] = 0
    BY DEF Init
<1>6. Unrefunded
    BY <1>3, <1>5, RefsAreOwn DEF Unrefunded
<1>7. CapturedWasPaid
    BY <1>3 DEF CapturedWasPaid
<1>8. EventsTellTheStatus
    BY <1>3, Histories DEF EventsTellTheStatus
<1>9. RefundsAccounted
    <2> SUFFICES ASSUME NEW o \in Orders, NEW r \in AllRefs, r = ref[o] PROVE FALSE
        BY DEF RefundsAccounted
    <2> QED
        BY <1>3, RefConstants
<1> QED
    BY <1>1, <1>4, <1>6, <1>7, <1>8, <1>9 DEF IInv

LEMMA Invariance == Spec => []IInv
BY Initially, Inductive, PTL DEF Spec

(* Orders, calls, intents and refunds stay well typed                      *)
(* (app/modules/payments/service.py).                                      *)
THEOREM TypeCorrect == Spec => []TypeOK
<1>1. IInv => TypeOK
    BY DEF IInv
<1> QED
    BY <1>1, Invariance, PTL

(* An order is captured only when its own intent was paid                  *)
(* (confirm_payment): no declined, repeated or late completion does it.    *)
THEOREM CapturedWasPaidHolds == Spec => []CapturedWasPaid
<1>1. IInv => CapturedWasPaid
    BY DEF IInv
<1> QED
    BY <1>1, Invariance, PTL

(* The outbox has the events of an order's payment status, each once and   *)
(* in their order, whatever webhooks are repeated and calls are lost, and  *)
(* never one of a failure (initiate_payment, confirm_payment, the failure  *)
(* webhooks, refund_order).                                                *)
THEOREM EventsTellTheStatusHolds == Spec => []EventsTellTheStatus
<1>1. IInv => EventsTellTheStatus
    BY DEF IInv
<1> QED
    BY <1>1, Invariance, PTL

(* The provider's refunds of an order are the ones its status and its lost *)
(* calls account for (refund_order): concurrent refunds do not add up.     *)
THEOREM RefundsAccountedHolds == Spec => []RefundsAccounted
<1>1. IInv => RefundsAccounted
    BY DEF IInv
<1> QED
    BY <1>1, Invariance, PTL
====
