---- MODULE GatewayProofs ----
(***************************************************************************)
(* For any number of events, workers, failures and clients: the relay      *)
(* keeps the promise of the outbox, its broadcasts are accounted for, and  *)
(* a tracking client misses only what was broadcast between its snapshot   *)
(* and its subscription. The first half follows the relay, where what      *)
(* matters is that what a worker has locked is committed, not crossed off  *)
(* and no other's; the second adds what each client has been told so far.  *)
(***************************************************************************)
EXTENDS Gateway, FiniteSetTheorems, SequenceTheorems, TLAPS

(* The relay: what its workers hold, and what the channel carries.         *)
Taken ==
    \A w \in Workers : \A e \in batch[w] : state[e] = "committed" /\ ~published[e]
Disjoint ==
    \A w, x \in Workers : w # x => batch[w] \cap batch[x] = {}
Routed ==
    \A i \in DOMAIN channel : state[channel[i]] = "committed" /\ HasChannel(channel[i])

RelayInv == TypeOK /\ Taken /\ Disjoint /\ Routed /\ BroadcastsAccounted

-----------------------------------------------------------------------------
(* Sets of natural numbers: the least one, and the n oldest.               *)

LEMMA LeastExists ==
    ASSUME NEW S \in SUBSET Nat, S # {}
    PROVE  \E x \in S : \A y \in S : x <= y
<1>1. PICK x \in S : \A y \in S : ~(<<y, x>> \in OpToRel(<, Nat))
    BY NatLessThanWellFounded, WFMin
<1>2. ASSUME NEW y \in S PROVE x <= y
    <2>1. ~(y < x)
        BY <1>1 DEF OpToRel
    <2> QED
        BY <2>1
<1> QED
    BY <1>2

LEMMA EventsFinite == Events \subseteq Nat /\ IsFiniteSet(Events)
BY RelayConstants, FS_Interval DEF Events

LEMMA OldestBounded ==
    ASSUME NEW S \in SUBSET Events, NEW n \in Nat
    PROVE  Oldest(S, n) \subseteq S /\ Cardinality(Oldest(S, n)) <= n
<1> DEFINE Upto(e) == {f \in S : f <= e}
           rank == [e \in Oldest(S, n) |-> Cardinality(Upto(e))]
<1>1. IsFiniteSet(S) /\ S \subseteq Nat
    BY EventsFinite, FS_Subset
<1>2. Oldest(S, n) \subseteq S /\ \A e \in Oldest(S, n) : Cardinality(Upto(e)) <= n
    BY DEF Oldest
<1>3. \A e \in S : IsFiniteSet(Upto(e)) /\ Cardinality(Upto(e)) \in Nat
    BY <1>1, FS_Subset, FS_CardinalityType
<1>4. \A e \in S : Cardinality(Upto(e)) # 0
    <2> SUFFICES ASSUME NEW e \in S PROVE Cardinality(Upto(e)) # 0
        OBVIOUS
    <2>1. e \in Upto(e)
        BY <1>1
    <2> HIDE DEF Upto
    <2> QED
        BY <2>1, <1>3, FS_EmptySet
<1>5. ASSUME NEW e \in S, NEW f \in S, e < f
      PROVE  Cardinality(Upto(e)) < Cardinality(Upto(f))
    <2>0. e \in Nat /\ f \in Nat /\ \A g \in S : g \in Nat
        BY <1>1
    <2>1. Upto(e) \in SUBSET Upto(f) /\ f \in Upto(f) /\ f \notin Upto(e)
        <3>1. \A g \in S : g <= e => g <= f
            BY <1>5, <2>0
        <3>2. f <= f /\ ~(f <= e)
            BY <1>5, <2>0
        <3> QED
            BY <3>1, <3>2
    <2>2. IsFiniteSet(Upto(f)) /\ Cardinality(Upto(f)) \in Nat /\ Cardinality(Upto(e)) \in Nat
        BY <1>3
    <2> HIDE DEF Upto
    <2>3. Cardinality(Upto(e)) <= Cardinality(Upto(f))
        BY <2>1, <2>2, FS_Subset
    <2>4. Cardinality(Upto(e)) # Cardinality(Upto(f))
        BY <2>1, <2>2, FS_Subset
    <2> QED
        BY <2>2, <2>3, <2>4
<1> HIDE DEF Upto
<1>6. rank \in [Oldest(S, n) -> 1..n]
    BY <1>2, <1>3, <1>4
<1>7. ASSUME NEW e \in Oldest(S, n), NEW f \in Oldest(S, n), rank[e] = rank[f] PROVE e = f
    <2>1. e \in S /\ f \in S /\ e \in Nat /\ f \in Nat
        BY <1>1, <1>2
    <2>2. Cardinality(Upto(e)) = Cardinality(Upto(f))
        BY <1>7
    <2>3. ~(e < f) /\ ~(f < e)
        BY <1>3, <1>5, <2>1, <2>2
    <2> QED
        BY <2>1, <2>3
<1> HIDE DEF rank
<1>8. rank \in Injection(Oldest(S, n), 1..n)
    BY <1>6, <1>7 DEF Injection, IsInjective
<1>9. IsFiniteSet(1..n) /\ Cardinality(1..n) = n
    BY FS_Interval
<1>10. Cardinality(Oldest(S, n)) <= Cardinality(1..n)
    BY <1>8, <1>9, FS_Injection
<1> QED
    BY <1>2, <1>9, <1>10

LEMMA NextIsDue ==
    ASSUME TypeOK, NEW w \in Workers, Due(w) # {}
    PROVE  /\ NextEvent(w) \in Due(w) /\ NextEvent(w) \in Events
           /\ NextEvent(w) \in batch[w] /\ NextEvent(w) \notin sent[w] \cup failed[w]
<1>1. Due(w) \subseteq batch[w] /\ batch[w] \subseteq Events
    BY DEF Due, TypeOK
<1>2. Due(w) \in SUBSET Nat
    BY <1>1, EventsFinite
<1>3. \E e \in Due(w) : \A f \in Due(w) : e <= f
    BY <1>2, LeastExists
<1>4. NextEvent(w) \in Due(w)
    BY <1>3 DEF NextEvent
<1> QED
    BY <1>1, <1>4 DEF Due

-----------------------------------------------------------------------------
(* How often an event is on the channel.                                   *)

Count(s, e) == Cardinality({i \in DOMAIN s : s[i] = e})

LEMMA CountIsNat ==
    ASSUME NEW s \in Seq(Events), NEW e
    PROVE  /\ IsFiniteSet({i \in DOMAIN s : s[i] = e}) /\ Count(s, e) \in Nat
           /\ Count(s, e) = 0 <=> ~\E i \in DOMAIN s : s[i] = e
<1> DEFINE D == {i \in DOMAIN s : s[i] = e}
<1>1. DOMAIN s = 1..Len(s) /\ Len(s) \in Nat
    BY LenProperties
<1>2. IsFiniteSet(D)
    <2>1. IsFiniteSet(1..Len(s))
        BY <1>1, FS_Interval
    <2>2. D \in SUBSET (1..Len(s))
        BY <1>1
    <2> QED
        BY <2>1, <2>2, FS_Subset
<1>3. Cardinality(D) \in Nat /\ (Cardinality(D) = 0 <=> D = {})
    BY <1>2, FS_CardinalityType, FS_EmptySet
<1> QED
    BY <1>2, <1>3 DEF Count

LEMMA CountAppend ==
    ASSUME NEW s \in Seq(Events), NEW x \in Events, NEW e
    PROVE  Count(Append(s, x), e) = Count(s, e) + (IF x = e THEN 1 ELSE 0)
<1> DEFINE t == Append(s, x)
           D == {i \in DOMAIN s : s[i] = e}
           n == Len(s) + 1
<1>1. /\ t \in Seq(Events) /\ Len(t) = n /\ t[n] = x
      /\ \A i \in 1..Len(s) : t[i] = s[i]
    BY AppendProperties
<1>2. DOMAIN s = 1..Len(s) /\ DOMAIN t = 1..n /\ Len(s) \in Nat
    BY <1>1, LenProperties
<1> HIDE DEF t
<1>3. {i \in DOMAIN t : t[i] = e} = IF x = e THEN D \cup {n} ELSE D
    BY <1>1, <1>2
<1>4. IsFiniteSet(D) /\ Cardinality(D) \in Nat /\ n \notin D
    <2>1. n \notin D
        BY <1>2
    <2>2. IsFiniteSet(D)
        BY CountIsNat
    <2> QED
        BY <2>1, <2>2, FS_CardinalityType
<1> HIDE DEF D, n
<1>5. Cardinality(D \cup {n}) = Cardinality(D) + 1
    BY <1>4, FS_AddElement
<1>6. Count(t, e) = Cardinality(IF x = e THEN D \cup {n} ELSE D)
    BY <1>3 DEF Count
<1>7. Count(t, e) = Cardinality(D) + (IF x = e THEN 1 ELSE 0)
    BY <1>4, <1>5, <1>6
<1> QED
    BY <1>7 DEF Count, D, t

-----------------------------------------------------------------------------
(* What the promise of the outbox is about, of the events with a channel.  *)

Committed == {e \in Events : state[e] = "committed" /\ HasChannel(e)}
Delivered == {e \in Events : HasChannel(e) /\ Times(e) > 0}
CrossedOff == {e \in Events : HasChannel(e) /\ published[e]}
promised == <<Committed, Delivered, CrossedOff>>
Kept == [Promise!Next]_promised

LEMMA KeptCases ==
    /\ UNCHANGED promised => Kept
    /\ \A e \in Events : Committed' = Committed \cup {e} /\ e \notin Committed
                         /\ UNCHANGED <<Delivered, CrossedOff>> => Kept
    /\ \A e \in Events : Delivered' = Delivered \cup {e} /\ e \in Committed \ CrossedOff
                         /\ UNCHANGED <<Committed, CrossedOff>> => Kept
    /\ \A S \in SUBSET Events : CrossedOff' = CrossedOff \cup S /\ S \subseteq Delivered
                         /\ UNCHANGED <<Committed, Delivered>> => Kept
BY DEF Kept, promised, Committed, Delivered, CrossedOff, Promise!Next, Promise!Commit,
       Promise!Deliver, Promise!CrossOff

LEMMA TimesIsCount ==
    ASSUME TypeOK, NEW e
    PROVE  Times(e) = Count(channel, e) /\ Times(e) \in Nat
BY CountIsNat DEF Times, Count, TypeOK

(* A step that leaves events, channel and batches alone.                   *)
LEMMA IdleStep ==
    ASSUME RelayInv, UNCHANGED vars
    PROVE  RelayInv' /\ Kept
<1>1. UNCHANGED <<state, kind, published, attempts, channel, batch, sent, failed, repeats, failures>>
    BY DEF vars, outbox, workers
<1>2. RelayInv'
    <2>1. TypeOK' /\ Taken' /\ Disjoint' /\ Routed'
        BY <1>1 DEF RelayInv, TypeOK, Taken, Disjoint, Routed, HasChannel
    <2>2. BroadcastsAccounted'
        BY <1>1 DEF RelayInv, BroadcastsAccounted, Times, Recorded, HasChannel
    <2> QED
        BY <2>1, <2>2 DEF RelayInv
<1>3. UNCHANGED promised
    BY <1>1 DEF promised, Committed, Delivered, CrossedOff, Times, HasChannel
<1> QED
    BY <1>2, <1>3, KeptCases

LEMMA TransactionStep ==
    ASSUME RelayInv, NEW e \in Events, Begin(e) \/ Commit(e)
    PROVE  RelayInv' /\ Kept
<1>1. UNCHANGED <<kind, published, attempts, channel, batch, sent, failed, repeats, failures>>
    BY DEF Begin, Commit, workers
<1>2. \E now \in {"open", "committed"} : state' = [state EXCEPT ![e] = now]
    BY DEF Begin, Commit
<1>3. state[e] # "committed" /\ state \in [Events -> {"new", "open", "committed"}]
    BY DEF Begin, Commit, RelayInv, TypeOK
<1>4. /\ state' \in [Events -> {"new", "open", "committed"}]
      /\ \A x \in Events \ {e} : state'[x] = state[x]
    BY <1>2, <1>3
<1>5. TypeOK'
    BY <1>1, <1>4 DEF RelayInv, TypeOK
<1>6. Taken' /\ Disjoint'
    BY <1>1, <1>3, <1>4 DEF RelayInv, TypeOK, Taken, Disjoint
<1>7. Routed'
    <2> SUFFICES ASSUME NEW i \in DOMAIN channel
                 PROVE  state'[channel[i]] = "committed" /\ HasChannel(channel[i])
        BY <1>1 DEF Routed, HasChannel
    <2>1. state[channel[i]] = "committed" /\ HasChannel(channel[i])
        BY DEF RelayInv, Routed
    <2>2. channel[i] \in Events
        BY ElementOfSeq, LenProperties DEF RelayInv, TypeOK
    <2> QED
        BY <1>3, <1>4, <2>1, <2>2
<1>8. BroadcastsAccounted'
    BY <1>1 DEF RelayInv, BroadcastsAccounted, Times, Recorded, HasChannel
<1>9. UNCHANGED <<Delivered, CrossedOff>>
    BY <1>1 DEF Delivered, CrossedOff, Times, HasChannel
<1>10. \A x \in Events : HasChannel(x)' <=> HasChannel(x)
    BY <1>1 DEF HasChannel
<1>11. Kept
    <2>1. CASE state'[e] = "committed" /\ HasChannel(e)
        <3>1. Committed' = Committed \cup {e} /\ e \notin Committed
            BY <1>3, <1>4, <1>10, <2>1 DEF Committed
        <3> QED
            BY <1>9, <3>1, KeptCases
    <2>2. CASE ~(state'[e] = "committed" /\ HasChannel(e))
        <3>1. Committed' = Committed
            BY <1>3, <1>4, <1>10, <2>2 DEF Committed
        <3> QED
            BY <1>9, <3>1, KeptCases DEF promised
    <2> QED
        BY <2>1, <2>2
<1> QED
    BY <1>5, <1>6, <1>7, <1>8, <1>11 DEF RelayInv

LEMMA TakeBatchStep ==
    ASSUME RelayInv, NEW w \in Workers, TakeBatch(w)
    PROVE  RelayInv' /\ Kept
<1> DEFINE S == Oldest(Available, BatchSize)
<1>1. /\ batch[w] = {} /\ batch' = [batch EXCEPT ![w] = S]
      /\ UNCHANGED <<state, kind, published, attempts, channel, sent, failed, repeats, failures>>
    BY DEF TakeBatch, outbox
<1>2. Available \in SUBSET Events /\ BatchSize \in Nat
    BY RelayConstants DEF Available
<1>3. S \subseteq Available /\ Cardinality(S) <= BatchSize
    BY <1>2, OldestBounded
<1>4. /\ \A e \in Available : state[e] = "committed" /\ ~published[e]
      /\ \A x \in Workers : batch[x] \cap Available = {}
    BY DEF Available, Locked
<1> HIDE DEF S
<1>5. /\ batch' \in [Workers -> SUBSET Events] /\ batch'[w] = S
      /\ \A x \in Workers \ {w} : batch'[x] = batch[x]
    BY <1>1, <1>2, <1>3 DEF RelayInv, TypeOK
<1>6. TypeOK'
    BY <1>1, <1>3, <1>5 DEF RelayInv, TypeOK
<1>7. Taken'
    BY <1>1, <1>3, <1>4, <1>5 DEF RelayInv, Taken
<1>8. Disjoint'
    BY <1>3, <1>4, <1>5 DEF RelayInv, Disjoint
<1>9. Routed' /\ BroadcastsAccounted'
    BY <1>1 DEF RelayInv, Routed, BroadcastsAccounted, Times, Recorded, HasChannel
<1>10. UNCHANGED promised
    BY <1>1 DEF promised, Committed, Delivered, CrossedOff, Times, HasChannel
<1> QED
    BY <1>6, <1>7, <1>8, <1>9, <1>10, KeptCases DEF RelayInv

(* What a broadcast does to the channel.                                   *)
LEMMA BroadcastStep ==
    ASSUME RelayInv, NEW e \in Events, state[e] = "committed", ~published[e], Broadcast(e),
           UNCHANGED <<state, kind, published>>
    PROVE  /\ channel' \in Seq(Events) /\ Routed'
           /\ \A x \in Events :
                Times(x)' = Times(x) + (IF x = e /\ HasChannel(e) THEN 1 ELSE 0)
           /\ Kept
<1>1. \A x \in Events : HasChannel(x)' <=> HasChannel(x)
    BY DEF HasChannel
<1>2. UNCHANGED <<Committed, CrossedOff>>
    BY DEF Committed, CrossedOff, HasChannel
<1>3. channel \in Seq(Events) /\ \A x \in Events : Times(x) = Count(channel, x) /\ Times(x) \in Nat
    BY TimesIsCount DEF RelayInv, TypeOK
<1>4. \A x \in Events : Times(x)' = Count(channel', x)
    BY DEF Times, Count
<1>5. CASE HasChannel(e)
    <2>1. channel' = Append(channel, e)
        BY <1>5 DEF Broadcast
    <2>2. channel' \in Seq(Events)
        BY <1>3, <2>1, AppendProperties
    <2>3. \A x \in Events : Times(x)' = Times(x) + (IF x = e THEN 1 ELSE 0)
        BY <1>3, <1>4, <2>1, CountAppend
    <2>4. Routed'
        <3>1. \A i \in 1..Len(channel) : channel'[i] = channel[i]
            BY <1>3, <2>1, AppendProperties
        <3>2. channel'[Len(channel) + 1] = e /\ Len(channel') = Len(channel) + 1
            BY <1>3, <2>1, AppendProperties
        <3>3. DOMAIN channel' = 1..Len(channel') /\ DOMAIN channel = 1..Len(channel)
              /\ Len(channel) \in Nat
            BY <1>3, <2>2, LenProperties
        <3> SUFFICES ASSUME NEW i \in DOMAIN channel'
                     PROVE  state[channel'[i]] = "committed" /\ kind[channel'[i]] \in {"order", "delivery.scheduled"}
            BY DEF Routed, HasChannel
        <3>4. CASE i \in DOMAIN channel
            BY <3>1, <3>3, <3>4 DEF RelayInv, Routed, HasChannel
        <3>5. CASE i \notin DOMAIN channel
            <4>1. i = Len(channel) + 1
                BY <3>2, <3>3, <3>5
            <4> QED
                BY <1>5, <3>2, <4>1 DEF HasChannel
        <3> QED
            BY <3>4, <3>5
    <2>5. Delivered' = Delivered \cup {e}
        BY <1>1, <1>3, <1>5, <2>3 DEF Delivered
    <2>6. e \in Committed \ CrossedOff
        BY <1>5 DEF Committed, CrossedOff
    <2>7. Kept
        BY <1>2, <2>5, <2>6, KeptCases
    <2> QED
        BY <1>5, <2>2, <2>3, <2>4, <2>7
<1>6. CASE ~HasChannel(e)
    <2>1. channel' = channel
        BY <1>6 DEF Broadcast
    <2>2. Routed'
        BY <2>1 DEF RelayInv, Routed, HasChannel
    <2>3. UNCHANGED Delivered
        BY <1>1, <2>1 DEF Delivered, Times, HasChannel
    <2>4. Kept
        BY <1>2, <2>3, KeptCases DEF promised
    <2> QED
        BY <1>3, <1>4, <1>6, <2>1, <2>2, <2>4
<1> QED
    BY <1>5, <1>6

(* What a worker has locked is not crossed off, and no other sends it.      *)
LEMMA OnlyOneSends ==
    ASSUME RelayInv, NEW w \in Workers, NEW e \in batch[w]
    PROVE  ~published[e] /\ \A x \in Workers \ {w} : e \notin sent[x]
BY DEF RelayInv, TypeOK, Taken, Disjoint

LEMMA PublishStep ==
    ASSUME RelayInv, NEW w \in Workers, Publish(w)
    PROVE  RelayInv' /\ Kept
<1> DEFINE e == NextEvent(w)
<1>1. /\ Due(w) # {} /\ Broadcast(e) /\ sent' = [sent EXCEPT ![w] = @ \cup {e}]
      /\ UNCHANGED <<state, kind, published, attempts, batch, failed, repeats, failures>>
    BY DEF Publish, outbox
<1>2. e \in Events /\ e \in batch[w] /\ e \notin sent[w] \cup failed[w]
    BY <1>1, NextIsDue DEF RelayInv
<1> HIDE DEF e
<1>3. /\ state[e] = "committed" /\ ~published[e]
      /\ \A x \in Workers \ {w} : e \notin sent[x]
    BY <1>2, OnlyOneSends DEF RelayInv, Taken
<1>4. /\ channel' \in Seq(Events) /\ Routed' /\ Kept
      /\ \A x \in Events :
           Times(x)' = Times(x) + (IF x = e /\ HasChannel(e) THEN 1 ELSE 0)
    BY <1>1, <1>2, <1>3, BroadcastStep
<1>5. /\ sent' \in [Workers -> SUBSET Events] /\ sent'[w] = sent[w] \cup {e}
      /\ \A x \in Workers \ {w} : sent'[x] = sent[x]
    BY <1>1, <1>2 DEF RelayInv, TypeOK
<1>6. TypeOK'
    BY <1>1, <1>2, <1>4, <1>5 DEF RelayInv, TypeOK
<1>7. Taken' /\ Disjoint'
    BY <1>1 DEF RelayInv, Taken, Disjoint
<1>8. BroadcastsAccounted'
    <2> SUFFICES ASSUME NEW x \in Events
                 PROVE  Times(x)' = repeats[x] + (IF Recorded(x)' /\ HasChannel(x) THEN 1 ELSE 0)
        BY <1>1 DEF BroadcastsAccounted, HasChannel
    <2>1. Times(x) = repeats[x] + (IF Recorded(x) /\ HasChannel(x) THEN 1 ELSE 0)
          /\ repeats[x] \in Nat
        BY DEF RelayInv, BroadcastsAccounted, TypeOK
    <2>2. CASE x = e
        <3>1. ~Recorded(x) /\ Recorded(x)'
            BY <1>1, <1>2, <1>3, <1>5, <2>2 DEF Recorded
        <3> QED
            BY <1>4, <2>1, <2>2, <3>1
    <2>3. CASE x # e
        <3>1. Recorded(x)' <=> Recorded(x)
            BY <1>1, <1>5, <2>3 DEF Recorded
        <3> QED
            BY <1>4, <2>1, <2>3, <3>1
    <2> QED
        BY <2>2, <2>3
<1> QED
    BY <1>4, <1>6, <1>7, <1>8 DEF RelayInv

LEMMA PublishFailsStep ==
    ASSUME RelayInv, NEW w \in Workers, PublishFails(w)
    PROVE  RelayInv' /\ Kept
<1> DEFINE e == NextEvent(w)
<1>1. /\ Due(w) # {} /\ failures < MaxFailures /\ failures' = failures + 1
      /\ failed' = [failed EXCEPT ![w] = @ \cup {e}]
      /\ UNCHANGED <<state, kind, published, attempts, batch, sent>>
      /\ \/ UNCHANGED <<channel, repeats>>
         \/ HasChannel(e) /\ Broadcast(e) /\ repeats' = [repeats EXCEPT ![e] = @ + 1]
    BY DEF PublishFails, outbox
<1>2. e \in Events /\ e \in batch[w] /\ e \notin sent[w] \cup failed[w]
    BY <1>1, NextIsDue DEF RelayInv
<1> HIDE DEF e
<1>3. state[e] = "committed" /\ ~published[e]
    BY <1>2 DEF RelayInv, Taken
<1>4. /\ failed' \in [Workers -> SUBSET Events] /\ failed'[w] = failed[w] \cup {e}
      /\ \A x \in Workers \ {w} : failed'[x] = failed[x]
    BY <1>1, <1>2 DEF RelayInv, TypeOK
<1>5. failures' \in 0..MaxFailures
    BY <1>1, RelayConstants DEF RelayInv, TypeOK
<1>6. Taken' /\ Disjoint'
    BY <1>1 DEF RelayInv, Taken, Disjoint
<1>7. \A x \in Events : (Recorded(x)' <=> Recorded(x)) /\ (HasChannel(x)' <=> HasChannel(x))
    BY <1>1 DEF Recorded, HasChannel
<1>8. CASE UNCHANGED <<channel, repeats>>
    <2>1. TypeOK'
        BY <1>1, <1>2, <1>4, <1>5, <1>8 DEF RelayInv, TypeOK
    <2>2. Routed' /\ BroadcastsAccounted'
        BY <1>1, <1>8 DEF RelayInv, Routed, BroadcastsAccounted, Times, Recorded, HasChannel
    <2>3. UNCHANGED promised
        BY <1>1, <1>8 DEF promised, Committed, Delivered, CrossedOff, Times, HasChannel
    <2> QED
        BY <1>6, <2>1, <2>2, <2>3, KeptCases DEF RelayInv
<1>9. CASE HasChannel(e) /\ Broadcast(e) /\ repeats' = [repeats EXCEPT ![e] = @ + 1]
    <2>1. /\ channel' \in Seq(Events) /\ Routed' /\ Kept
          /\ \A x \in Events : Times(x)' = Times(x) + (IF x = e /\ HasChannel(e) THEN 1 ELSE 0)
        BY <1>1, <1>2, <1>3, <1>9, BroadcastStep
    <2>2. /\ repeats' \in [Events -> Nat] /\ repeats'[e] = repeats[e] + 1
          /\ \A x \in Events \ {e} : repeats'[x] = repeats[x]
        BY <1>2, <1>9 DEF RelayInv, TypeOK
    <2>3. TypeOK'
        BY <1>1, <1>2, <1>4, <1>5, <2>1, <2>2 DEF RelayInv, TypeOK
    <2>4. BroadcastsAccounted'
        <3> SUFFICES ASSUME NEW x \in Events
                     PROVE  Times(x)' = repeats'[x] + (IF Recorded(x)' /\ HasChannel(x)' THEN 1 ELSE 0)
            BY DEF BroadcastsAccounted
        <3>1. Times(x) = repeats[x] + (IF Recorded(x) /\ HasChannel(x) THEN 1 ELSE 0)
              /\ repeats[x] \in Nat
            BY DEF RelayInv, BroadcastsAccounted, TypeOK
        <3> QED
            BY <1>7, <1>9, <2>1, <2>2, <3>1
    <2> QED
        BY <1>6, <2>1, <2>3, <2>4 DEF RelayInv
<1> QED
    BY <1>1, <1>8, <1>9

LEMMA DropStep ==
    ASSUME RelayInv, NEW w \in Workers, Drop(w)
    PROVE  /\ batch' \in [Workers -> SUBSET Events] /\ batch'[w] = {}
           /\ sent' \in [Workers -> SUBSET Events] /\ sent'[w] = {}
           /\ failed' \in [Workers -> SUBSET Events] /\ failed'[w] = {}
           /\ \A x \in Workers \ {w} :
                batch'[x] = batch[x] /\ sent'[x] = sent[x] /\ failed'[x] = failed[x]
           /\ \A x \in Workers :
                /\ Cardinality(batch'[x]) <= BatchSize
                /\ sent'[x] \cup failed'[x] \subseteq batch'[x] /\ sent'[x] \cap failed'[x] = {}
           /\ Disjoint'
<1>1. /\ batch' = [batch EXCEPT ![w] = {}]
      /\ sent' = [sent EXCEPT ![w] = {}]
      /\ failed' = [failed EXCEPT ![w] = {}]
    BY DEF Drop
<1>2. /\ batch' \in [Workers -> SUBSET Events] /\ batch'[w] = {}
      /\ sent' \in [Workers -> SUBSET Events] /\ sent'[w] = {}
      /\ failed' \in [Workers -> SUBSET Events] /\ failed'[w] = {}
      /\ \A x \in Workers \ {w} :
            batch'[x] = batch[x] /\ sent'[x] = sent[x] /\ failed'[x] = failed[x]
    BY <1>1 DEF RelayInv, TypeOK
<1>3. \A x \in Workers :
          /\ Cardinality(batch'[x]) <= BatchSize
          /\ sent'[x] \cup failed'[x] \subseteq batch'[x] /\ sent'[x] \cap failed'[x] = {}
    <2>1. Cardinality({}) <= BatchSize
        BY FS_EmptySet, RelayConstants
    <2> QED
        BY <1>2, <2>1 DEF RelayInv, TypeOK
<1>4. Disjoint'
    BY <1>2 DEF RelayInv, Disjoint
<1> QED
    BY <1>2, <1>3, <1>4

LEMMA CommitBatchStep ==
    ASSUME RelayInv, NEW w \in Workers, CommitBatch(w)
    PROVE  RelayInv' /\ Kept
<1>1. /\ published' = [e \in Events |-> published[e] \/ e \in sent[w]]
      /\ attempts' = [e \in Events |-> attempts[e] + (IF e \in failed[w] THEN 1 ELSE 0)]
      /\ Drop(w) /\ UNCHANGED <<state, kind, channel, repeats, failures>>
    BY DEF CommitBatch, MarkSent
<1>2. attempts' \in [Events -> Nat]
    <2>1. \A e \in Events : attempts[e] \in Nat
        BY DEF RelayInv, TypeOK
    <2> QED
        BY <1>1, <2>1
<1>3. published' \in [Events -> BOOLEAN] /\ \A e \in Events : published'[e] <=> published[e] \/ e \in sent[w]
    BY <1>1 DEF RelayInv, TypeOK
<1>4. TypeOK'
    BY <1>1, <1>2, <1>3, DropStep DEF RelayInv, TypeOK
<1>5. Taken'
    <2> SUFFICES ASSUME NEW x \in Workers, NEW e \in batch'[x]
                 PROVE  state[e] = "committed" /\ ~published'[e]
        BY <1>1 DEF Taken
    <2>1. x # w /\ e \in batch[x] /\ e \in Events
        BY <1>1, DropStep DEF RelayInv, TypeOK
    <2>2. state[e] = "committed" /\ ~published[e] /\ e \notin sent[w]
        BY <2>1, OnlyOneSends DEF RelayInv, Taken
    <2> QED
        BY <1>3, <2>1, <2>2
<1>6. Routed'
    BY <1>1 DEF RelayInv, Routed, HasChannel
<1>7. \A x \in Events : Recorded(x)' <=> Recorded(x)
    BY <1>1, <1>3, DropStep DEF Recorded
<1>8. \A x \in Events : (HasChannel(x)' <=> HasChannel(x)) /\ Times(x)' = Times(x)
    BY <1>1 DEF HasChannel, Times
<1>9. BroadcastsAccounted'
    BY <1>1, <1>7, <1>8 DEF RelayInv, BroadcastsAccounted
<1>10. Kept
    <2> DEFINE S == {e \in sent[w] : HasChannel(e)}
    <2>1. sent[w] \in SUBSET Events
        BY DEF RelayInv, TypeOK
    <2>2. CrossedOff' = CrossedOff \cup S
        BY <1>3, <1>8, <2>1 DEF CrossedOff
    <2>3. S \subseteq Delivered
        <3> SUFFICES ASSUME NEW e \in sent[w], HasChannel(e) PROVE Times(e) > 0 /\ e \in Events
            BY DEF Delivered
        <3>1. e \in Events /\ Recorded(e)
            BY <2>1 DEF Recorded
        <3>2. Times(e) = repeats[e] + 1 /\ repeats[e] \in Nat
            BY <3>1 DEF RelayInv, BroadcastsAccounted, TypeOK
        <3> QED
            BY <3>1, <3>2
    <2>4. UNCHANGED <<Committed, Delivered>>
        BY <1>1, <1>8 DEF Committed, Delivered
    <2>5. S \in SUBSET Events
        BY <2>1
    <2> QED
        BY <2>2, <2>3, <2>4, <2>5, KeptCases
<1> QED
    BY <1>1, <1>4, <1>5, <1>6, <1>9, <1>10, DropStep DEF RelayInv

LEMMA CrashStep ==
    ASSUME RelayInv, NEW w \in Workers, Crash(w)
    PROVE  RelayInv' /\ Kept
<1>1. /\ failures < MaxFailures /\ failures' = failures + 1 /\ Drop(w)
      /\ repeats' = [e \in Events |->
                       repeats[e] + (IF e \in sent[w] /\ HasChannel(e) THEN 1 ELSE 0)]
      /\ UNCHANGED <<state, kind, published, attempts, channel>>
    BY DEF Crash, outbox
<1>2. failures' \in 0..MaxFailures
    BY <1>1, RelayConstants DEF RelayInv, TypeOK
<1>3. repeats' \in [Events -> Nat]
    <2>1. \A e \in Events : repeats[e] \in Nat
        BY DEF RelayInv, TypeOK
    <2> QED
        BY <1>1, <2>1
<1>4. TypeOK'
    BY <1>1, <1>2, <1>3, DropStep DEF RelayInv, TypeOK
<1>5. Taken'
    BY <1>1, DropStep DEF RelayInv, Taken
<1>6. Routed'
    BY <1>1 DEF RelayInv, Routed, HasChannel
<1>7. BroadcastsAccounted'
    <2> SUFFICES ASSUME NEW x \in Events
                 PROVE  Times(x) = repeats'[x] + (IF Recorded(x)' /\ HasChannel(x) THEN 1 ELSE 0)
        BY <1>1 DEF BroadcastsAccounted, HasChannel, Times
    <2>1. Times(x) = repeats[x] + (IF Recorded(x) /\ HasChannel(x) THEN 1 ELSE 0)
          /\ repeats[x] \in Nat
        BY DEF RelayInv, BroadcastsAccounted, TypeOK
    <2>2. repeats'[x] = repeats[x] + (IF x \in sent[w] /\ HasChannel(x) THEN 1 ELSE 0)
        BY <1>1
    <2>3. CASE x \in sent[w]
        <3>1. x \in batch[w]
            BY <2>3 DEF RelayInv, TypeOK
        <3>2. Recorded(x) /\ ~Recorded(x)'
            BY <1>1, <2>3, <3>1, DropStep, OnlyOneSends DEF Recorded
        <3> QED
            BY <2>1, <2>2, <2>3, <3>2
    <2>4. CASE x \notin sent[w]
        <3>1. Recorded(x)' <=> Recorded(x)
            BY <1>1, <2>4, DropStep DEF Recorded
        <3> QED
            BY <2>1, <2>2, <2>4, <3>1
    <2> QED
        BY <2>3, <2>4
<1>8. UNCHANGED promised
    BY <1>1 DEF promised, Committed, Delivered, CrossedOff, Times, HasChannel
<1> QED
    BY <1>1, <1>4, <1>5, <1>6, <1>7, <1>8, DropStep, KeptCases DEF RelayInv

(* Every step of the relay keeps its invariant and the promise.            *)
LEMMA RelayStep ==
    ASSUME RelayInv, [Next]_vars
    PROVE  RelayInv' /\ Kept
BY IdleStep, TransactionStep, TakeBatchStep, PublishStep, PublishFailsStep, CommitBatchStep,
   CrashStep DEF Next

LEMMA RelayInit ==
    ASSUME Init
    PROVE  RelayInv /\ Promise!Init
<1>1. /\ state = [e \in Events |-> "new"] /\ kind \in StartKinds
      /\ published = [e \in Events |-> FALSE] /\ attempts = [e \in Events |-> 0]
      /\ channel = <<>> /\ batch = [w \in Workers |-> {}] /\ sent = [w \in Workers |-> {}]
      /\ failed = [w \in Workers |-> {}] /\ repeats = [e \in Events |-> 0] /\ failures = 0
    BY DEF Init
<1>2. channel \in Seq(Events) /\ DOMAIN channel = {}
    BY <1>1, EmptySeq, LenProperties
<1>3. Cardinality({}) = 0 /\ 0 <= BatchSize /\ 0 \in 0..MaxFailures
    BY FS_EmptySet, RelayConstants
<1>4. TypeOK
    BY <1>1, <1>2, <1>3, KindConstants DEF TypeOK
<1>5. Taken /\ Disjoint /\ Routed
    BY <1>1, <1>2 DEF Taken, Disjoint, Routed
<1>6. \A e \in Events : Times(e) = 0 /\ ~Recorded(e)
    <2> SUFFICES ASSUME NEW e \in Events PROVE Times(e) = 0 /\ ~Recorded(e)
        OBVIOUS
    <2>1. {i \in DOMAIN channel : channel[i] = e} = {}
        BY <1>2
    <2>2. Times(e) = 0
        BY <1>3, <2>1 DEF Times
    <2> QED
        BY <1>1, <2>2 DEF Recorded
<1>7. BroadcastsAccounted
    BY <1>1, <1>6 DEF BroadcastsAccounted
<1>8. Promise!Init
    BY <1>1, <1>6 DEF Promise!Init
<1> QED
    BY <1>4, <1>5, <1>7, <1>8 DEF RelayInv

-----------------------------------------------------------------------------

(* What the snapshot shows of what had been broadcast when it was begun.   *)
SnapshotCovers ==
    \A c \in Clients : \A i \in DOMAIN channel :
        /\ conn[c] = "order" /\ i <= snapAt[c] /\ kind[channel[i]] = "order"
               => channel[i] \in snap[c]
        /\ conn[c] \in {"delivery", "live"} /\ i <= snapAt[c] => channel[i] \in snap[c]

(* What the subscription has brought since it took effect.                 *)
SubscriptionCovers ==
    \A c \in Clients : conn[c] = "live" =>
        \A i \in DOMAIN channel :
            i > from[c] => channel[i] \in ToSet(got[c]) \cup ToSet(inbox[c])

TrackingInv == RelayInv /\ TrackingTypeOK /\ SnapshotCovers /\ SubscriptionCovers

-----------------------------------------------------------------------------
(* Sequences of events.                                                    *)

LEMMA ToSetConcat ==
    ASSUME NEW s \in Seq(Events), NEW t \in Seq(Events)
    PROVE  ToSet(s \o t) = ToSet(s) \cup ToSet(t)
<1>1. Range(s \o t) = Range(s) \cup Range(t)
    BY RangeConcatenation
<1> QED
    BY <1>1 DEF ToSet, Range

LEMMA ToSetAppend ==
    ASSUME NEW s \in Seq(Events), NEW e \in Events
    PROVE  Append(s, e) \in Seq(Events) /\ ToSet(Append(s, e)) = ToSet(s) \cup {e}
<1> DEFINE t == Append(s, e)
<1>1. /\ t \in Seq(Events) /\ Len(t) = Len(s) + 1 /\ t[Len(s) + 1] = e
      /\ \A i \in 1..Len(s) : t[i] = s[i]
    BY AppendProperties
<1>2. DOMAIN s = 1..Len(s) /\ DOMAIN t = 1..Len(t) /\ Len(s) \in Nat
    BY <1>1, LenProperties
<1> HIDE DEF t
<1>3. DOMAIN t = DOMAIN s \cup {Len(s) + 1} /\ \A i \in DOMAIN s : t[i] = s[i]
    BY <1>1, <1>2
<1>4. ToSet(t) = ToSet(s) \cup {e}
    BY <1>1, <1>3 DEF ToSet
<1> QED
    BY <1>1, <1>4 DEF t

LEMMA OneOf ==
    ASSUME NEW s, NEW n \in Int, s[n] \in Events
    PROVE  /\ SubSeq(s, n, n) \in Seq(Events) /\ Len(SubSeq(s, n, n)) = 1
           /\ SubSeq(s, n, n)[1] = s[n]
<1>1. \A i \in n..n : s[i] \in Events
    OBVIOUS
<1>2. /\ SubSeq(s, n, n) \in Seq(Events)
      /\ Len(SubSeq(s, n, n)) = IF n <= n THEN n - n + 1 ELSE 0
      /\ \A i \in 1..n - n + 1 : SubSeq(s, n, n)[i] = s[n + i - 1]
    BY <1>1, SubSeqProperties
<1>3. n <= n /\ n - n + 1 = 1 /\ n + 1 - 1 = n
    OBVIOUS
<1> QED
    BY <1>2, <1>3

LEMMA ToSetHeadTail ==
    ASSUME NEW s \in Seq(Events), s # <<>>
    PROVE  /\ Head(s) \in Events /\ Tail(s) \in Seq(Events)
           /\ ToSet(s) \subseteq {Head(s)} \cup ToSet(Tail(s))
<1>1. /\ Head(s) \in Events /\ Tail(s) \in Seq(Events) /\ Len(Tail(s)) = Len(s) - 1
      /\ \A i \in 1..Len(Tail(s)) : Tail(s)[i] = s[i + 1]
    BY HeadTailProperties
<1>2. DOMAIN s = 1..Len(s) /\ DOMAIN Tail(s) = 1..Len(Tail(s)) /\ Len(s) \in Nat
    BY <1>1, LenProperties
<1>3. ASSUME NEW i \in DOMAIN s PROVE s[i] \in {Head(s)} \cup ToSet(Tail(s))
    <2>1. CASE i = 1
        BY <2>1
    <2>2. CASE i # 1
        <3>1. i - 1 \in 1..Len(Tail(s))
            BY <1>1, <1>2, <2>2
        <3>2. Tail(s)[i - 1] = s[i]
            BY <1>1, <1>2, <3>1
        <3> QED
            BY <1>2, <3>1, <3>2 DEF ToSet
    <2> QED
        BY <2>1, <2>2
<1> QED
    BY <1>1, <1>3 DEF ToSet

(* A step of the relay adds one event to the channel at most, which is all *)
(* the news there is.                                                      *)
LEMMA ChannelGrows ==
    ASSUME RelayInv, Next
    PROVE  /\ kind' = kind
           /\ channel' = channel \/ \E e \in Events : channel' = Append(channel, e)
<1>1. kind' = kind
    BY DEF Next, Begin, Commit, TakeBatch, Publish, PublishFails, CommitBatch, Crash, outbox
<1>2. ASSUME NEW w \in Workers, Publish(w) \/ PublishFails(w)
      PROVE  channel' = channel \/ \E e \in Events : channel' = Append(channel, e)
    <2>1. NextEvent(w) \in Events
        BY <1>2, NextIsDue DEF RelayInv, Publish, PublishFails
    <2>2. channel' = channel \/ channel' = Append(channel, NextEvent(w))
        BY <1>2 DEF Publish, PublishFails, Broadcast
    <2> QED
        BY <2>1, <2>2
<1>3. ASSUME NEW w \in Workers, TakeBatch(w) \/ CommitBatch(w) \/ Crash(w)
      PROVE  channel' = channel
    BY <1>3 DEF TakeBatch, CommitBatch, Crash
<1>4. ASSUME NEW e \in Events, Begin(e) \/ Commit(e) PROVE channel' = channel
    BY <1>4 DEF Begin, Commit
<1> QED
    BY <1>1, <1>2, <1>3, <1>4 DEF Next

LEMMA NewsIs ==
    ASSUME RelayInv, Next
    PROVE  /\ News \in Seq(Events)
           /\ \A i \in DOMAIN channel :
                 i \in DOMAIN channel' /\ channel'[i] = channel[i]
           /\ \A i \in DOMAIN channel' : i \notin DOMAIN channel => channel'[i] \in ToSet(News)
           /\ Len(channel) <= Len(channel')
<1>1. channel \in Seq(Events) /\ Len(channel) \in Nat /\ DOMAIN channel = 1..Len(channel)
    BY LenProperties DEF RelayInv, TypeOK
<1>2. CASE channel' = channel
    <2>1. News = <<>>
        BY <1>1, <1>2, SubSeqEmpty DEF News
    <2> QED
        BY <1>1, <1>2, <2>1, EmptySeq
<1>3. ASSUME NEW e \in Events, channel' = Append(channel, e)
      PROVE  /\ News \in Seq(Events)
             /\ \A i \in DOMAIN channel :
                   i \in DOMAIN channel' /\ channel'[i] = channel[i]
             /\ \A i \in DOMAIN channel' : i \notin DOMAIN channel => channel'[i] \in ToSet(News)
             /\ Len(channel) <= Len(channel')
    <2> DEFINE n == Len(channel) + 1
    <2>1. /\ channel' \in Seq(Events) /\ Len(channel') = n
          /\ channel'[n] = e /\ \A i \in 1..Len(channel) : channel'[i] = channel[i]
        BY <1>1, <1>3, AppendProperties
    <2>2. DOMAIN channel' = 1..n
        BY <2>1, LenProperties
    <2>3. n \in Int /\ channel'[n] \in Events
        BY <1>1, <2>1
    <2>4. News = SubSeq(channel', n, n)
        BY <2>1 DEF News
    <2> HIDE DEF n
    <2>5. News \in Seq(Events) /\ Len(News) = 1 /\ News[1] = channel'[n]
        BY <2>3, <2>4, OneOf
    <2>6. e \in ToSet(News)
        BY <2>1, <2>5, LenProperties DEF ToSet
    <2>7. \A i \in 1..n : i \notin 1..Len(channel) => i = n
        BY <1>1 DEF n
    <2>8. 1..Len(channel) \subseteq 1..n /\ Len(channel) <= n
        BY <1>1 DEF n
    <2> QED
        BY <1>1, <2>1, <2>2, <2>5, <2>6, <2>7, <2>8
<1> QED
    BY <1>2, <1>3, ChannelGrows

-----------------------------------------------------------------------------
(* The steps.                                                              *)

LEMMA RelayMoves ==
    ASSUME TrackingInv, Next, Pushed
    PROVE  TrackingInv'
<1>1. RelayInv'
    BY RelayStep DEF TrackingInv
<1>2. /\ inbox' = [c \in Clients |-> IF Listening(c) THEN inbox[c] \o News ELSE inbox[c]]
      /\ UNCHANGED <<conn, snap, snapAt, from, got>>
    BY DEF Pushed
<1>3. /\ News \in Seq(Events) /\ Len(channel) <= Len(channel') /\ kind' = kind
      /\ \A i \in DOMAIN channel : i \in DOMAIN channel' /\ channel'[i] = channel[i]
      /\ \A i \in DOMAIN channel' : i \notin DOMAIN channel => channel'[i] \in ToSet(News)
    BY NewsIs, ChannelGrows DEF TrackingInv
<1>4. /\ inbox \in [Clients -> Seq(Events)] /\ got \in [Clients -> Seq(Events)]
      /\ \A c \in Clients : snapAt[c] \in Nat /\ from[c] \in Nat
           /\ snapAt[c] <= Len(channel) /\ from[c] <= Len(channel)
           /\ (conn[c] # "live" => inbox[c] = <<>>)
    BY DEF TrackingInv, TrackingTypeOK
<1>5. Len(channel) \in Nat /\ Len(channel') \in Nat /\ DOMAIN channel = 1..Len(channel)
      /\ DOMAIN channel' = 1..Len(channel')
    BY <1>1, LenProperties DEF TrackingInv, RelayInv, TypeOK
<1>6. \A c \in Clients :
          /\ conn[c] = "live" =>
                inbox'[c] = inbox[c] \o News /\ ToSet(inbox'[c]) = ToSet(inbox[c]) \cup ToSet(News)
          /\ conn[c] # "live" => inbox'[c] = inbox[c]
    BY <1>2, <1>3, <1>4, ToSetConcat DEF Listening
<1>7. inbox' \in [Clients -> Seq(Events)]
    <2>1. \A c \in Clients : inbox[c] \in Seq(Events) /\ inbox[c] \o News \in Seq(Events)
        BY <1>3, <1>4, ConcatProperties
    <2> QED
        BY <1>2, <2>1
<1>8. TrackingTypeOK'
    <2>1. TypeOK'
        BY <1>1 DEF RelayInv
    <2>2. \A c \in Clients :
              snapAt[c] <= Len(channel') /\ from[c] <= Len(channel')
        BY <1>3, <1>4, <1>5
    <2> QED
        BY <1>2, <1>4, <1>6, <1>7, <2>1, <2>2 DEF TrackingInv, TrackingTypeOK
<1>9. SnapshotCovers'
    <2> SUFFICES ASSUME NEW c \in Clients, NEW i \in DOMAIN channel', i <= snapAt[c]
                 PROVE  /\ conn[c] = "order" /\ kind[channel'[i]] = "order"
                              => channel'[i] \in snap[c]
                        /\ conn[c] \in {"delivery", "live"} => channel'[i] \in snap[c]
        BY <1>2, <1>3 DEF SnapshotCovers
    <2>1. i \in DOMAIN channel
        BY <1>4, <1>5
    <2> QED
        BY <1>3, <2>1 DEF TrackingInv, SnapshotCovers
<1>10. SubscriptionCovers'
    <2> SUFFICES ASSUME NEW c \in Clients, conn[c] = "live", NEW i \in DOMAIN channel', i > from[c]
                 PROVE  channel'[i] \in ToSet(got[c]) \cup ToSet(inbox'[c])
        BY <1>2 DEF SubscriptionCovers
    <2>1. CASE i \in DOMAIN channel
        BY <1>3, <1>6, <2>1 DEF TrackingInv, SubscriptionCovers
    <2>2. CASE i \notin DOMAIN channel
        BY <1>3, <1>6, <2>2
    <2> QED
        BY <2>1, <2>2
<1> QED
    BY <1>1, <1>8, <1>9, <1>10 DEF TrackingInv

LEMMA RelayRests ==
    ASSUME RelayInv, UNCHANGED vars
    PROVE  RelayInv' /\ TypeOK' /\ kind' = kind /\ channel' = channel /\ state' = state
BY IdleStep DEF vars, outbox, RelayInv

(* A client's own step, c's; the others keep all they have.                *)
OthersKeep(c) ==
    \A x \in Clients \ {c} :
        /\ conn'[x] = conn[x] /\ snap'[x] = snap[x] /\ snapAt'[x] = snapAt[x]
        /\ from'[x] = from[x] /\ inbox'[x] = inbox[x] /\ got'[x] = got[x]

LEMMA ClientMoves ==
    ASSUME TrackingInv, UNCHANGED vars, NEW c \in Clients, OthersKeep(c), TrackingTypeOK',
           conn'[c] \in {"off", "order", "delivery", "live", "deaf"},
           \A i \in DOMAIN channel :
              /\ conn'[c] = "order" /\ i <= snapAt'[c] /\ kind[channel[i]] = "order"
                     => channel[i] \in snap'[c]
              /\ conn'[c] \in {"delivery", "live"} /\ i <= snapAt'[c] => channel[i] \in snap'[c]
              /\ conn'[c] = "live" /\ i > from'[c]
                     => channel[i] \in ToSet(got'[c]) \cup ToSet(inbox'[c])
    PROVE  TrackingInv'
<1>1. RelayInv' /\ kind' = kind /\ channel' = channel
    BY RelayRests DEF TrackingInv
<1>2. SnapshotCovers'
    BY <1>1 DEF TrackingInv, SnapshotCovers, OthersKeep
<1>3. SubscriptionCovers'
    BY <1>1 DEF TrackingInv, SubscriptionCovers, OthersKeep
<1> QED
    BY <1>1, <1>2, <1>3 DEF TrackingInv

LEMMA ConnectStep ==
    ASSUME TrackingInv, NEW c \in Clients, Connect(c)
    PROVE  TrackingInv'
<1>1. /\ UNCHANGED vars /\ conn[c] = "off" /\ UNCHANGED <<from, inbox, got>>
      /\ conn' = [conn EXCEPT ![c] = "order"]
      /\ snap' = [snap EXCEPT ![c] = Read("order")]
      /\ snapAt' = [snapAt EXCEPT ![c] = Len(channel)]
    BY DEF Connect
<1>2. TypeOK' /\ channel' = channel /\ Len(channel) \in Nat
    BY <1>1, RelayRests, LenProperties DEF TrackingInv, RelayInv, TypeOK
<1>3. Read("order") \in SUBSET Events
    BY DEF Read, Visible
<1>4. /\ conn' \in [Clients -> {"off", "order", "delivery", "live", "deaf"}]
      /\ conn'[c] = "order" /\ snap'[c] = Read("order") /\ snapAt'[c] = Len(channel)
      /\ snap' \in [Clients -> SUBSET Events] /\ snapAt' \in [Clients -> Nat]
      /\ OthersKeep(c)
    BY <1>1, <1>2, <1>3 DEF TrackingInv, TrackingTypeOK, OthersKeep
<1>5. TrackingTypeOK'
    BY <1>1, <1>2, <1>4 DEF TrackingInv, TrackingTypeOK, OthersKeep
<1>6. ASSUME NEW i \in DOMAIN channel, kind[channel[i]] = "order"
      PROVE  channel[i] \in Read("order")
    <2>1. channel[i] \in Events
        BY ElementOfSeq, LenProperties DEF TrackingInv, RelayInv, TypeOK
    <2>2. state[channel[i]] = "committed"
        BY DEF TrackingInv, RelayInv, Routed
    <2> QED
        BY <1>6, <2>1, <2>2 DEF Read, Visible
<1> QED
    BY <1>1, <1>4, <1>5, <1>6, ClientMoves

LEMMA ReadDeliveryStep ==
    ASSUME TrackingInv, NEW c \in Clients, ReadDelivery(c)
    PROVE  TrackingInv'
<1>1. /\ UNCHANGED vars /\ conn[c] = "order" /\ UNCHANGED <<snapAt, from, inbox, got>>
      /\ conn' = [conn EXCEPT ![c] = "delivery"]
      /\ snap' = [snap EXCEPT ![c] = @ \cup Read("delivery")]
    BY DEF ReadDelivery
<1>2. TypeOK' /\ channel' = channel
    BY <1>1, RelayRests DEF TrackingInv
<1>3. Read("delivery") \in SUBSET Events
    BY DEF Read, Visible
<1>4. /\ conn' \in [Clients -> {"off", "order", "delivery", "live", "deaf"}]
      /\ conn'[c] = "delivery" /\ snap'[c] = snap[c] \cup Read("delivery")
      /\ snap' \in [Clients -> SUBSET Events] /\ snapAt'[c] = snapAt[c]
      /\ OthersKeep(c)
    BY <1>1, <1>3 DEF TrackingInv, TrackingTypeOK, OthersKeep
<1>5. TrackingTypeOK'
    BY <1>1, <1>2, <1>4 DEF TrackingInv, TrackingTypeOK, OthersKeep
<1>6. ASSUME NEW i \in DOMAIN channel, i <= snapAt[c]
      PROVE  channel[i] \in snap'[c]
    <2>1. channel[i] \in Events
        BY ElementOfSeq, LenProperties DEF TrackingInv, RelayInv, TypeOK
    <2>2. state[channel[i]] = "committed"
        BY DEF TrackingInv, RelayInv, Routed
    <2>3. CASE kind[channel[i]] = "order"
        BY <1>1, <1>4, <1>6, <2>3 DEF TrackingInv, SnapshotCovers
    <2>4. CASE kind[channel[i]] # "order"
        BY <1>4, <2>1, <2>2, <2>4 DEF Read, Visible
    <2> QED
        BY <2>3, <2>4
<1> QED
    BY <1>1, <1>4, <1>5, <1>6, ClientMoves

LEMMA SubscribeStep ==
    ASSUME TrackingInv, NEW c \in Clients, Subscribe(c)
    PROVE  TrackingInv'
<1>1. /\ UNCHANGED vars /\ conn[c] = "delivery" /\ UNCHANGED <<snap, snapAt, inbox, got>>
      /\ conn' = [conn EXCEPT ![c] = "live"]
      /\ from' = [from EXCEPT ![c] = Len(channel)]
    BY DEF Subscribe
<1>2. TypeOK' /\ channel' = channel /\ Len(channel) \in Nat /\ DOMAIN channel = 1..Len(channel)
    BY <1>1, RelayRests, LenProperties DEF TrackingInv, RelayInv, TypeOK
<1>3. /\ conn' \in [Clients -> {"off", "order", "delivery", "live", "deaf"}]
      /\ conn'[c] = "live" /\ from'[c] = Len(channel) /\ from' \in [Clients -> Nat]
      /\ OthersKeep(c)
    BY <1>1, <1>2 DEF TrackingInv, TrackingTypeOK, OthersKeep
<1>4. TrackingTypeOK'
    BY <1>1, <1>2, <1>3 DEF TrackingInv, TrackingTypeOK, OthersKeep
<1>5. \A i \in DOMAIN channel : ~(i > from'[c]) /\ (i <= snapAt'[c] => channel[i] \in snap'[c])
    BY <1>1, <1>2, <1>3 DEF TrackingInv, SnapshotCovers
<1> QED
    BY <1>1, <1>3, <1>4, <1>5, ClientMoves

LEMMA ForwardStep ==
    ASSUME TrackingInv, NEW c \in Clients, Forward(c)
    PROVE  TrackingInv'
<1>1. /\ UNCHANGED vars /\ conn[c] = "live" /\ inbox[c] # <<>>
      /\ UNCHANGED <<conn, snap, snapAt, from>>
      /\ got' = [got EXCEPT ![c] = Append(@, Head(inbox[c]))]
      /\ inbox' = [inbox EXCEPT ![c] = Tail(@)]
    BY DEF Forward
<1>2. TypeOK' /\ channel' = channel
    BY <1>1, RelayRests DEF TrackingInv
<1>3. inbox[c] \in Seq(Events) /\ got[c] \in Seq(Events)
    BY DEF TrackingInv, TrackingTypeOK
<1>4. /\ Head(inbox[c]) \in Events /\ Tail(inbox[c]) \in Seq(Events)
      /\ ToSet(inbox[c]) \subseteq {Head(inbox[c])} \cup ToSet(Tail(inbox[c]))
    BY <1>1, <1>3, ToSetHeadTail
<1>5. /\ Append(got[c], Head(inbox[c])) \in Seq(Events)
      /\ ToSet(Append(got[c], Head(inbox[c]))) = ToSet(got[c]) \cup {Head(inbox[c])}
    BY <1>3, <1>4, ToSetAppend
<1>6. /\ got' \in [Clients -> Seq(Events)] /\ got'[c] = Append(got[c], Head(inbox[c]))
      /\ inbox' \in [Clients -> Seq(Events)] /\ inbox'[c] = Tail(inbox[c])
      /\ OthersKeep(c)
    BY <1>1, <1>4, <1>5 DEF TrackingInv, TrackingTypeOK, OthersKeep
<1>7. TrackingTypeOK'
    BY <1>1, <1>2, <1>6 DEF TrackingInv, TrackingTypeOK, OthersKeep
<1>8. ToSet(got[c]) \cup ToSet(inbox[c]) \subseteq ToSet(got'[c]) \cup ToSet(inbox'[c])
    BY <1>4, <1>5, <1>6
<1>9. \A i \in DOMAIN channel :
          /\ i <= snapAt'[c] => channel[i] \in snap'[c]
          /\ i > from'[c] => channel[i] \in ToSet(got'[c]) \cup ToSet(inbox'[c])
    BY <1>1, <1>8 DEF TrackingInv, SnapshotCovers, SubscriptionCovers
<1>10. conn'[c] = "live"
    BY <1>1
<1> QED
    BY <1>1, <1>6, <1>7, <1>9, <1>10, ClientMoves

LEMMA LeaveStep ==
    ASSUME TrackingInv, NEW c \in Clients, ForwarderFails(c) \/ Disconnect(c)
    PROVE  TrackingInv'
<1>1. UNCHANGED vars /\ Forget(c) /\ \E now \in {"off", "deaf"} : conn' = [conn EXCEPT ![c] = now]
    BY DEF ForwarderFails, Disconnect
<1>2. TypeOK' /\ channel' = channel /\ Len(channel) \in Nat
    BY <1>1, RelayRests, LenProperties DEF TrackingInv, RelayInv, TypeOK
<1>3. /\ conn' \in [Clients -> {"off", "order", "delivery", "live", "deaf"}]
      /\ conn'[c] \in {"off", "deaf"}
      /\ snap' \in [Clients -> SUBSET Events]
      /\ snapAt' \in [Clients -> Nat] /\ snapAt'[c] = 0
      /\ from' \in [Clients -> Nat] /\ from'[c] = 0
      /\ OthersKeep(c)
    BY <1>1 DEF Forget, TrackingInv, TrackingTypeOK, OthersKeep
<1>4. /\ inbox' \in [Clients -> Seq(Events)] /\ inbox'[c] = <<>>
      /\ got' \in [Clients -> Seq(Events)]
    BY <1>1, EmptySeq DEF Forget, TrackingInv, TrackingTypeOK
<1>5. TrackingTypeOK'
    <2>1. ASSUME NEW x \in Clients
          PROVE  /\ snapAt'[x] <= Len(channel) /\ from'[x] <= Len(channel)
                 /\ conn'[x] # "live" => inbox'[x] = <<>>
        <3>1. CASE x = c
            BY <1>2, <1>3, <1>4, <3>1
        <3>2. CASE x # c
            BY <1>3, <3>2 DEF TrackingInv, TrackingTypeOK, OthersKeep
        <3> QED
            BY <3>1, <3>2
    <2> QED
        BY <1>2, <1>3, <1>4, <2>1 DEF TrackingTypeOK
<1> QED
    BY <1>1, <1>3, <1>5, ClientMoves

LEMMA ClientsRest ==
    ASSUME TrackingInv, UNCHANGED allVars
    PROVE  TrackingInv'
<1>1. UNCHANGED vars /\ UNCHANGED <<conn, snap, snapAt, from, inbox, got>>
    BY DEF allVars, tracking
<1>2. RelayInv' /\ TypeOK' /\ kind' = kind /\ channel' = channel
    BY <1>1, RelayRests DEF TrackingInv
<1>3. TrackingTypeOK'
    BY <1>1, <1>2 DEF TrackingInv, TrackingTypeOK
<1>4. SnapshotCovers' /\ SubscriptionCovers'
    BY <1>1, <1>2 DEF TrackingInv, SnapshotCovers, SubscriptionCovers
<1> QED
    BY <1>2, <1>3, <1>4 DEF TrackingInv

LEMMA Inductive == TrackingInv /\ [TrackingNext]_allVars => TrackingInv'
<1> SUFFICES ASSUME TrackingInv, [TrackingNext]_allVars PROVE TrackingInv'
    OBVIOUS
<1>1. CASE Next /\ Pushed
    BY <1>1, RelayMoves
<1>2. ASSUME NEW c \in Clients,
             \/ Connect(c) \/ ReadDelivery(c) \/ Subscribe(c)
             \/ Forward(c) \/ ForwarderFails(c) \/ Disconnect(c)
      PROVE  TrackingInv'
    BY <1>2, ConnectStep, ReadDeliveryStep, SubscribeStep, ForwardStep, LeaveStep
<1>3. CASE UNCHANGED allVars
    BY <1>3, ClientsRest
<1> QED
    BY <1>1, <1>2, <1>3 DEF TrackingNext

LEMMA Beginning == TrackingInit => TrackingInv /\ Promise!Init
<1> SUFFICES ASSUME TrackingInit PROVE TrackingInv /\ Promise!Init
    OBVIOUS
<1>1. Init /\ channel = <<>>
    BY DEF TrackingInit, Init
<1>2. RelayInv /\ Promise!Init
    BY <1>1, RelayInit
<1>3. Len(channel) = 0 /\ DOMAIN channel = {}
    BY <1>1, EmptySeq, LenProperties
<1>4. inbox \in [Clients -> Seq(Events)] /\ got \in [Clients -> Seq(Events)]
    BY EmptySeq DEF TrackingInit
<1>5. TrackingTypeOK
    BY <1>2, <1>3, <1>4 DEF TrackingInit, RelayInv, TrackingTypeOK
<1>6. SnapshotCovers /\ SubscriptionCovers
    BY <1>3 DEF SnapshotCovers, SubscriptionCovers
<1> QED
    BY <1>2, <1>5, <1>6 DEF TrackingInv

LEMMA Invariance == TrackingSpec => []TrackingInv
<1>1. TrackingInit => TrackingInv
    BY Beginning
<1> QED
    BY <1>1, Inductive, PTL DEF TrackingSpec

(* Every step of the composition is one the outbox promises.               *)
LEMMA PromiseStep == TrackingInv /\ [TrackingNext]_allVars => Kept
<1> SUFFICES ASSUME TrackingInv, [TrackingNext]_allVars PROVE Kept
    OBVIOUS
<1>1. [Next]_vars
    BY DEF TrackingNext, allVars, Connect, ReadDelivery, Subscribe, Forward, ForwarderFails,
           Disconnect
<1> QED
    BY <1>1, RelayStep DEF TrackingInv

-----------------------------------------------------------------------------

(* Events, batches and connections stay well typed, and a worker takes no  *)
(* more than a batch (process_outbox_batch, order_live_tracking_ws).       *)
THEOREM TypeCorrect == TrackingSpec => []TrackingTypeOK
<1>1. TrackingInv => TrackingTypeOK
    BY DEF TrackingInv
<1> QED
    BY <1>1, Invariance, PTL

(* Workers side by side do not repeat each other's broadcasts              *)
(* (process_outbox_batch): only crashes and failures do.                   *)
THEOREM BroadcastsAccountedHolds == TrackingSpec => []BroadcastsAccounted
<1>1. TrackingInv => BroadcastsAccounted
    BY DEF TrackingInv, RelayInv
<1> QED
    BY <1>1, Invariance, PTL

(* The relay implements the promise of the outbox (ADR 0009) for the       *)
(* events it has a channel for: nothing uncommitted is delivered, nothing  *)
(* undelivered is crossed off.                                             *)
THEOREM RoutedEventsAtLeastOnceHolds == TrackingSpec => RoutedEventsAtLeastOnce
<1>1. TrackingInit => Promise!Init
    BY Beginning
<1>2. TrackingInv /\ [TrackingNext]_allVars
          => [Promise!Next]_<<Committed, Delivered, CrossedOff>>
    BY PromiseStep DEF Kept, promised
<1> QED
    BY <1>1, <1>2, Invariance, PTL
    DEF TrackingSpec, RoutedEventsAtLeastOnce, Promise!Spec, Committed, Delivered, CrossedOff

(* A client misses only what was broadcast between its snapshot and its    *)
(* subscription (order_live_tracking_ws).                                  *)
THEOREM OnlyTheGapIsMissedHolds == TrackingSpec => []OnlyTheGapIsMissed
<1>1. TrackingInv => OnlyTheGapIsMissed
    <2> SUFFICES ASSUME TrackingInv, NEW c \in Clients, conn[c] = "live", NEW i \in Missed(c)
                 PROVE  snapAt[c] < i /\ i <= from[c]
        BY DEF OnlyTheGapIsMissed
    <2>1. i \in DOMAIN channel /\ channel[i] \notin snap[c] \cup ToSet(got[c]) \cup ToSet(inbox[c])
        BY DEF Missed
    <2>2. ~(i <= snapAt[c]) /\ ~(i > from[c])
        BY <2>1 DEF TrackingInv, SnapshotCovers, SubscriptionCovers
    <2>3. i \in Nat /\ snapAt[c] \in Nat /\ from[c] \in Nat
        BY <2>1, LenProperties DEF TrackingInv, TrackingTypeOK, RelayInv, TypeOK
    <2> QED
        BY <2>2, <2>3
<1> QED
    BY <1>1, Invariance, PTL
====
