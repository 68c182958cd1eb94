---- MODULE Relay ----
(***************************************************************************)
(* The transactional outbox and its relay (app/workers/outbox_relay.py):   *)
(* business transactions leave events in outbox_events, workers take them  *)
(* in batches with FOR UPDATE SKIP LOCKED, publish each to Redis and then  *)
(* commit published_at for the whole batch.                                *)
(*                                                                         *)
(* An event's occurred_at is the start of its transaction, so the events,  *)
(* numbered by occurred_at, become visible in any order. A publication is  *)
(* out at once, the batch's bookkeeping only at its commit, and a worker   *)
(* may stop in between (a crash, or Celery's time limit).                  *)
(*                                                                         *)
(* NoSkip, WholeBacklog and MarkBatch are mutants of the definitions they  *)
(* stand beside and used by nothing else.                                  *)
(*                                                                         *)
(* Left out: payloads, and the channel of the customer, which nobody reads;*)
(* its publication may still fail after the one to the order's channel.    *)
(***************************************************************************)
EXTENDS Naturals, Sequences, FiniteSets

CONSTANTS
    MaxEvents,   \* bound: number of events
    StartKinds,  \* what the events may be about
    Workers,
    BatchSize,
    MaxFailures  \* bound: crashes and publications that raise an exception

ASSUME RelayConstants ==
    MaxEvents \in Nat /\ BatchSize \in Nat \ {0} /\ MaxFailures \in Nat

VARIABLES
    state,      \* of an event's transaction: "new", "open" or "committed"
    kind,       \* what the event is about
    published,  \* published_at is set
    attempts,   \* outbox_events.attempts
    channel,    \* what was published to orders:{order_id}, in order
    batch,      \* the events each worker has locked
    sent,       \* those of the batch it has published
    failed,     \* those of the batch whose publication raised
    repeats,    \* broadcasts of each event that were not recorded
    failures    \* crashes and failed publications so far

outbox == <<state, kind, published, attempts>>
workers == <<batch, sent, failed>>
vars == <<outbox, channel, workers, repeats, failures>>

Events == 1..MaxEvents
Kinds == {"order", "delivery.scheduled", "delivery.progress"}

(* publish_outbox_event finds a channel for an order's events and for a    *)
(* delivery event whose payload names the order: of the delivery service's *)
(* five events, only delivery.scheduled does.                              *)
HasChannel(e) == kind[e] \in {"order", "delivery.scheduled"}

ASSUME KindConstants == StartKinds \subseteq [Events -> Kinds]

Init ==
    /\ state = [e \in Events |-> "new"]
    /\ kind \in StartKinds
    /\ published = [e \in Events |-> FALSE]
    /\ attempts = [e \in Events |-> 0]
    /\ channel = <<>>
    /\ batch = [w \in Workers |-> {}]
    /\ sent = [w \in Workers |-> {}]
    /\ failed = [w \in Workers |-> {}]
    /\ repeats = [e \in Events |-> 0]
    /\ failures = 0

(* A business transaction: its start stamps the event, its commit shows it.*)
Begin(e) ==
    /\ state[e] = "new"
    /\ \A f \in Events : f < e => state[f] # "new"
    /\ state' = [state EXCEPT ![e] = "open"]
    /\ UNCHANGED <<kind, published, attempts, channel, workers, repeats, failures>>

Commit(e) ==
    /\ state[e] = "open"
    /\ state' = [state EXCEPT ![e] = "committed"]
    /\ UNCHANGED <<kind, published, attempts, channel, workers, repeats, failures>>

-----------------------------------------------------------------------------
(* process_outbox_batch.                                                   *)

Locked == UNION {batch[w] : w \in Workers}
NoSkip == {e \in Events : state[e] = "committed" /\ ~published[e]}
Available == {e \in Events : state[e] = "committed" /\ ~published[e]} \ Locked

(* Events are numbered by occurred_at.                                     *)
WholeBacklog(S, n) == S
Oldest(S, n) == {e \in S : Cardinality({f \in S : f <= e}) <= n}

TakeBatch(w) ==
    /\ batch[w] = {}
    /\ Available # {}
    /\ batch' = [batch EXCEPT ![w] = Oldest(Available, BatchSize)]
    /\ UNCHANGED <<outbox, channel, sent, failed, repeats, failures>>

Due(w) == batch[w] \ (sent[w] \cup failed[w])
NextEvent(w) == CHOOSE e \in Due(w) : \A f \in Due(w) : e <= f

Broadcast(e) == channel' = IF HasChannel(e) THEN Append(channel, e) ELSE channel

Publish(w) ==
    /\ Due(w) # {}
    /\ Broadcast(NextEvent(w))
    /\ sent' = [sent EXCEPT ![w] = @ \cup {NextEvent(w)}]
    /\ UNCHANGED <<outbox, batch, failed, repeats, failures>>

(* Redis raises, before the order's channel was served or after it. The    *)
(* batch goes on.                                                          *)
PublishFails(w) ==
    LET e == NextEvent(w)
    IN  /\ Due(w) # {}
        /\ failures < MaxFailures
        /\ failures' = failures + 1
        /\ failed' = [failed EXCEPT ![w] = @ \cup {e}]
        /\ \/ UNCHANGED <<channel, repeats>>
           \/ /\ HasChannel(e)
              /\ Broadcast(e)
              /\ repeats' = [repeats EXCEPT ![e] = @ + 1]
        /\ UNCHANGED <<outbox, batch, sent>>

(* What the commit writes for the events of the batch.                     *)
MarkBatch(w) == batch[w]
MarkSent(w) == sent[w]

Drop(w) ==
    /\ batch' = [batch EXCEPT ![w] = {}]
    /\ sent' = [sent EXCEPT ![w] = {}]
    /\ failed' = [failed EXCEPT ![w] = {}]

CommitBatch(w) ==
    /\ batch[w] # {}
    /\ Due(w) = {}
    /\ published' = [e \in Events |-> published[e] \/ e \in MarkSent(w)]
    /\ attempts' = [e \in Events |-> attempts[e] + (IF e \in failed[w] THEN 1 ELSE 0)]
    /\ Drop(w)
    /\ UNCHANGED <<state, kind, channel, repeats, failures>>

Crash(w) ==
    /\ batch[w] # {}
    /\ failures < MaxFailures
    /\ failures' = failures + 1
    /\ repeats' = [e \in Events |->
                     repeats[e] + (IF e \in sent[w] /\ HasChannel(e) THEN 1 ELSE 0)]
    /\ Drop(w)
    /\ UNCHANGED <<outbox, channel>>

Next ==
    \/ \E e \in Events : Begin(e) \/ Commit(e)
    \/ \E w \in Workers :
        \/ TakeBatch(w) \/ Publish(w) \/ PublishFails(w) \/ CommitBatch(w) \/ Crash(w)

(* "Periodic Celery task" (celery_app.py): somebody starts the relay again *)
(* and again, which no code here does, and a batch that does not crash     *)
(* runs to its end.                                                        *)
Keeps(w) == TakeBatch(w) \/ Publish(w) \/ CommitBatch(w)

-----------------------------------------------------------------------------

TypeOK ==
    /\ state \in [Events -> {"new", "open", "committed"}]
    /\ kind \in [Events -> Kinds]
    /\ published \in [Events -> BOOLEAN]
    /\ attempts \in [Events -> Nat]
    /\ channel \in Seq(Events)
    /\ batch \in [Workers -> SUBSET Events]
    /\ sent \in [Workers -> SUBSET Events]
    /\ failed \in [Workers -> SUBSET Events]
    /\ \A w \in Workers :
        /\ Cardinality(batch[w]) <= BatchSize
        /\ sent[w] \cup failed[w] \subseteq batch[w]
        /\ sent[w] \cap failed[w] = {}
    /\ repeats \in [Events -> Nat]
    /\ failures \in 0..MaxFailures

(* Workers side by side do not repeat each other: an event is broadcast    *)
(* once for its published_at (or the batch about to set it), and beyond    *)
(* that only once for every crash or failure in between.                   *)
Times(e) == Cardinality({i \in DOMAIN channel : channel[i] = e})
Recorded(e) == published[e] \/ \E w \in Workers : e \in sent[w]
BroadcastsAccounted ==
    \A e \in Events :
        Times(e) = repeats[e] + (IF Recorded(e) /\ HasChannel(e) THEN 1 ELSE 0)

(* For the events that have a channel the relay keeps the promise of ADR   *)
(* 0009: nothing uncommitted goes out, nothing is crossed off unsent.      *)
Promise == INSTANCE AtLeastOnce WITH
    committed <- {e \in Events : state[e] = "committed" /\ HasChannel(e)},
    delivered <- {e \in Events : HasChannel(e) /\ Times(e) > 0},
    crossedOff <- {e \in Events : HasChannel(e) /\ published[e]}
RoutedEventsAtLeastOnce == Promise!Spec
====
