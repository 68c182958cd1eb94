---- MODULE Gateway ----
(***************************************************************************)
(* Live tracking of one order (app/modules/orders/websocket.py) on top of  *)
(* the relay: a client gets a snapshot read from the database and then     *)
(* what its Redis subscription brings. Redis keeps nothing for those who   *)
(* are not subscribed.                                                     *)
(*                                                                         *)
(* The handler reads the order and then the delivery, two statements of a  *)
(* READ COMMITTED transaction, sends the snapshot and only then subscribes;*)
(* a task of its own forwards the messages. That task ends on any error    *)
(* without closing the socket, which leaves a client that hears nothing.   *)
(*                                                                         *)
(* The events are all of the tracked order, the ones without a channel     *)
(* included. A refused handshake changes nothing and is no step.           *)
(*                                                                         *)
(* PublishedOnly is a mutant of Read and used by nothing else.             *)
(***************************************************************************)
EXTENDS Relay, SequencesExt

CONSTANT Clients

VARIABLES
    conn,     \* "off", "order" and "delivery" read, "live", or "deaf"
    snap,     \* the events whose effect the client's snapshot shows
    snapAt,   \* how much the channel had carried when the order was read
    from,     \* and when the subscription took effect
    inbox,    \* messages Redis pushed that are not forwarded yet
    got       \* messages the client was sent

tracking == <<conn, snap, snapAt, from, inbox, got>>
allVars == <<vars, tracking>>

TrackingInit ==
    /\ Init
    /\ conn = [c \in Clients |-> "off"]
    /\ snap = [c \in Clients |-> {}]
    /\ snapAt = [c \in Clients |-> 0]
    /\ from = [c \in Clients |-> 0]
    /\ inbox = [c \in Clients |-> <<>>]
    /\ got = [c \in Clients |-> <<>>]

(* What a SELECT of the order (of the delivery) shows now.                 *)
Visible(about) == {e \in Events : state[e] = "committed" /\ (kind[e] = "order") = (about = "order")}

PublishedOnly(about) == {e \in Visible(about) : published[e]}
Read(about) == Visible(about)

(* The relay's steps; Redis hands each publication to the subscribers.     *)
Listening(c) == conn[c] = "live"
News == SubSeq(channel', Len(channel) + 1, Len(channel'))
Pushed ==
    /\ inbox' = [c \in Clients |-> IF Listening(c) THEN inbox[c] \o News ELSE inbox[c]]
    /\ UNCHANGED <<conn, snap, snapAt, from, got>>

(* order_live_tracking_ws, to the read of the order.                       *)
Connect(c) ==
    /\ conn[c] = "off"
    /\ conn' = [conn EXCEPT ![c] = "order"]
    /\ snap' = [snap EXCEPT ![c] = Read("order")]
    /\ snapAt' = [snapAt EXCEPT ![c] = Len(channel)]
    /\ UNCHANGED <<vars, from, inbox, got>>

ReadDelivery(c) ==
    /\ conn[c] = "order"
    /\ conn' = [conn EXCEPT ![c] = "delivery"]
    /\ snap' = [snap EXCEPT ![c] = @ \cup Read("delivery")]
    /\ UNCHANGED <<vars, snapAt, from, inbox, got>>

(* The snapshot is sent, the channel is subscribed, the forwarder started. *)
Subscribe(c) ==
    /\ conn[c] = "delivery"
    /\ conn' = [conn EXCEPT ![c] = "live"]
    /\ from' = [from EXCEPT ![c] = Len(channel)]
    /\ UNCHANGED <<vars, snap, snapAt, inbox, got>>

(* _redis_forwarder.                                                       *)
Forward(c) ==
    /\ conn[c] = "live"
    /\ inbox[c] # <<>>
    /\ got' = [got EXCEPT ![c] = Append(@, Head(inbox[c]))]
    /\ inbox' = [inbox EXCEPT ![c] = Tail(@)]
    /\ UNCHANGED <<vars, conn, snap, snapAt, from>>

(* The connection is over for the properties: what is known of it goes.    *)
Forget(c) ==
    /\ snap' = [snap EXCEPT ![c] = {}]
    /\ snapAt' = [snapAt EXCEPT ![c] = 0]
    /\ from' = [from EXCEPT ![c] = 0]
    /\ inbox' = [inbox EXCEPT ![c] = <<>>]
    /\ got' = [got EXCEPT ![c] = <<>>]

(* Redis is lost, or a send fails: logged, and the forwarder is over.      *)
ForwarderFails(c) ==
    /\ conn[c] = "live"
    /\ conn' = [conn EXCEPT ![c] = "deaf"]
    /\ Forget(c)
    /\ UNCHANGED vars

(* The client leaves, or the handler fails; it may connect again.          *)
Disconnect(c) ==
    /\ conn[c] # "off"
    /\ conn' = [conn EXCEPT ![c] = "off"]
    /\ Forget(c)
    /\ UNCHANGED vars

TrackingNext ==
    \/ Next /\ Pushed
    \/ \E c \in Clients :
        \/ Connect(c) \/ ReadDelivery(c) \/ Subscribe(c)
        \/ Forward(c) \/ ForwarderFails(c) \/ Disconnect(c)

(* The workers go on; a forwarder that lives forwards. Clients need not    *)
(* connect, nor business transactions start or commit.                     *)
TrackingSpec ==
    /\ TrackingInit
    /\ [][TrackingNext]_allVars
    /\ \A w \in Workers : WF_allVars(Keeps(w) /\ Pushed)
    /\ \A c \in Clients : WF_allVars(Forward(c))

-----------------------------------------------------------------------------

TrackingTypeOK ==
    /\ TypeOK
    /\ conn \in [Clients -> {"off", "order", "delivery", "live", "deaf"}]
    /\ snap \in [Clients -> SUBSET Events]
    /\ snapAt \in [Clients -> Nat] /\ from \in [Clients -> Nat]
    /\ inbox \in [Clients -> Seq(Events)] /\ got \in [Clients -> Seq(Events)]
    /\ \A c \in Clients :
        /\ snapAt[c] <= Len(channel) /\ from[c] <= Len(channel)
        /\ conn[c] # "live" => inbox[c] = <<>>

(* The snapshot is read before the channel is subscribed, so a client can  *)
(* miss an event, but only one that was broadcast in that gap: what went   *)
(* out earlier is in the snapshot, because the relay broadcasts nothing    *)
(* uncommitted, and what goes out later is forwarded, in order.            *)
Missed(c) == {i \in DOMAIN channel :
                channel[i] \notin snap[c] \cup ToSet(got[c]) \cup ToSet(inbox[c])}
OnlyTheGapIsMissed ==
    \A c \in Clients : conn[c] = "live" =>
        \A i \in Missed(c) : snapAt[c] < i /\ i <= from[c]

(* A client that stays connected to a live forwarder is sent every event   *)
(* of the order that has a channel and was not broadcast before, whatever  *)
(* worker stops or publication fails.                                      *)
LiveClientsHear ==
    \A c \in Clients, e \in Events :
        conn[c] = "live" /\ state[e] = "committed" /\ HasChannel(e) /\ ~Recorded(e)
            ~> conn[c] # "live" \/ e \in ToSet(got[c])
====
