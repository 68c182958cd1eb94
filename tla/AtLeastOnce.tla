---- MODULE AtLeastOnce ----
(***************************************************************************)
(* What the outbox promises its readers (ADR 0009): only what was          *)
(* committed is delivered, possibly more than once, and an event is        *)
(* crossed off only after it was delivered.                                *)
(***************************************************************************)
CONSTANT Events

VARIABLES committed, delivered, crossedOff

Init == committed = {} /\ delivered = {} /\ crossedOff = {}

Commit(e) ==
    /\ e \notin committed
    /\ committed' = committed \cup {e}
    /\ UNCHANGED <<delivered, crossedOff>>

Deliver(e) ==
    /\ e \in committed \ crossedOff
    /\ delivered' = delivered \cup {e}
    /\ UNCHANGED <<committed, crossedOff>>

CrossOff(S) ==
    /\ S \subseteq delivered
    /\ crossedOff' = crossedOff \cup S
    /\ UNCHANGED <<committed, delivered>>

Next ==
    \/ \E e \in Events : Commit(e) \/ Deliver(e)
    \/ \E S \in SUBSET Events : CrossOff(S)

Spec == Init /\ [][Next]_<<committed, delivered, crossedOff>>
====
