---- MODULE AtomicOrders ----
(***************************************************************************)
(* What a checkout promises about stock, whatever happens inside it: an    *)
(* order takes all of its lines at once or none of them, only what is      *)
(* available, and once.                                                    *)
(***************************************************************************)
EXTENDS Naturals

CONSTANTS Variants, Checkouts

VARIABLES
    available,  \* what can still be sold of each variant
    taken       \* what each checkout has taken of each variant

Nothing == [v \in Variants |-> 0]

Init ==
    /\ available \in [Variants -> Nat]
    /\ taken = [t \in Checkouts |-> Nothing]

Place(t) ==
    /\ taken[t] = Nothing
    /\ taken'[t] # Nothing
    /\ \A u \in Checkouts \ {t} : taken'[u] = taken[u]
    /\ \A v \in Variants :
        /\ taken'[t][v] <= available[v]
        /\ available'[v] = available[v] - taken'[t][v]

Next == \E t \in Checkouts : Place(t)

Spec == Init /\ [][Next]_<<available, taken>>
====
