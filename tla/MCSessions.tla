---- MODULE MCSessions ----
(* Four sessions, in one family or in several, and three requests: two     *)
(* reuses beside a rotation, or a reuse that rotations run away from.      *)
EXTENDS Sessions

CONSTANTS r1, r2, r3

MCRequests == {r1, r2, r3}
====
