---- MODULE MCGateway ----
(* Three events of an order, two workers and batches of two: a full batch  *)
(* beside a partial one, an event committed behind a later one, a failure; *)
(* and one client.                                                         *)
EXTENDS Gateway

CONSTANTS w1, w2, c1

MCWorkers == {w1, w2}
MCClients == {c1}
MCKinds == {<<"order", "delivery.scheduled", "delivery.progress">>}
====
