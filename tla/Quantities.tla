---- MODULE Quantities ----
(***************************************************************************)
(* Sums of quantities over a finite index set, written as the number of    *)
(* <<index, unit>> pairs a function stands for: the total of f is the      *)
(* number of units it holds. TLC counts the pairs, and the proofs reason   *)
(* about them with the cardinality theorems of the library, which need no  *)
(* induction. Quantities are in the smallest unit a Numeric(12,3) column   *)
(* can tell apart, so they are natural numbers.                            *)
(***************************************************************************)
EXTENDS Naturals, FiniteSets

Units(f, M) == {x \in (DOMAIN f) \X (1..M) : x[2] <= f[x[1]]}

Total(f, M) == Cardinality(Units(f, M))
====
