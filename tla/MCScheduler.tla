---------------------------- MODULE MCScheduler ----------------------------
(* Small plans for TLC: a, b and other produce, rv reviews. *)
EXTENDS Scheduler, TLC

CONSTANTS a, b, other, rv

Parallel == [n \in {a, b, rv} |-> IF n = rv THEN {a, b} ELSE {}]

Three ==
  [n \in {a, b, other, rv} |-> IF n = rv THEN {a, b, other} ELSE {}]

Single == [n \in {a, rv} |-> IF n = rv THEN {a} ELSE {}]

WorkerSymmetry == Permutations(Workers)

(* Three parallel producers are interchangeable, too. *)
Symmetry == WorkerSymmetry \cup Permutations(Producers)
=============================================================================
