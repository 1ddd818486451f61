---------------------------- MODULE MCLifecycle ----------------------------
(* A task with the requests of its owner, or two tasks of one owner.       *)
EXTENDS Lifecycle, TLC

Symmetric == Permutations(Tasks) \cup Permutations(Requests)
=============================================================================
