------------------------------ MODULE MCMiniTot ------------------------------
(* A beam search of two levels, a depth-first search of three, and a       *)
(* critical review, with budgets that run out in the middle of a level.    *)
EXTENDS MiniTot

Request(mode, effort, purpose, stream) ==
  [mode |-> mode, effort |-> effort, purpose |-> purpose, thinking |-> FALSE, stream |-> stream]

Callers ==
  {Request("auto", "high", "planner", FALSE),
   Request("auto", "smart", "reviewer", FALSE),
   Request("auto", "high", "chat", TRUE),
   Request("auto", "smart", "worker", FALSE)}

Budgets == [fast |-> 1, medium |-> 3, high |-> 6, ultra |-> 6]
=============================================================================
