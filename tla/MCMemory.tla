------------------------------- MODULE MCMemory -------------------------------
(* Two tasks of one user whose archives repeat an inferred habit and state  *)
(* an explicit preference.                                                  *)
EXTENDS Memory

CONSTANTS t1, t2, habit, preference, monthly, often, always

Item(category, name, statement, confidence, explicit) ==
  [category |-> category, name |-> name, statement |-> statement,
   confidence |-> confidence, explicit |-> explicit]

Inferred == Item(habit, monthly, often, 8, FALSE)
Explicit == Item(preference, monthly, always, 9, TRUE)

SmallAnalyses == {<<Inferred>>, <<Inferred, Explicit>>}

SmallEdits == {[category |-> preference, statement |-> always, confidence |-> Keep]}
==============================================================================
