------------------------------- MODULE Revision -------------------------------
(***************************************************************************)
(* What a task promises its owner about one revision: its nodes are worked *)
(* on in the order of the plan; it is delivered when all of them are done  *)
(* and reviewed, sent back a bounded number of times, given up only for a  *)
(* reason, canceled only on request, and not reopened once delivered.      *)
(* Nothing is said of workers, messages, scheduling passes or slots.       *)
(***************************************************************************)
EXTENDS Naturals

CONSTANTS
  Nodes, Reviewer, DependsOn,  \* the plan
  MaxReviewRetries             \* how often work may be sent back

VARIABLES
  outcome,   \* "open", "delivered", "failed" or "canceled"
  done,      \* the nodes whose last execution succeeded
  failed,    \* the nodes whose last execution failed
  reviewed,  \* the nodes whose present result the review starts from
  reworks,   \* how often work was sent back
  asked      \* the owner asked for a cancellation

vars == <<outcome, done, failed, reviewed, reworks, asked>>

Settled == done \cup failed

Init ==
  /\ outcome = "open" /\ asked = FALSE /\ reworks = 0
  /\ done = {} /\ failed = {} /\ reviewed = {}

\* A rework sends all that the reviewer reads back at once: producers do not wait for it.
Start(n) ==
  /\ n \notin Settled
  /\ \A d \in DependsOn[n] :
       d \in done \/ (reworks > 0 /\ n # Reviewer /\ d \in DependsOn[Reviewer])
  /\ reviewed' = IF n = Reviewer THEN done ELSE reviewed \ {n}
  /\ UNCHANGED <<outcome, done, failed, reworks, asked>>

Settle(n) ==
  /\ n \notin Settled
  /\ \/ done' = done \cup {n} /\ UNCHANGED failed
     \/ failed' = failed \cup {n} /\ UNCHANGED done
  /\ UNCHANGED <<outcome, reviewed, reworks, asked>>

\* Failed nodes are tried again, the review together with what it read.  The
\* task is given up while a failure stays or a cancellation is on its way.
TryAgain(again) ==
  /\ outcome # "delivered"
  /\ again \subseteq failed /\ failed' = failed \ again
  /\ IF Reviewer \in again
     THEN /\ reworks < MaxReviewRetries /\ reworks' = reworks + 1
          /\ done' = done \ DependsOn[Reviewer]
     ELSE UNCHANGED <<done, reworks>>
  /\ \/ UNCHANGED outcome
     \/ outcome = "open" /\ (asked \/ failed' # {}) /\ outcome' = "failed"
  /\ UNCHANGED <<reviewed, asked>>

Complete == outcome = "open" /\ done = Nodes

Deliver ==
  /\ Complete /\ Nodes \ {Reviewer} \subseteq reviewed
  /\ outcome' = "delivered"
  /\ UNCHANGED <<done, failed, reviewed, reworks, asked>>

\* Complete work is sent back once more, or refused for good.
SendBack(back) ==
  /\ Complete /\ reworks < MaxReviewRetries
  /\ done' = done \ (back \cup {Reviewer})
  /\ reworks' = reworks + 1
  /\ UNCHANGED <<outcome, failed, reviewed, asked>>

Refuse ==
  /\ Complete /\ reworks = MaxReviewRetries
  /\ outcome' = "failed"
  /\ UNCHANGED <<done, failed, reviewed, reworks, asked>>

Ask ==
  /\ outcome = "open"
  /\ asked' = TRUE
  /\ UNCHANGED <<outcome, done, failed, reviewed, reworks>>

\* What nobody can see finished is dropped; a delivery loses nothing.
Cancel ==
  /\ asked
  /\ outcome' \in {outcome, "canceled"}
  /\ done' \in SUBSET done /\ failed' \in SUBSET failed
  /\ outcome = "delivered" => UNCHANGED <<done, failed>>
  /\ UNCHANGED <<reviewed, reworks, asked>>

\* A node that ran on asked its owner, or the owner answered it.
Reopen ==
  /\ outcome \in {"failed", "canceled"}
  /\ Settled # Nodes
  /\ outcome' = "open"
  /\ UNCHANGED <<done, failed, reviewed, reworks, asked>>

Next ==
  \/ \E n \in Nodes : Start(n) \/ Settle(n)
  \/ \E again \in SUBSET failed : TryAgain(again)
  \/ \E back \in {{}, DependsOn[Reviewer]} : SendBack(back)
  \/ Deliver \/ Refuse \/ Ask \/ Cancel \/ Reopen

Spec == Init /\ [][Next]_vars
================================================================================
