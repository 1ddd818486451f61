-------------------------------- MODULE Replies --------------------------------
(***************************************************************************)
(* What a chat promises about the replies it stores: one is begun only     *)
(* when somebody has asked, its text grows chunk by chunk, it ends once,   *)
(* whole or as an error, and is never written again.  Nothing is promised  *)
(* about processes, transactions, notices or pages.                        *)
(***************************************************************************)
EXTENDS Integers, Sequences

CONSTANTS
  Requests,  \* what may be asked
  Drafts,    \* ids of replies
  Chunks     \* longest reply

VARIABLES
  asked,     \* the requests that are stored
  replies    \* the replies, by id

Reply(state, words) == [state |-> state, text |-> words]
None == Reply("ABSENT", <<>>)
Prefix(n) == [i \in 1..n |-> i]

Init ==
  /\ asked = {}
  /\ replies = [d \in Drafts |-> None]

Ask(c) ==
  /\ asked' = asked \cup {c}
  /\ UNCHANGED replies

Begin(d) ==
  /\ asked # {}
  /\ replies[d] = None
  /\ replies' = [replies EXCEPT ![d] = Reply("STREAMING", <<>>)]
  /\ UNCHANGED asked

\* n chunks of a reply are there; it never gets shorter.
Grow(d, n) ==
  /\ replies[d].state = "STREAMING"
  /\ Len(replies[d].text) <= n
  /\ replies' = [replies EXCEPT ![d] = Reply("STREAMING", Prefix(n))]
  /\ UNCHANGED asked

Complete(d, n) ==
  /\ replies[d].state = "STREAMING"
  /\ n > 0 /\ Len(replies[d].text) <= n
  /\ replies' = [replies EXCEPT ![d] = Reply("COMPLETED", Prefix(n))]
  /\ UNCHANGED asked

Fail(d) ==
  /\ replies[d].state = "STREAMING"
  /\ replies' = [replies EXCEPT ![d] = Reply("FAILED", <<0>>)]
  /\ UNCHANGED asked

Next ==
  \/ \E c \in Requests : Ask(c)
  \/ \E d \in Drafts :
       \/ Begin(d) \/ Fail(d)
       \/ \E n \in 0..Chunks : Grow(d, n) \/ Complete(d, n)

Spec == Init /\ [][Next]_<<asked, replies>>
================================================================================
