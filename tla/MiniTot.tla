------------------------------- MODULE MiniTot -------------------------------
(***************************************************************************)
(* One call of the model gateway (mini_tot/gateway.py): the search through *)
(* branches of analysis under a budget of model calls, and the final call  *)
(* whose answer the caller gets.                                           *)
(*                                                                         *)
(* The caller's thread expands states one after the other; the analyses of *)
(* the directions it finds run in a pool of threads that share the budget. *)
(* A thought is the score its analysis gave itself: thoughts of one score  *)
(* differ in nothing the search looks at, so the order in which they       *)
(* complete, which decides ties, need not be kept.  Scores are counted in  *)
(* halves of a point (0..20), the unit of the code's thresholds.           *)
(***************************************************************************)
EXTENDS Integers, Sequences, FiniteSets

CONSTANTS
  Requests,     \* the calls callers make: mode, effort, purpose, thinking, stream
  Scores,       \* the scores an analysis may have
  MaxCallsOf,   \* max_reasoning_calls_fast, _medium, _high, _ultra
  MaxParallel,  \* max_reasoning_parallel_calls
  MaxRetries    \* minitot_max_retries

Efforts == {"fast", "medium", "high", "ultra"}
Modes == {"direct", "normal", "critical", "bfs", "dfs"}

Purposes == {"planner", "supervisor", "reviewer", "worker", "chat", "memory", "router", "general"}

ASSUME RequestsAreNormalized ==
  Requests \subseteq [mode : Modes \cup {"auto"}, effort : Efforts \cup {"smart"},
                     purpose : Purposes, thinking : BOOLEAN, stream : BOOLEAN]

ASSUME SettingsAreNaturals ==
  /\ MaxCallsOf \in [Efforts -> Nat]
  /\ MaxParallel \in Nat /\ MaxRetries \in Nat
  /\ Scores \subseteq 0..20

AtLeastOne(n) == IF n < 1 THEN 1 ELSE n
Least(a, b) == IF a < b THEN a ELSE b

-----------------------------------------------------------------------------
(* The tables of the efforts.  "smart" is resolved before they are used.   *)
CriticalCount == [fast |-> 2, medium |-> 3, high |-> 5, ultra |-> 5]
ExpandCount   == [fast |-> 2, medium |-> 2, high |-> 3, ultra |-> 4]
BeamDepth     == [fast |-> 1, medium |-> 1, high |-> 2, ultra |-> 3]
DfsDepth      == [fast |-> 1, medium |-> 1, high |-> 3, ultra |-> 4]
BeamWidth     == [fast |-> 1, medium |-> 2, high |-> 3, ultra |-> 4]
PruneBelow    == [fast |-> 10, medium |-> 10, high |-> 9, ultra |-> 8]
AcceptFrom    == [fast |-> 14, medium |-> 14, high |-> 16, ultra |-> 17]
QuestionScore == 10
MaxBranches == 16   \* BeamWidth * ExpandCount of the highest effort

(* What the adaptive preset may resolve to; for Agents and chats that      *)
(* depends on the text of the question.                                    *)
EffectiveEfforts(r) ==
  CASE r.effort # "smart" -> {r.effort}
    [] r.effort = "smart" /\ r.thinking -> {"high"}
    [] r.effort = "smart" /\ ~r.thinking ->
         IF r.purpose \in {"planner", "reviewer", "supervisor"}
           THEN {"medium"} ELSE {"fast", "medium", "high"}

ResolveMode(r, effort) ==
  CASE r.mode # "auto" -> r.mode
    [] r.mode = "auto" /\ effort = "fast" -> "direct"
    [] r.mode = "auto" /\ effort # "fast" ->
         CASE r.purpose = "planner" -> "bfs"
           [] r.purpose \in {"reviewer", "supervisor"} -> "critical"
           [] r.purpose \in {"worker", "chat"} ->
                IF effort \in {"high", "ultra"} THEN "dfs" ELSE "direct"
           [] OTHER -> "direct"

-----------------------------------------------------------------------------
VARIABLES
  call,        \* the arguments of the call after resolution
  step,        \* where the caller's thread is
  level,       \* depth of the search
  frontier,    \* the states of this level, best first (DFS: the one state)
  position,    \* the state of the frontier being expanded
  candidates,  \* how many directions the expansions of this level gave
  attempt,     \* POSTs made for the request of the caller's thread, 0: none
  branch,      \* the directions given to the pool, in the order of submission
  budget,      \* _ReasoningBudget: calls reserved and usage recorded
  reply,       \* what the caller has received: deltas and usage
  posted,      \* history: POSTs made
  answered     \* history: answers with a usage

vars == <<call, step, level, frontier, position, candidates, attempt, branch,
          budget, reply, posted, answered>>

NoCall == [mode |-> "direct", effort |-> "fast", stream |-> FALSE]
Submitted == [state |-> "submitted", attempt |-> 0, score |-> 0, result |-> FALSE]
Calling(k) == [state |-> "calling", attempt |-> k, score |-> 0, result |-> FALSE]
Analysed(s) == [state |-> "done", attempt |-> 0, score |-> s, result |-> TRUE]
(* Mutant of Dropped: a failed analysis is marked by a score below all others. *)
DroppedBelowAll == [state |-> "done", attempt |-> 0, score |-> 0 - 1, result |-> FALSE]
Dropped == [state |-> "done", attempt |-> 0, score |-> 0, result |-> FALSE]

Init ==
  /\ call = NoCall /\ step = "idle"
  /\ level = 0 /\ frontier = <<>> /\ position = 0 /\ candidates = 0 /\ attempt = 0
  /\ branch = <<>>
  /\ budget = [calls |-> 0, usage |-> 0]
  /\ reply = [deltas |-> FALSE, usage |-> 0]
  /\ posted = 0 /\ answered = 0

search == <<level, frontier, position, candidates, branch>>

MaxCalls == AtLeastOne(MaxCallsOf[call.effort])

(* Mutant of HasBudget: the last call is counted one too late. *)
HasBudgetForOneMore == budget.calls <= MaxCalls
HasBudget == budget.calls < MaxCalls

Reserved == [calls |-> budget.calls + 1, usage |-> budget.usage]
Recorded == [calls |-> budget.calls, usage |-> budget.usage + 1]

(* The final call, with the tools and the format the caller asked for. *)
StartAnswer ==
  /\ step' = "answering" /\ attempt' = 1 /\ posted' = posted + 1

StartLevel(f, l) ==
  /\ step' = "expanding"
  /\ frontier' = f /\ level' = l /\ position' = 1 /\ candidates' = 0
  /\ attempt' = 0 /\ branch' = <<>>

StartPool(n) ==
  /\ step' = "analysing"
  /\ branch' = [i \in 1..n |-> Submitted]
  /\ attempt' = 0

-----------------------------------------------------------------------------
(* chat, stream_chat *)
ChatDirect(r, effort) ==
  /\ step = "idle"
  /\ ResolveMode(r, effort) = "direct"
  /\ call' = [mode |-> "direct", effort |-> effort, stream |-> r.stream]
  /\ StartAnswer
  /\ UNCHANGED <<search, budget, reply, answered>>

ChatCritical(r, effort) ==
  /\ step = "idle"
  /\ ResolveMode(r, effort) = "critical"
  /\ call' = [mode |-> "critical", effort |-> effort, stream |-> r.stream]
  /\ StartPool(CriticalCount[effort])
  /\ UNCHANGED <<level, frontier, position, candidates, budget, reply, posted, answered>>

ChatSearch(r, effort) ==
  /\ step = "idle"
  /\ ResolveMode(r, effort) \in {"normal", "bfs", "dfs"}
  /\ call' = [mode |-> ResolveMode(r, effort), effort |-> effort, stream |-> r.stream]
  /\ StartLevel(<<QuestionScore>>, 1)
  /\ UNCHANGED <<budget, reply, posted, answered>>

-----------------------------------------------------------------------------
(* _expand: one call per state of the frontier, nothing without budget and *)
(* nothing when the call fails.                                            *)
Expanded(n) ==
  LET found == candidates + n
  IN  \/ /\ position < Len(frontier)
         /\ position' = position + 1 /\ candidates' = found /\ attempt' = 0
         /\ UNCHANGED <<step, level, frontier, branch, posted>>
      \/ /\ position = Len(frontier) /\ found > 0
         /\ StartPool(found) /\ candidates' = found
         /\ UNCHANGED <<level, frontier, position, posted>>
      \/ /\ position = Len(frontier) /\ found = 0
         /\ StartAnswer
         /\ UNCHANGED search

ExpandPost ==
  /\ step = "expanding" /\ attempt = 0 /\ HasBudget
  /\ budget' = Reserved
  /\ attempt' = 1 /\ posted' = posted + 1
  /\ UNCHANGED <<call, step, search, reply, answered>>

ExpandRefused ==
  /\ step = "expanding" /\ attempt = 0 /\ ~HasBudget
  /\ Expanded(0)
  /\ UNCHANGED <<call, budget, reply, answered>>

ExpandAnswer ==
  /\ step = "expanding" /\ attempt > 0
  /\ budget' = Recorded /\ answered' = answered + 1
  /\ \E n \in 0..ExpandCount[call.effort] : Expanded(n)
  /\ UNCHANGED <<call, reply>>

ExpandFails ==
  /\ step = "expanding" /\ attempt > 0
  /\ Expanded(0)
  /\ UNCHANGED <<call, budget, reply, answered>>

(* _request_json: a timeout or an error of the server is tried again. *)
MayRetry(k) == k <= MaxRetries

Retry ==
  /\ \/ step = "expanding" /\ attempt > 0
     \/ step = "answering" /\ ~call.stream
  /\ MayRetry(attempt)
  /\ attempt' = attempt + 1 /\ posted' = posted + 1
  /\ UNCHANGED <<call, step, search, budget, reply, answered>>

-----------------------------------------------------------------------------
(* _analyze_parallel: the pool's threads take the directions in order. *)
(* Mutant of PoolSize: a thread for every direction. *)
PoolSizeUnlimited == AtLeastOne(Len(branch))
PoolSize == AtLeastOne(Least(MaxParallel, Len(branch)))
InFlight == {i \in DOMAIN branch : branch[i].state = "calling"}
Waiting == {i \in DOMAIN branch : branch[i].state = "submitted"}

Takes(i) ==
  /\ step = "analysing"
  /\ i \in Waiting /\ \A j \in Waiting : i <= j
  /\ Cardinality(InFlight) < PoolSize

SetBranch(i, b) == branch' = [branch EXCEPT ![i] = b]

BranchPost(i) ==
  /\ Takes(i) /\ HasBudget
  /\ budget' = Reserved
  /\ SetBranch(i, Calling(1)) /\ posted' = posted + 1
  /\ UNCHANGED <<call, step, level, frontier, position, candidates, attempt, reply, answered>>

(* Mutant of BranchRefused: the thread waits for budget. *)
BranchWaits(i) == Takes(i) /\ ~HasBudget /\ UNCHANGED vars
BranchRefused(i) ==
  /\ Takes(i) /\ ~HasBudget
  /\ SetBranch(i, Dropped)
  /\ UNCHANGED <<call, step, level, frontier, position, candidates, attempt, budget, reply, posted, answered>>

BranchRetry(i) ==
  /\ i \in InFlight /\ MayRetry(branch[i].attempt)
  /\ SetBranch(i, Calling(branch[i].attempt + 1)) /\ posted' = posted + 1
  /\ UNCHANGED <<call, step, level, frontier, position, candidates, attempt, budget, reply, answered>>

(* An answer whose score is no number, or that has no analysis, leaves the *)
(* thought without a result; its usage has been recorded all the same.     *)
BranchAnswer(i) ==
  /\ i \in InFlight
  /\ budget' = Recorded /\ answered' = answered + 1
  /\ \/ \E s \in Scores : SetBranch(i, Analysed(s))
     \/ SetBranch(i, Dropped)
  /\ UNCHANGED <<call, step, level, frontier, position, candidates, attempt, reply, posted>>

BranchFails(i) ==
  /\ i \in InFlight
  /\ SetBranch(i, Dropped)
  /\ UNCHANGED <<call, step, level, frontier, position, candidates, attempt, budget, reply, posted, answered>>

-----------------------------------------------------------------------------
(* What the levels make of the analyses. *)
PoolIsDone == step = "analysing" /\ \A i \in DOMAIN branch : branch[i].state = "done"
Results == {i \in DOMAIN branch : branch[i].result}
Score(i) == branch[i].score

(* f holds the scores of the n best of S, best first. *)
Best(f, S, n) ==
  LET k == Least(n, Cardinality(S))
  IN  \E p \in [1..k -> S] :
        /\ \A i, j \in 1..k : i < j => p[i] # p[j] /\ Score(p[i]) >= Score(p[j])
        /\ \A i \in 1..k, x \in S \ {p[j] : j \in 1..k} : Score(p[i]) >= Score(x)
        /\ f = [i \in 1..k |-> Score(p[i])]

Rankings(S, n) ==
  {f \in [1..Least(n, Cardinality(S)) -> {Score(i) : i \in S}] : Best(f, S, n)}

Viable == {i \in Results : Score(i) >= PruneBelow[call.effort]}

Answers(f) ==
  /\ StartAnswer
  /\ frontier' = f
  /\ UNCHANGED <<call, level, position, candidates, branch, budget, reply, answered>>

Descends(f) ==
  /\ StartLevel(f, level + 1)
  /\ UNCHANGED <<call, budget, reply, posted, answered>>

CriticalJoin ==
  /\ PoolIsDone /\ call.mode = "critical"
  /\ \E f \in Rankings(Results, BeamWidth[call.effort]) : Answers(f)

(* Mutant of BeamJoin: a level without results replaces the frontier too. *)
BeamJoinAnyway ==
  /\ PoolIsDone /\ call.mode \in {"bfs", "normal"}
  /\ \E f \in Rankings(Results, BeamWidth[call.effort]) :
       IF level < BeamDepth[call.effort] /\ Results # {} THEN Descends(f) ELSE Answers(f)
BeamJoin ==
  /\ PoolIsDone /\ call.mode \in {"bfs", "normal"}
  /\ \/ Results = {} /\ Answers(frontier)
     \/ /\ Results # {}
        /\ \E f \in Rankings(Results, BeamWidth[call.effort]) :
             IF level < BeamDepth[call.effort] THEN Descends(f) ELSE Answers(f)

DfsJoin ==
  /\ PoolIsDone /\ call.mode = "dfs"
  /\ \/ Viable = {} /\ Answers(frontier)
     \/ /\ Viable # {}
        /\ \E f \in Rankings(Viable, 1) :
             IF f[1] >= AcceptFrom[call.effort] \/ level = DfsDepth[call.effort]
               THEN Answers(f) ELSE Descends(f)

-----------------------------------------------------------------------------
(* The final call: _raw_chat, or _raw_stream, which is not tried again.    *)
(* Mutant of Total: the usage of the branches is left out. *)
TotalOfAnswer == 1
Total == budget.usage + 1

AnswerArrives ==
  /\ step = "answering"
  /\ step' = "done"
  /\ reply' = [reply EXCEPT !.usage = Total]
  /\ answered' = answered + 1
  /\ UNCHANGED <<call, search, attempt, budget, posted>>

AnswerDelta ==
  /\ step = "answering" /\ call.stream
  /\ reply' = [reply EXCEPT !.deltas = TRUE]
  /\ UNCHANGED <<call, step, search, attempt, budget, posted, answered>>

AnswerFails ==
  /\ step = "answering"
  /\ step' = "failed"
  /\ UNCHANGED <<call, search, attempt, budget, reply, posted, answered>>

-----------------------------------------------------------------------------
Chat == \E r \in Requests : \E e \in EffectiveEfforts(r) :
          ChatDirect(r, e) \/ ChatCritical(r, e) \/ ChatSearch(r, e)
Expand == ExpandPost \/ ExpandRefused \/ ExpandAnswer \/ ExpandFails
Thread(i) == BranchPost(i) \/ BranchRefused(i) \/ BranchRetry(i) \/ BranchAnswer(i) \/ BranchFails(i)
Join == CriticalJoin \/ BeamJoin \/ DfsJoin
Answer == AnswerArrives \/ AnswerFails

Next ==
  \/ Chat \/ Expand \/ Retry \/ Join \/ Answer \/ AnswerDelta
  \/ \E i \in DOMAIN branch : Thread(i)

(* Threads go on, and a request does not stay without an outcome: the HTTP *)
(* client has a timeout, and there is an end of the retries.               *)
Spec ==
  /\ Init /\ [][Next]_vars
  /\ WF_vars(Expand) /\ WF_vars(Join) /\ WF_vars(Answer)
  /\ \A i \in 1..MaxBranches : WF_vars(i \in DOMAIN branch /\ Thread(i))

-----------------------------------------------------------------------------
TypeOK ==
  /\ call.mode \in Modes /\ call.effort \in Efforts /\ call.stream \in BOOLEAN
  /\ step \in {"idle", "expanding", "analysing", "answering", "done", "failed"}
  /\ level \in Nat /\ position \in Nat /\ candidates \in Nat /\ attempt \in Nat
  /\ frontier \in Seq(Scores \cup {0, QuestionScore})
  /\ branch \in Seq([state : {"submitted", "calling", "done"}, attempt : Nat,
                     score : Scores \cup {0}, result : BOOLEAN])
  /\ budget \in [calls : Nat, usage : Nat]
  /\ reply \in [deltas : BOOLEAN, usage : Nat]
  /\ posted \in Nat /\ answered \in Nat

(* The whole call, retries and final answer included, makes at most        *)
(* max_retries + 1 POSTs for each call of the budget and one call more;    *)
(* the search alone keeps to the calls it has reserved.                    *)
PostsWithinBudget ==
  LET final == IF step \in {"answering", "done", "failed"} THEN 1 ELSE 0
  IN  /\ budget.calls <= MaxCalls
      /\ posted <= (budget.calls + final) * (MaxRetries + 1)

(* No more requests are open at once than the setting allows, and none     *)
(* when the pool is empty but the one of the caller's thread.              *)
RequestsWithinLimit ==
  /\ Cardinality(InFlight) <= AtLeastOne(MaxParallel)
  /\ IF step = "analysing" THEN attempt = 0 ELSE InFlight = {}

(* The usage a caller is told, and books, is that of every answer the      *)
(* model gave, also of those the search had no use for                     *)
(* (docs/architecture.md:43).                                              *)
UsageIsComplete == step = "done" => reply.usage = answered

(* A search that runs out of budget, or whose branches fail, keeps what an *)
(* earlier level found: the final call always has a state to start from,   *)
(* and never more than the width of the beam, the best one first.          *)
SearchKeepsAState ==
  step = "answering" /\ call.mode \in {"normal", "bfs", "dfs"} =>
    /\ Len(frontier) \in 1..BeamWidth[call.effort]
    /\ \A i \in 2..Len(frontier) : frontier[i] <= frontier[i-1]
    /\ frontier = <<QuestionScore>> \/ call.mode # "dfs" \/ frontier[1] >= PruneBelow[call.effort]

(* Whatever fails on the way, a search comes to its final call, and the    *)
(* call to an end.                                                         *)
SearchEndsInAnswer ==
  /\ step \in {"expanding", "analysing"} ~> step = "answering"
  /\ step = "answering" ~> step \in {"done", "failed"}
=============================================================================
