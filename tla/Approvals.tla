----------------------------- MODULE Approvals -----------------------------
(***************************************************************************)
(* The tool calls of the Agents of one task and the user's consent to the  *)
(* risky ones (agent/executor.py, api/tasks.py decide_approval).           *)
(*                                                                         *)
(* An Agent's session counts the task's calls, inserts its own, looks for  *)
(* an approval, and commits.  Sessions of parallel Agents do the same on   *)
(* the same rows, and none of these reads locks anything.  The scheduler   *)
(* is reduced to the step that starts a READY node on a free worker: what  *)
(* happens in between is the subject of module Scheduler.                  *)
(*                                                                         *)
(* A call is an operation with its arguments.  Whether it needs consent is *)
(* a property of the call: writing needs it when the target exists, but    *)
(* build_agent_scope gives parallel Agents disjoint directories to write,  *)
(* so that no other Agent changes the answer; creating a file and          *)
(* overwriting it are two calls here.                                      *)
(***************************************************************************)
EXTENDS Naturals, Sequences, FiniteSets

CONSTANTS
  Nodes,             \* the producers of the plan
  Workers,           \* the processes of worker-agent
  Requests,          \* HTTP requests of the owner that may be in flight at once
  Calls,             \* the tool calls Agents may ask for: operation and arguments
  OperationOf,       \* call -> its operation (tool_name)
  Risky,             \* calls approval_reason gives a reason for
  AutoApproved,      \* risky calls that YOLO approves in this task
  MaxToolCalls,      \* max_tool_calls_per_task
  MaxApprovals,      \* bound: approval requests per behaviour
  NoNode, NoCall

ASSUME CallsAreClassified ==
  /\ AutoApproved \subseteq Risky /\ Risky \subseteq Calls
  /\ NoNode \notin Nodes /\ NoCall \notin Calls

ASSUME LimitsAreNaturals ==
  /\ MaxToolCalls \in Nat /\ MaxApprovals \in Nat
  /\ IsFiniteSet(Workers) /\ Workers # {}

ApprovalStatus == {"PENDING", "APPROVED_ONCE", "APPROVED_FOR_TASK", "DENIED"}
NodeStatus == {"READY", "RUNNING", "WAITING", "SUCCEEDED", "FAILED"}

VARIABLES
  node,       \* rows task_nodes: status
  approvals,  \* rows approvals, by requested_at: call, owner node, status, consumed
  toolCalls,  \* number of committed rows tool_calls of the revision
  session,    \* what each agent worker is doing
  request,    \* the decisions of the owner being handled by the API
  uses,       \* history: executions each approval was the consent for
  waitsFor    \* history: the approval a node waits, or last waited, for

vars == <<node, approvals, toolCalls, session, request, uses, waitsFor>>

Free == [step |-> "free", node |-> NoNode, call |-> NoCall, state |-> "none", approval |-> 0]
Thinking(n) ==
  [step |-> "thinking", node |-> n, call |-> NoCall, state |-> "none", approval |-> 0]
NoRequest == [approval |-> 0, decision |-> "DENIED", waiting |-> FALSE]

Init ==
  /\ node = [n \in Nodes |-> "READY"]
  /\ approvals = <<>>
  /\ toolCalls = 0
  /\ session = [w \in Workers |-> Free]
  /\ request = [q \in Requests |-> NoRequest]
  /\ uses = <<>>
  /\ waitsFor = [n \in Nodes |-> 0]

At(w, step) == session[w].step = step
SetNode(n, st) == node' = [node EXCEPT ![n] = st]
Leave(w) == session' = [session EXCEPT ![w] = Free]
Goto(w, step) == session' = [session EXCEPT ![w].step = step]

(***************************************************************************)
(* _approval_state: the newest approval that says something of this call.  *)
(* One for the task speaks for all calls of its operation, the others for  *)
(* the same arguments; one that is used up is passed over.                 *)
(***************************************************************************)
(* Mutant of Speaks: a one-time approval is never used up. *)
SpeaksForEver(a, c) ==
  \/ a.status = "APPROVED_FOR_TASK" /\ OperationOf[a.call] = OperationOf[c]
  \/ a.status \in {"APPROVED_ONCE", "DENIED", "PENDING"} /\ a.call = c

(* Mutant of Speaks: consent for other arguments of the same tool counts. *)
SpeaksForOperation(a, c) ==
  /\ OperationOf[a.call] = OperationOf[c]
  /\ ~(a.status = "APPROVED_ONCE" /\ a.consumed)

Speaks(a, c) ==
  \/ a.status = "APPROVED_FOR_TASK" /\ OperationOf[a.call] = OperationOf[c]
  \/ a.status = "APPROVED_ONCE" /\ a.call = c /\ ~a.consumed
  \/ a.status \in {"DENIED", "PENDING"} /\ a.call = c

Speaking(c) == {i \in DOMAIN approvals : Speaks(approvals[i], c)}

Newest(c) == CHOOSE i \in Speaking(c) : \A j \in Speaking(c) : j <= i

ApprovalState(c) ==
  CASE c \notin Risky -> "not_needed"
    [] c \in AutoApproved -> "yolo"
    [] c \in Risky \ AutoApproved /\ Speaking(c) = {} -> "new"
    [] OTHER -> approvals[Newest(c)].status

(***************************************************************************)
(* The agent workers: run_node.                                            *)
(***************************************************************************)
Start(w, n) ==
  /\ At(w, "free")
  /\ node[n] = "READY"
  /\ SetNode(n, "RUNNING")
  /\ session' = [session EXCEPT ![w] = Thinking(n)]
  /\ UNCHANGED <<approvals, toolCalls, request, uses, waitsFor>>

(* The model answered, or the rounds are used up. *)
Finish(w) ==
  /\ At(w, "thinking")
  /\ \E st \in {"SUCCEEDED", "FAILED"} : SetNode(session[w].node, st)
  /\ Leave(w)
  /\ UNCHANGED <<approvals, toolCalls, request, uses, waitsFor>>

(* Mutant of HasBudget: one call more than the limit. *)
HasBudgetForOneMore == toolCalls <= MaxToolCalls

HasBudget == toolCalls < MaxToolCalls

(* The model asked for call c: the committed calls are counted. *)
CountCalls(w, c) ==
  /\ At(w, "thinking")
  /\ IF HasBudget
     THEN /\ session' = [session EXCEPT ![w].step = "counted", ![w].call = c]
          /\ UNCHANGED node
     ELSE /\ SetNode(session[w].node, "FAILED")
          /\ Leave(w)
  /\ UNCHANGED <<approvals, toolCalls, request, uses, waitsFor>>

(* The call is inserted (not yet committed) and the approvals are read. *)
ReadApprovals(w) ==
  LET c == session[w].call
      st == ApprovalState(c)
  IN /\ At(w, "counted")
     /\ session' = [session EXCEPT
          ![w].step = "decided", ![w].state = st,
          ![w].approval = IF st \in ApprovalStatus THEN Newest(c) ELSE 0]
     /\ UNCHANGED <<node, approvals, toolCalls, request, uses, waitsFor>>

Decided(w, states) == At(w, "decided") /\ session[w].state \in states

(* Mutant of JoinPending: the Agent goes on while its node waits. *)
JoinPendingAndGoOn(w) ==
  /\ Decided(w, {"PENDING"})
  /\ toolCalls' = toolCalls + 1
  /\ SetNode(session[w].node, "WAITING")
  /\ waitsFor' = [waitsFor EXCEPT ![session[w].node] = session[w].approval]
  /\ Goto(w, "thinking")
  /\ UNCHANGED <<approvals, request, uses>>

(* The user is being asked about this call: wait, without a request of its own. *)
JoinPending(w) ==
  /\ Decided(w, {"PENDING"})
  /\ toolCalls' = toolCalls + 1
  /\ SetNode(session[w].node, "WAITING")
  /\ waitsFor' = [waitsFor EXCEPT ![session[w].node] = session[w].approval]
  /\ Leave(w)
  /\ UNCHANGED <<approvals, request, uses>>

RequestApproval(w) ==
  /\ Decided(w, {"new"})
  /\ Len(approvals) < MaxApprovals
  /\ toolCalls' = toolCalls + 1
  /\ approvals' = Append(approvals,
       [call |-> session[w].call, owner |-> session[w].node, status |-> "PENDING",
        consumed |-> FALSE])
  /\ uses' = Append(uses, 0)
  /\ SetNode(session[w].node, "WAITING")
  /\ waitsFor' = [waitsFor EXCEPT ![session[w].node] = Len(approvals) + 1]
  /\ Leave(w)
  /\ UNCHANGED request

Resume(w) == session' = [session EXCEPT ![w] = Thinking(session[w].node)]

(* Mutant of Refused: the session does not go on. *)
RefusedAndStuck(w) ==
  /\ Decided(w, {"DENIED"})
  /\ toolCalls' = toolCalls + 1
  /\ session' = [session EXCEPT ![w] = Thinking(NoNode)]
  /\ UNCHANGED <<node, approvals, request, uses, waitsFor>>

(* The model is told that the user refused. *)
Refused(w) ==
  /\ Decided(w, {"DENIED"})
  /\ toolCalls' = toolCalls + 1
  /\ Resume(w)
  /\ UNCHANGED <<node, approvals, request, uses, waitsFor>>

Granted == {"not_needed", "yolo", "APPROVED_ONCE", "APPROVED_FOR_TASK"}

(* The call is committed as RUNNING, a one-time approval as consumed. *)
RunTool(w) ==
  LET i == session[w].approval
  IN /\ Decided(w, Granted)
     /\ toolCalls' = toolCalls + 1
     /\ approvals' = IF session[w].state = "APPROVED_ONCE"
                     THEN [approvals EXCEPT ![i].consumed = TRUE] ELSE approvals
     /\ uses' = IF i = 0 THEN uses ELSE [uses EXCEPT ![i] = @ + 1]
     /\ Goto(w, "running")
     /\ UNCHANGED <<node, request, waitsFor>>

(* The tool returned; when it keeps failing the same way the node fails. *)
ToolReturns(w) ==
  /\ At(w, "running")
  /\ \/ Resume(w) /\ UNCHANGED node
     \/ SetNode(session[w].node, "FAILED") /\ Leave(w)
  /\ UNCHANGED <<approvals, toolCalls, request, uses, waitsFor>>

(***************************************************************************)
(* The owner: decide_approval reads the approval and its node, checks that *)
(* the approval is PENDING, and commits.                                   *)
(***************************************************************************)
(* Mutant of DecideRead: the status is not checked. *)
DecideReadUnchecked(q, i, d) ==
  /\ request[q] = NoRequest
  /\ request' = [request EXCEPT ![q] =
       [approval |-> i, decision |-> d,
        waiting |-> node[approvals[i].owner] = "WAITING"]]
  /\ UNCHANGED <<node, approvals, toolCalls, session, uses, waitsFor>>

DecideRead(q, i, d) ==
  /\ request[q] = NoRequest
  /\ approvals[i].status = "PENDING"
  /\ request' = [request EXCEPT ![q] =
       [approval |-> i, decision |-> d,
        waiting |-> node[approvals[i].owner] = "WAITING"]]
  /\ UNCHANGED <<node, approvals, toolCalls, session, uses, waitsFor>>

(* Mutant of DecideCommit: the waiting node is not released. *)
DecideCommitOnly(q) ==
  /\ request[q] # NoRequest
  /\ approvals' = [approvals EXCEPT ![request[q].approval].status = request[q].decision]
  /\ request' = [request EXCEPT ![q] = NoRequest]
  /\ UNCHANGED <<node, toolCalls, session, uses, waitsFor>>

DecideCommit(q) ==
  LET i == request[q].approval
  IN /\ request[q] # NoRequest
     /\ approvals' = [approvals EXCEPT ![i].status = request[q].decision]
     /\ node' = IF request[q].waiting
                THEN [node EXCEPT ![approvals[i].owner] = "READY"] ELSE node
     /\ request' = [request EXCEPT ![q] = NoRequest]
     /\ UNCHANGED <<toolCalls, session, uses, waitsFor>>
-----------------------------------------------------------------------------
Agent(w) ==
  \/ \E n \in Nodes : Start(w, n)
  \/ Finish(w)
  \/ \E c \in Calls : CountCalls(w, c)
  \/ ReadApprovals(w) \/ JoinPending(w) \/ RequestApproval(w) \/ Refused(w)
  \/ RunTool(w) \/ ToolReturns(w)

Decisions == {"DENIED", "APPROVED_ONCE", "APPROVED_FOR_TASK"}

Owner(q) ==
  \/ \E i \in DOMAIN approvals, d \in Decisions : DecideRead(q, i, d)
  \/ DecideCommit(q)

Next == (\E w \in Workers : Agent(w)) \/ (\E q \in Requests : Owner(q))

Spec == Init /\ [][Next]_vars
-----------------------------------------------------------------------------
SessionRow ==
  [step : {"free", "thinking", "counted", "decided", "running"},
   node : Nodes \cup {NoNode}, call : Calls \cup {NoCall},
   state : Granted \cup ApprovalStatus \cup {"new", "none"}, approval : Nat]

(* Every variable keeps its type; approvals and their uses stay aligned. *)
TypeOK ==
  /\ node \in [Nodes -> NodeStatus]
  /\ approvals \in Seq([call : Calls, owner : Nodes, status : ApprovalStatus,
                        consumed : BOOLEAN])
  /\ toolCalls \in Nat
  /\ session \in [Workers -> SessionRow]
  /\ request \in [Requests -> [approval : Nat, decision : Decisions, waiting : BOOLEAN]]
  /\ uses \in Seq(Nat) /\ Len(uses) = Len(approvals)
  /\ waitsFor \in [Nodes -> 0..Len(approvals)]
  /\ \A n \in Nodes : node[n] = "WAITING" => waitsFor[n] # 0
  /\ \A w \in Workers :
       /\ session[w].step # "free" => session[w].node \in Nodes
       /\ session[w].step \in {"counted", "decided", "running"} => session[w].call \in Calls
       /\ session[w].approval \in 0..Len(approvals)
       /\ session[w].step = "decided" /\ session[w].state \in ApprovalStatus =>
            session[w].approval # 0
  /\ \A q \in Requests : /\ request[q].approval \in 0..Len(approvals)
                         /\ request[q] # NoRequest => request[q].approval # 0

(* The budget of calls may be overrun, because it is counted before the    *)
(* call is committed, but by no more than one call per other worker.       *)
BudgetWithinWorkers == toolCalls < MaxToolCalls + Cardinality(Workers)

(* A one-time approval is used, at the very worst, once by every worker:   *)
(* after its first committed use nobody reads it as open again.            *)
OnceAtMostPerWorker ==
  \A i \in DOMAIN approvals :
    approvals[i].status = "APPROVED_ONCE" => uses[i] <= Cardinality(Workers)

(* A one-time approval is consent for one execution                        *)
(* (docs/database.md:27, docs/api.md:68).                                  *)
OnceIsUsedOnce ==
  \A i \in DOMAIN approvals : approvals[i].status = "APPROVED_ONCE" => uses[i] <= 1

Runs(w, c) ==
  /\ session[w].step # "running" /\ session'[w].step = "running"
  /\ session'[w].call = c

(* A risky call starts only with the owner's consent to it: for the whole  *)
(* operation, or once for exactly these arguments.                         *)
RiskyRunsWithConsent ==
  [][\A w \in Workers, c \in Risky \ AutoApproved :
       Runs(w, c) =>
         \E i \in DOMAIN approvals :
           \/ /\ approvals[i].status = "APPROVED_FOR_TASK"
              /\ OperationOf[approvals[i].call] = OperationOf[c]
           \/ approvals[i].status = "APPROVED_ONCE" /\ approvals[i].call = c]_vars

(* An answer is final: once given, no later request changes it.            *)
AnswerIsFinal ==
  [][\A i \in DOMAIN approvals :
       approvals[i].status # "PENDING" => approvals'[i].status = approvals[i].status]_vars

(* An answer releases the node exactly once, and a node that waits is not  *)
(* being executed: a node is RUNNING exactly while one worker runs it.     *)
OneSessionPerNode ==
  \A n \in Nodes :
    LET S == {w \in Workers : session[w].step # "free" /\ session[w].node = n}
    IN  /\ Cardinality(S) <= 1
        /\ S # {} <=> node[n] = "RUNNING"

(* A node that waits for its own request waits only until the answer.  One *)
(* that joined another node's request is not released by the answer.       *)
AskerIsWoken ==
  \A n \in Nodes :
    LET i == waitsFor[n]
    IN  (node[n] = "WAITING" /\ approvals[i].owner = n) => approvals[i].status = "PENDING"
=============================================================================
