------------------------------ MODULE Scheduler ------------------------------
(***************************************************************************)
(* One revision of one task, from the moment its plan is persisted until   *)
(* the task is delivered, fails or is canceled.                            *)
(*                                                                         *)
(*   control worker   run_task / _schedule_plan   (worker/tasks.py)        *)
(*   agent workers    execute_node / run_node     (agent/executor.py)      *)
(*   supervisor       supervise_message           (worker/tasks.py)        *)
(*   users            messages, cancel, approvals (api/tasks.py)           *)
(*                                                                         *)
(* They share the PostgreSQL rows `task' and `node' and the two Celery     *)
(* queues.  A database session reads the rows once (the ORM identity map), *)
(* works on that copy, and on commit writes only the columns it changed,   *)
(* so whatever another session committed in between stays or is            *)
(* overwritten column by column.                                           *)
(***************************************************************************)
EXTENDS Naturals, FiniteSets

CONSTANTS
  Nodes,             \* the nodes of the plan
  Reviewer,          \* its only reviewer node
  DependsOn,         \* node -> the nodes it depends on
  Workers,           \* the processes of worker-agent
  MaxConcurrent,     \* max_concurrent_agents_per_task
  MaxReviewRetries,  \* max_review_retries
  Directives,        \* the messages users may send while the task is active
  Approvable,        \* the nodes whose Agent may ask for an approval
  MaxFaults,         \* bound: crashes, exceptions and broker errors per behaviour
  NoNode,            \* an idle worker's node
  NoDirective        \* an idle supervisor's directive

Producers == Nodes \ {Reviewer}

(* TaskPlan.validate_graph: every plan that reaches the database.          *)
TerminalProducers ==
  {n \in Producers : \A m \in Producers : n \notin DependsOn[m]}

ASSUME PlanIsValid ==
  /\ IsFiniteSet(Nodes) /\ Reviewer \in Nodes /\ Producers # {}
  /\ DependsOn \in [Nodes -> SUBSET Producers]
  /\ TerminalProducers \subseteq DependsOn[Reviewer]
  /\ \E rank \in [Nodes -> 0..Cardinality(Nodes)] :
        \A n \in Nodes : \A d \in DependsOn[n] : rank[d] < rank[n]

ASSUME BoundsAreNaturals ==
  /\ MaxConcurrent \in Nat \ {0}
  /\ MaxReviewRetries \in Nat
  /\ MaxFaults \in Nat
  /\ Approvable \subseteq Nodes
  /\ IsFiniteSet(Directives)
  /\ NoNode \notin Nodes /\ NoDirective \notin Directives

MaxAttempts == 3     \* the literal 3 of _schedule_plan; attempt counts no further
MaxExecRetries == 1  \* max_retries of the Celery task execute_node

TaskStatus ==
  {"CREATED", "QUEUED", "PLANNING", "RUNNING", "WAITING_APPROVAL", "REVIEWING",
   "REWORKING", "PACKAGING", "SUCCEEDED", "FAILED", "CANCELING", "CANCELED"}
Terminal == {"SUCCEEDED", "FAILED", "CANCELED"}
ActiveExecution ==
  {"QUEUED", "PLANNING", "RUNNING", "WAITING_APPROVAL", "REVIEWING",
   "REWORKING", "PACKAGING"}
NodeStatus ==
  {"PENDING", "READY", "QUEUED", "RUNNING", "WAITING", "SUCCEEDED", "FAILED",
   "RETRYING", "CANCELED"}
DirectiveStatus ==
  {"NONE", "PENDING", "PROCESSING", "RESPONDED", "NEEDS_CLARIFICATION", "MERGED"}

VARIABLES
  task,        \* row: status, cancel (cancel_requested), retries, brief
  node,        \* rows: status, attempt, rework (REWORK_REQUIRED), target, applied
  directive,   \* task_directives.status
  approvals,   \* the nodes whose own approval request is PENDING
  control,     \* number of run_task messages in the queue "control"
  agentq,      \* execute_node messages in the queue "agent", by node and retry
  phase,       \* where the control worker's session is
  seenTask,    \* the control worker's copy of `task'
  seenNode,    \* the control worker's copy of `node'
  dispatch,    \* nodes committed as QUEUED whose message is not sent yet
  session,     \* what each agent worker is executing
  supervisor,  \* the directive the supervisor worker is analysing
  gate,        \* what validate_delivery finds in the present files and calls
  faults,      \* how many faults have happened
  reviewed     \* history: nodes whose current result the reviewer's run started after

rows == <<task, node>>
control_vars == <<phase, seenTask, seenNode, dispatch>>
vars == <<task, node, directive, approvals, control, agentq, phase, seenTask,
          seenNode, dispatch, session, supervisor, gate, faults, reviewed>>

Messages == Nodes \X (0..MaxExecRetries)
Idle == [node |-> NoNode, step |-> "idle", retries |-> 0, sawWaiting |-> FALSE]

InitTask == [status |-> "PLANNING", cancel |-> FALSE, retries |-> 0, brief |-> 1]
InitNode ==
  [n \in Nodes |->
     [status |-> IF DependsOn[n] = {} THEN "READY" ELSE "PENDING",
      attempt |-> 0, rework |-> FALSE, target |-> 1, applied |-> 1]]

(* _persist_plan has committed and plan_task has sent the first run_task.  *)
Init ==
  /\ task = InitTask
  /\ node = InitNode
  /\ directive = [d \in Directives |-> "NONE"]
  /\ approvals = {}
  /\ control = 1
  /\ agentq = [m \in Messages |-> 0]
  /\ phase = "idle"
  /\ seenTask = InitTask
  /\ seenNode = InitNode
  /\ dispatch = {}
  /\ session = [w \in Workers |-> Idle]
  /\ supervisor = NoDirective
  /\ gate = "unknown"
  /\ faults = 0
  /\ reviewed = {}

(***************************************************************************)
(* _schedule_plan, computed on the session's copies t and ns.              *)
(***************************************************************************)
WithStatus(ns, S, st) ==
  [n \in Nodes |-> IF n \in S THEN [ns[n] EXCEPT !.status = st] ELSE ns[n]]

InStatus(ns, S) == {n \in Nodes : ns[n].status \in S}

(* Mutant of ReworkDue: one retry too many. *)
ReworkDueOnceMore(t, ns) ==
  /\ ns[Reviewer].status = "FAILED"
  /\ ns[Reviewer].rework
  /\ t.retries <= MaxReviewRetries

ReworkDue(t, ns) ==
  /\ ns[Reviewer].status = "FAILED"
  /\ ns[Reviewer].rework
  /\ t.retries < MaxReviewRetries

(* Mutant of SendBack: the reviewer keeps its verdict. *)
SendBackProducersOnly(ns) == WithStatus(ns, DependsOn[Reviewer], "READY")

SendBack(ns) ==
  WithStatus(WithStatus(ns, DependsOn[Reviewer], "READY"), {Reviewer}, "PENDING")

Retryable(ns) ==
  {n \in Producers : ns[n].status = "FAILED" /\ ns[n].attempt < MaxAttempts}

(* Mutant of Unblocked: any dependency instead of all. *)
UnblockedByAny(ns) ==
  {n \in InStatus(ns, {"PENDING", "RETRYING"}) :
     DependsOn[n] \cap InStatus(ns, {"SUCCEEDED"}) # {}}

Unblocked(ns) ==
  {n \in InStatus(ns, {"PENDING", "RETRYING"}) :
     DependsOn[n] \subseteq InStatus(ns, {"SUCCEEDED"})}

(* The copy after the review-failure branch and the promotion loop.        *)
Promoted(t, ns) ==
  LET base == IF ReworkDue(t, ns) THEN SendBack(ns) ELSE ns
  IN  WithStatus(base, Retryable(base) \cup Unblocked(base), "READY")

HasTerminalFailure(ns) ==
  \E n \in InStatus(ns, {"FAILED"}) :
     n = Reviewer \/ ns[n].attempt >= MaxAttempts

AllSucceeded(ns) == InStatus(ns, {"SUCCEEDED"}) = Nodes

(* Mutant of Active: a node that no worker has taken yet has no slot. *)
ActiveOnWorkers(ns) == InStatus(ns, {"RUNNING", "WAITING"})

Active(ns) == InStatus(ns, {"QUEUED", "RUNNING", "WAITING"})

Slots(ns) ==
  IF Cardinality(Active(ns)) >= MaxConcurrent
  THEN 0 ELSE MaxConcurrent - Cardinality(Active(ns))

(* Mutant of Batches: queued nodes are dispatched again. *)
BatchesWithQueued(ns) ==
  LET ready == InStatus(ns, {"READY", "QUEUED"})
  IN  {B \in SUBSET ready :
         Cardinality(B) = IF Cardinality(ready) < Slots(ns)
                          THEN Cardinality(ready) ELSE Slots(ns)}

(* ready_nodes: as many READY nodes as there are slots.                    *)
Batches(ns) ==
  LET ready == InStatus(ns, {"READY"})
  IN  {B \in SUBSET ready :
         Cardinality(B) = IF Cardinality(ready) < Slots(ns)
                          THEN Cardinality(ready) ELSE Slots(ns)}

(***************************************************************************)
(* Commit: only the columns that differ from the copy are written.         *)
(***************************************************************************)
CommitNodes(ns) ==
  node' = [n \in Nodes |->
             IF ns[n].status # seenNode[n].status
             THEN [node[n] EXCEPT !.status = ns[n].status] ELSE node[n]]

(* `flushed': an earlier status was already flushed in this transaction,   *)
(* so the final one is written even when it equals the one first read.     *)
CommitTask(st, retries, flushed) ==
  task' = [task EXCEPT
             !.status = IF flushed \/ st # seenTask.status THEN st ELSE @,
             !.retries = IF retries # seenTask.retries THEN retries ELSE @]

Close ==
  /\ phase' = "idle"
  /\ seenTask' = InitTask
  /\ seenNode' = InitNode
  /\ dispatch' = {}

OutsideControl ==
  <<directive, approvals, control, agentq, session, supervisor, gate, faults,
    reviewed>>

(***************************************************************************)
(* The control worker.                                                     *)
(***************************************************************************)
RunTask ==
  /\ phase = "idle" /\ control > 0
  /\ control' = control - 1
  /\ phase' = "opened"
  /\ seenTask' = task
  /\ UNCHANGED <<rows, directive, approvals, agentq, seenNode, dispatch, session,
                 supervisor, gate, faults, reviewed>>

(* The nodes are read by a second query.                                   *)
ReadNodes ==
  /\ phase = "opened"
  /\ phase' = "loaded"
  /\ seenNode' = node
  /\ UNCHANGED <<rows, seenTask, dispatch, OutsideControl>>

ScheduleCancel ==
  /\ phase = "loaded" /\ seenTask.cancel
  /\ CommitTask("CANCELED", seenTask.retries, FALSE)
  /\ CommitNodes(WithStatus(seenNode,
        Nodes \ InStatus(seenNode, {"SUCCEEDED", "FAILED"}), "CANCELED"))
  /\ Close
  /\ UNCHANGED OutsideControl

Copy == Promoted(seenTask, seenNode)
Reworks == ReworkDue(seenTask, seenNode)
CopyRetries == IF Reworks THEN seenTask.retries + 1 ELSE seenTask.retries

ScheduleFail ==
  /\ phase = "loaded" /\ ~seenTask.cancel
  /\ HasTerminalFailure(Copy)
  /\ CommitTask("FAILED", CopyRetries, Reworks)
  /\ CommitNodes(Copy)
  /\ Close
  /\ UNCHANGED OutsideControl

DirectivePending == \E d \in Directives : directive[d] \in {"PENDING", "PROCESSING"}

(* Mutant of Stale: only the reviewer's brief is compared. *)
StaleReviewer(ns) == {n \in {Reviewer} : ns[n].target > ns[n].applied}

Stale(ns) == {n \in Nodes : ns[n].target > ns[n].applied}

(* Every node of the copy succeeded: the directives are read afresh, the   *)
(* brief versions from the copy.                                           *)
ScheduleDelivery ==
  /\ phase = "loaded" /\ ~seenTask.cancel
  /\ AllSucceeded(seenNode)
  /\ \/ /\ DirectivePending
        /\ Close
        /\ UNCHANGED rows
     \/ /\ ~DirectivePending
        /\ Stale(seenNode) # {}
        /\ CommitNodes(WithStatus(WithStatus(seenNode, Stale(seenNode), "READY"),
                                  Stale(seenNode) \cap {Reviewer}, "PENDING"))
        /\ UNCHANGED task
        /\ Close
     \/ /\ ~DirectivePending
        /\ Stale(seenNode) = {}
        /\ phase' = "gating"
        /\ UNCHANGED <<rows, seenTask, seenNode, dispatch>>
  /\ UNCHANGED OutsideControl

(* validate_delivery reads rows and files that only tools and finished     *)
(* nodes change: its answer stays the same until then.                     *)
Verdict(v) == gate \in {"unknown", v} /\ gate' = v

OutsideGate ==
  <<directive, approvals, control, agentq, session, supervisor, faults, reviewed>>

(* validate_delivery found no issue.                                       *)
GatePass ==
  /\ phase = "gating"
  /\ Verdict("pass")
  /\ CommitTask("SUCCEEDED", seenTask.retries, TRUE)
  /\ UNCHANGED node
  /\ Close
  /\ UNCHANGED OutsideGate

GateFail ==
  /\ phase = "gating"
  /\ \E issue \in {"producer", "reviewer"} : Verdict(issue)
  /\ seenTask.retries >= MaxReviewRetries
  /\ CommitTask("FAILED", seenTask.retries, FALSE)
  /\ UNCHANGED node
  /\ Close
  /\ UNCHANGED OutsideGate

(* The gate sends the deliverable back, to the producers or only to the    *)
(* reviewer, commits, and goes on to the dispatch part with its new copy.  *)
GateRework ==
  /\ phase = "gating"
  /\ seenTask.retries < MaxReviewRetries
  /\ \E issue \in {"producer", "reviewer"} :
        LET ns == IF issue = "producer" THEN SendBack(seenNode)
                  ELSE WithStatus(seenNode, {Reviewer}, "READY")
        IN /\ Verdict(issue)
           /\ CommitNodes(ns)
           /\ seenNode' = ns
  /\ CommitTask("REWORKING", seenTask.retries + 1, FALSE)
  /\ seenTask' = [seenTask EXCEPT !.status = "REWORKING", !.retries = @ + 1]
  /\ phase' = "loaded"
  /\ UNCHANGED <<dispatch, OutsideGate>>

Dispatchable ==
  /\ phase = "loaded" /\ ~seenTask.cancel
  /\ ~HasTerminalFailure(Copy)
  /\ ~AllSucceeded(Copy)

ScheduleDispatch ==
  /\ Dispatchable
  /\ \E B \in Batches(Copy) \ {{}} :
        /\ CommitTask(IF B \subseteq {Reviewer} THEN "REVIEWING" ELSE "RUNNING",
                      CopyRetries, Reworks)
        /\ CommitNodes(WithStatus(Copy, B, "QUEUED"))
        /\ dispatch' = B
  /\ phase' = "sending"
  /\ seenTask' = InitTask
  /\ seenNode' = InitNode
  /\ UNCHANGED OutsideControl

ScheduleWaiting ==
  /\ Dispatchable
  /\ Batches(Copy) = {{}}
  /\ InStatus(Copy, {"WAITING"}) # {}
  /\ CommitTask("WAITING_APPROVAL", CopyRetries, Reworks)
  /\ CommitNodes(Copy)
  /\ Close
  /\ UNCHANGED OutsideControl

(* Returns without a commit: what this session changed is rolled back.     *)
ScheduleRunning ==
  /\ Dispatchable
  /\ Batches(Copy) = {{}}
  /\ InStatus(Copy, {"WAITING"}) = {}
  /\ InStatus(Copy, {"QUEUED", "RUNNING"}) # {}
  /\ Close
  /\ UNCHANGED <<rows, OutsideControl>>

ScheduleBlocked ==
  /\ Dispatchable
  /\ Batches(Copy) = {{}}
  /\ Active(Copy) = {}
  /\ CommitTask("FAILED", CopyRetries, Reworks)
  /\ CommitNodes(Copy)
  /\ Close
  /\ UNCHANGED OutsideControl

SendExecute(n) ==
  /\ phase = "sending" /\ n \in dispatch
  /\ agentq' = [agentq EXCEPT ![<<n, 0>>] = @ + 1]
  /\ dispatch' = dispatch \ {n}
  /\ phase' = IF dispatch = {n} THEN "idle" ELSE "sending"
  /\ UNCHANGED <<rows, directive, approvals, control, seenTask, seenNode,
                 session, supervisor, gate, faults, reviewed>>

(***************************************************************************)
(* The agent workers.                                                      *)
(***************************************************************************)
SetStatus(n, st, rework) ==
  node' = [node EXCEPT ![n].status = st, ![n].rework = rework]

Step(w, st) == session' = [session EXCEPT ![w].step = st]

Executing(w, st) == session[w].step = st

OutsideAgent == <<directive, control_vars, supervisor, faults>>
Untouched == <<gate, reviewed>>

Receive(w, n, r) ==
  /\ Executing(w, "idle")
  /\ agentq[<<n, r>>] > 0
  /\ agentq' = [agentq EXCEPT ![<<n, r>>] = @ - 1]

(* Mutant of Startable: a queued node is not accepted. *)
StartableWithoutQueued == {"READY", "RUNNING"}

Startable == {"QUEUED", "READY", "RUNNING"}

ExecuteStart(w, n, r) ==
  /\ Receive(w, n, r)
  /\ node[n].status \in Startable
  /\ node' = [node EXCEPT ![n].status = "RUNNING",
                          ![n].attempt = IF @ < MaxAttempts THEN @ + 1 ELSE @]
  /\ session' = [session EXCEPT ![w] = [node |-> n, step |-> "round", retries |-> r,
                                        sawWaiting |-> FALSE]]
  /\ reviewed' = IF n = Reviewer THEN InStatus(node, {"SUCCEEDED"})
                 ELSE reviewed \ {n}
  /\ UNCHANGED <<task, approvals, control, gate, OutsideAgent>>

(* The message is acknowledged; neither the node nor run_task follow.      *)
ExecuteIgnore(w, n, r) ==
  /\ Receive(w, n, r)
  /\ node[n].status \notin Startable
  /\ UNCHANGED <<rows, approvals, control, session, Untouched, OutsideAgent>>

Applied(n) == [node EXCEPT ![n].applied = node[n].target]

(* The head of a round: the rows are refreshed, a cancellation is noticed, *)
(* brief updates are taken over, then the model is called.                 *)
ExecuteRound(w) ==
  LET n == session[w].node
  IN /\ Executing(w, "round")
     /\ IF task.cancel
        THEN /\ node' = [node EXCEPT ![n].status = "CANCELED"]
             /\ Step(w, "returning")
        ELSE /\ node' = Applied(n)
             /\ session' = [session EXCEPT
                  ![w].step = "calling",
                  ![w].sawWaiting = task.status = "WAITING_APPROVAL"]
     /\ UNCHANGED <<task, approvals, control, agentq, Untouched, OutsideAgent>>

(* The model asked for tools and they ran: next round.                     *)
ExecuteTools(w) ==
  /\ Executing(w, "calling")
  /\ Step(w, "round")
  /\ gate' = "unknown"
  /\ UNCHANGED <<rows, approvals, control, agentq, reviewed, OutsideAgent>>

(* The provider failed, a tool kept failing, or a budget is used up.       *)
ExecuteFail(w) ==
  /\ Executing(w, "calling")
  /\ SetStatus(session[w].node, "FAILED", FALSE)
  /\ Step(w, "returning")
  /\ UNCHANGED <<task, approvals, control, agentq, Untouched, OutsideAgent>>

(* A risky tool call: a new approval request, or one already pending for   *)
(* the same operation and arguments.  run_task is not sent.                *)
ExecuteWait(w) ==
  LET n == session[w].node
  IN /\ Executing(w, "calling")
     /\ n \in Approvable
     /\ \/ approvals' = approvals \cup {n}
        \/ approvals # {} /\ UNCHANGED approvals
     /\ node' = [node EXCEPT ![n].status = "WAITING"]
     /\ task' = IF session[w].sawWaiting THEN task
                ELSE [task EXCEPT !.status = "WAITING_APPROVAL"]
     /\ session' = [session EXCEPT ![w] = Idle]
     /\ UNCHANGED <<control, agentq, Untouched, OutsideAgent>>

(* The model answered without tools: the node is refreshed and, unless a   *)
(* brief update sends it into another round, its result is written next.   *)
ExecuteAnswer(w) ==
  LET n == session[w].node
  IN /\ Executing(w, "calling")
     /\ node' = Applied(n)
     /\ Step(w, IF node[n].target > node[n].applied THEN "round" ELSE "closing")
     /\ UNCHANGED <<task, approvals, control, agentq, Untouched, OutsideAgent>>

(* The result: a success, a review verdict or an unusable answer.          *)
ExecuteClose(w) ==
  LET n == session[w].node
  IN /\ Executing(w, "closing")
     /\ \/ SetStatus(n, "SUCCEEDED", FALSE)
        \/ SetStatus(n, "FAILED", FALSE)
        \/ n = Reviewer /\ SetStatus(n, "FAILED", TRUE)
     /\ Step(w, "returning")
     /\ gate' = "unknown"
     /\ UNCHANGED <<task, approvals, control, agentq, reviewed, OutsideAgent>>

(* Mutant of ExecuteReturn: run_task is not sent. *)
ExecuteReturnSilently(w) ==
  /\ Executing(w, "returning")
  /\ session' = [session EXCEPT ![w] = Idle]
  /\ UNCHANGED <<rows, approvals, control, agentq, Untouched, OutsideAgent>>

ExecuteReturn(w) ==
  /\ Executing(w, "returning")
  /\ control' = control + 1
  /\ session' = [session EXCEPT ![w] = Idle]
  /\ UNCHANGED <<rows, approvals, agentq, Untouched, OutsideAgent>>

(***************************************************************************)
(* The supervisor.                                                         *)
(***************************************************************************)
OutsideSupervisor ==
  <<approvals, agentq, control_vars, session, gate, faults, reviewed>>

(* A message to an active task (mode auto) becomes a PENDING directive.    *)
CreateTaskMessage(d) ==
  /\ directive[d] = "NONE"
  /\ task.status \in ActiveExecution
  /\ directive' = [directive EXCEPT ![d] = "PENDING"]
  /\ UNCHANGED <<rows, control, supervisor, OutsideSupervisor>>

SuperviseBegin(d) ==
  /\ supervisor = NoDirective
  /\ directive[d] = "PENDING"
  /\ directive' = [directive EXCEPT ![d] = "PROCESSING"]
  /\ supervisor' = d
  /\ UNCHANGED <<rows, control, OutsideSupervisor>>

SuperviseReply ==
  /\ supervisor # NoDirective
  /\ \E st \in {"RESPONDED", "NEEDS_CLARIFICATION"} :
        directive' = [directive EXCEPT ![supervisor] = st]
  /\ supervisor' = NoDirective
  /\ UNCHANGED <<rows, control, OutsideSupervisor>>

(* Mutant of Merged: the reviewer is not given the new version. *)
MergedWithoutReviewer(affected, version) ==
  [n \in Nodes |->
     IF n = Reviewer \/ n \notin affected THEN node[n]
     ELSE [node[n] EXCEPT
             !.target = version,
             !.status = IF @ \in {"SUCCEEDED", "FAILED"} THEN "READY" ELSE @]]

(* A new brief version: affected nodes get it as their target, and those   *)
(* already finished are reopened.                                          *)
Merged(affected, version) ==
  [n \in Nodes |->
     IF n # Reviewer /\ n \notin affected THEN node[n]
     ELSE [node[n] EXCEPT
             !.target = version,
             !.status = IF @ \notin {"SUCCEEDED", "FAILED"} THEN @
                        ELSE IF n = Reviewer THEN "PENDING" ELSE "READY"]]

SuperviseMerge(affected) ==
  /\ supervisor # NoDirective
  /\ task' = [task EXCEPT
                !.brief = @ + 1,
                !.status = IF @ \in {"REVIEWING", "PACKAGING"} THEN "REWORKING" ELSE @]
  /\ node' = Merged(IF affected = {} THEN Producers ELSE affected, task.brief + 1)
  /\ directive' = [directive EXCEPT ![supervisor] = "MERGED"]
  /\ supervisor' = NoDirective
  /\ control' = control + 1
  /\ UNCHANGED OutsideSupervisor

(***************************************************************************)
(* The users.                                                              *)
(***************************************************************************)
(* Mutant of CancelTask: a finished task can be canceled. *)
CancelTaskAnytime ==
  /\ task' = [task EXCEPT !.cancel = TRUE, !.status = "CANCELING"]
  /\ UNCHANGED <<node, directive, control, supervisor, OutsideSupervisor>>

CancelTask ==
  /\ task.status \notin Terminal
  /\ task' = [task EXCEPT !.cancel = TRUE, !.status = "CANCELING"]
  /\ UNCHANGED <<node, directive, control, supervisor, OutsideSupervisor>>

(* Mutant of DecideApproval: the waiting node is not released. *)
DecideApprovalOnly(n) ==
  /\ n \in approvals
  /\ approvals' = approvals \ {n}
  /\ task' = [task EXCEPT !.status = "QUEUED"]
  /\ control' = control + 1
  /\ UNCHANGED <<node, directive, agentq, control_vars, session, supervisor, gate,
                 faults, reviewed>>

DecideApproval(n) ==
  /\ n \in approvals
  /\ approvals' = approvals \ {n}
  /\ node' = [node EXCEPT ![n].status = IF @ = "WAITING" THEN "READY" ELSE @]
  /\ task' = [task EXCEPT !.status = "QUEUED"]
  /\ control' = control + 1
  /\ UNCHANGED <<directive, agentq, control_vars, session, supervisor, gate, faults,
                 reviewed>>

(***************************************************************************)
(* Faults.  A late-acknowledged message is redelivered after a crash of    *)
(* its container and lost when only the worker's child process dies.       *)
(***************************************************************************)
Fault == faults < MaxFaults /\ faults' = faults + 1

ControlCrash ==
  /\ Fault
  /\ phase # "idle"
  /\ control' \in {control, control + 1}
  /\ Close
  /\ UNCHANGED <<rows, directive, approvals, agentq, session, supervisor, gate, reviewed>>

(* apply_async raises: this node is READY again, the rest stay QUEUED.     *)
SendFails(n) ==
  /\ Fault
  /\ phase = "sending" /\ n \in dispatch
  /\ node' = [node EXCEPT ![n].status = IF @ = "QUEUED" THEN "READY" ELSE @]
  /\ Close
  /\ UNCHANGED <<task, directive, approvals, control, agentq, session,
                 supervisor, gate, reviewed>>

ExecuteCrash(w) ==
  LET m == <<session[w].node, session[w].retries>>
  IN /\ Fault
     /\ ~Executing(w, "idle")
     /\ session' = [session EXCEPT ![w] = Idle]
     /\ agentq' \in {agentq, [agentq EXCEPT ![m] = @ + 1]}
     /\ UNCHANGED <<rows, directive, approvals, control, control_vars, supervisor,
                    gate, reviewed>>

(* An exception in execute_node: Celery retries the message once.          *)
ExecuteRaise(w) ==
  LET n == session[w].node
      r == session[w].retries
  IN /\ Fault
     /\ ~Executing(w, "idle")
     /\ session' = [session EXCEPT ![w] = Idle]
     /\ agentq' = IF r < MaxExecRetries
                  THEN [agentq EXCEPT ![<<n, r + 1>>] = @ + 1] ELSE agentq
     /\ UNCHANGED <<rows, directive, approvals, control, control_vars, supervisor,
                    gate, reviewed>>

(* The redelivered supervise_message finds PROCESSING and is ignored.      *)
SupervisorCrash ==
  /\ Fault
  /\ supervisor # NoDirective
  /\ supervisor' = NoDirective
  /\ UNCHANGED <<rows, directive, approvals, control, agentq, control_vars,
                 session, gate, reviewed>>

-----------------------------------------------------------------------------
Control ==
  \/ RunTask \/ ReadNodes \/ ScheduleCancel \/ ScheduleFail \/ ScheduleDelivery
  \/ GatePass \/ GateFail \/ GateRework
  \/ ScheduleDispatch \/ ScheduleWaiting \/ ScheduleRunning \/ ScheduleBlocked
  \/ \E n \in Nodes : SendExecute(n)

Take(w) ==
  \E n \in Nodes, r \in 0..MaxExecRetries :
     ExecuteStart(w, n, r) \/ ExecuteIgnore(w, n, r)

Outcome(w) == ExecuteFail(w) \/ ExecuteWait(w) \/ ExecuteAnswer(w)

Agent(w) ==
  \/ Take(w) \/ ExecuteRound(w) \/ ExecuteTools(w) \/ Outcome(w)
  \/ ExecuteClose(w) \/ ExecuteReturn(w)

Supervise ==
  \/ \E d \in Directives : SuperviseBegin(d)
  \/ SuperviseReply
  \/ \E affected \in SUBSET Nodes : SuperviseMerge(affected)

User ==
  \/ \E d \in Directives : CreateTaskMessage(d)
  \/ CancelTask
  \/ \E n \in Nodes : DecideApproval(n)

Faulty ==
  \/ ControlCrash \/ SupervisorCrash
  \/ \E n \in Nodes : SendFails(n)
  \/ \E w \in Workers : ExecuteCrash(w) \/ ExecuteRaise(w)

Next == Control \/ (\E w \in Workers : Agent(w)) \/ Supervise \/ User \/ Faulty

(* The worker processes keep taking steps.  A node's rounds are bounded    *)
(* (max_agent_rounds), so a session cannot use tools forever: strong       *)
(* fairness of its outcome.  Nothing is assumed of the users.              *)
Fairness ==
  /\ WF_vars(Control)
  /\ WF_vars(Supervise)
  /\ \A w \in Workers :
       /\ WF_vars(Take(w))
       /\ WF_vars(ExecuteRound(w))
       /\ SF_vars(Outcome(w))
       /\ WF_vars(ExecuteClose(w))
       /\ WF_vars(ExecuteReturn(w))

Spec == Init /\ [][Next]_vars
FairSpec == Spec /\ Fairness
-----------------------------------------------------------------------------
TaskRow == [status : TaskStatus, cancel : BOOLEAN,
            retries : 0..MaxReviewRetries, brief : Nat \ {0}]
NodeRow == [status : NodeStatus, attempt : 0..MaxAttempts, rework : BOOLEAN,
            target : Nat \ {0}, applied : Nat \ {0}]
SessionStep == {"idle", "round", "calling", "closing", "returning"}

(* Every variable keeps its type.  In particular neither the review        *)
(* branch nor the delivery gate spends more than MaxReviewRetries retries. *)
TypeOK ==
  /\ task \in TaskRow
  /\ node \in [Nodes -> NodeRow]
  /\ directive \in [Directives -> DirectiveStatus]
  /\ approvals \in SUBSET Approvable
  /\ control \in Nat
  /\ agentq \in [Messages -> Nat]
  /\ phase \in {"idle", "opened", "loaded", "gating", "sending"}
  /\ seenTask \in TaskRow
  /\ seenNode \in [Nodes -> NodeRow]
  /\ dispatch \in SUBSET Nodes
  /\ session \in [Workers -> [node : Nodes \cup {NoNode}, step : SessionStep,
                             retries : 0..MaxExecRetries, sawWaiting : BOOLEAN]]
  /\ \A w \in Workers : session[w].step # "idle" => session[w].node \in Nodes
  /\ supervisor \in Directives \cup {NoDirective}
  /\ gate \in {"unknown", "pass", "producer", "reviewer"}
  /\ faults \in 0..MaxFaults
  /\ reviewed \in SUBSET Nodes

(* A node is marked QUEUED only while its execute_node message is on the   *)
(* way: either the scheduler still has it to send or it is in the queue.   *)
(* A QUEUED node without a message would never run.                        *)
QueuedHasMessage ==
  faults = 0 =>
    \A n \in Nodes :
      node[n].status = "QUEUED" => n \in dispatch \/ agentq[<<n, 0>>] > 0

Executions(n) ==
  {<<"session", w>> :
      w \in {v \in Workers : session[v].node = n /\ session[v].step # "returning"}}
    \cup {<<"queue", m>> : m \in {k \in Messages : k[1] = n /\ agentq[k] > 0}}
    \cup {<<"dispatch", d>> : d \in dispatch \cap {n}}

(* No process failed and no brief update was merged so far.  A redelivered *)
(* message may start a node that is READY; an update merged during the     *)
(* review reopens a producer, which a rework then sends back to READY      *)
(* while it is running.                                                    *)
Undisturbed == faults = 0 /\ task.brief = 1

(* A node is executed by one agent worker at a time: there is at most one  *)
(* message for it or session that has yet to write its result, so two      *)
(* never write its row and its files.  Retries, reworks, approvals and     *)
(* cancellations never lead to a second execution.                         *)
SingleExecution ==
  Undisturbed =>
    \A n \in Nodes :
      /\ Cardinality(Executions(n)) <= 1
      /\ \A k \in Messages : k[1] = n => agentq[k] <= 1

(* A task never has more than MaxConcurrent nodes queued, running or       *)
(* waiting (max_concurrent_agents_per_task).                               *)
WithinConcurrency ==
  Undisturbed =>
    Cardinality(InStatus(node, {"QUEUED", "RUNNING", "WAITING"})) <= MaxConcurrent

Starts(n) == node[n].status # "RUNNING" /\ node'[n].status = "RUNNING"

(* A rework makes all the nodes it sends back READY at once: from then on  *)
(* no producer waits for them.                                             *)
SentBack(n, d) == task.retries > 0 /\ n # Reviewer /\ d \in DependsOn[Reviewer]

(* A node starts only when every node it depends on has succeeded; the     *)
(* reviewer after a rework, too, and every producer on its first run.      *)
DependencyOrder ==
  [][Undisturbed =>
       \A n \in Nodes : Starts(n) =>
         \A d \in DependsOn[n] : node[d].status = "SUCCEEDED" \/ SentBack(n, d)]_vars

Delivers == task.status # "SUCCEEDED" /\ task'.status = "SUCCEEDED"

(* A task is delivered only when the reviewer's successful run started     *)
(* after the last execution of every producer had finished.                *)
DeliveredWorkIsReviewed == [][Undisturbed /\ Delivers => Producers \subseteq reviewed]_vars

(* A task that ended stays ended, except that a cancellation requested     *)
(* while it was failing or being delivered may still turn it CANCELED, and *)
(* that an approval asked for or answered after the end reopens it.        *)
TerminalIsFinal ==
  [][Undisturbed /\ task.status \in Terminal =>
       \/ task'.status = task.status
       \/ task.cancel /\ task'.status = "CANCELED"
       \/ \E w \in Workers : ExecuteWait(w)
       \/ \E n \in Nodes : DecideApproval(n)]_vars

(* Brief versions are handed down in order: no node has applied more than  *)
(* it was given, and the reviewer is always given the newest.              *)
BriefOrder ==
  /\ \A n \in Nodes : node[n].applied <= node[n].target /\ node[n].target <= task.brief
  /\ node[Reviewer].target = task.brief

(* A delivery covers every requirement that was merged when the scheduling *)
(* pass that delivers read the task, in every node it was merged into.     *)
DeliveryCoversBriefItRead ==
  [][Delivers =>
       /\ \A n \in Nodes : node[n].applied >= seenNode[n].target
       /\ node[Reviewer].applied >= seenTask.brief]_vars

(* How the revision stands for its owner.                                  *)
Ending ==
  CASE task.status = "SUCCEEDED" -> "delivered"
    [] task.status = "FAILED" -> "failed"
    [] task.status = "CANCELED" -> "canceled"
    [] OTHER -> "open"

Promise == INSTANCE Revision WITH
  outcome <- Ending,
  done <- InStatus(node, {"SUCCEEDED"}),
  failed <- InStatus(node, {"FAILED"}),
  reworks <- task.retries,
  asked <- task.cancel

(* Without faults and messages the workers carry a revision out as module  *)
(* Revision promises: nodes start in order, the task is delivered complete *)
(* and reviewed, given up only for a reason, and never reopened then.      *)
RevisionAsPromised == Promise!Spec

(* Every task ends: delivered, failed or canceled.                         *)
EveryTaskEnds == <>(task.status \in Terminal)

(* A task that has not ended is never left alone for good: there is an     *)
(* approval request the users can answer.                                  *)
EndsUnlessUserIsAsked == []<>(task.status \in Terminal \/ approvals # {})

(* A node that was given a new brief version takes it over at its next     *)
(* safe checkpoint, unless the task ends first (docs/architecture.md:73).  *)
BriefReachesNodes ==
  \A n \in Nodes :
    node[n].applied < node[n].target
      ~> (node[n].applied = node[n].target \/ task.status \in Terminal)
=============================================================================
