--------------------------- MODULE SchedulerProofs ---------------------------
(***************************************************************************)
(* Proofs about Scheduler for every plan, worker count and bound.          *)
(***************************************************************************)
EXTENDS Scheduler, FiniteSetTheorems, TLAPS

Nodes0 == [Nodes -> NodeRow]

-----------------------------------------------------------------------------
(* The operators of _schedule_plan keep the rows' types.                   *)
LEMMA WithStatusType ==
  ASSUME NEW ns \in Nodes0, NEW S, NEW st \in NodeStatus
  PROVE  WithStatus(ns, S, st) \in Nodes0
BY DEF WithStatus, Nodes0, NodeRow

(* The column updates of the agents and the users.                         *)
LEMMA RowStatus ==
  ASSUME NEW ns \in Nodes0, NEW n \in Nodes, NEW st \in NodeStatus
  PROVE  [ns EXCEPT ![n].status = st] \in Nodes0
BY DEF Nodes0, NodeRow

LEMMA RowVerdict ==
  ASSUME NEW ns \in Nodes0, NEW n \in Nodes, NEW st \in NodeStatus, NEW b \in BOOLEAN
  PROVE  [ns EXCEPT ![n].status = st, ![n].rework = b] \in Nodes0
BY DEF Nodes0, NodeRow

LEMMA RowAttempt ==
  ASSUME NEW ns \in Nodes0, NEW n \in Nodes, NEW st \in NodeStatus,
         NEW k \in 0..MaxAttempts
  PROVE  [ns EXCEPT ![n].status = st, ![n].attempt = k] \in Nodes0
BY DEF Nodes0, NodeRow

LEMMA RowApplied ==
  ASSUME NEW ns \in Nodes0, NEW n \in Nodes, NEW v \in Nat \ {0}
  PROVE  [ns EXCEPT ![n].applied = v] \in Nodes0
BY DEF Nodes0, NodeRow

LEMMA RowTarget ==
  ASSUME NEW r \in NodeRow, NEW st \in NodeStatus, NEW v \in Nat \ {0}
  PROVE  [r EXCEPT !.target = v, !.status = st] \in NodeRow
BY DEF NodeRow

LEMMA MessageAdded ==
  ASSUME NEW q \in [Messages -> Nat], NEW m \in Messages
  PROVE  [q EXCEPT ![m] = @ + 1] \in [Messages -> Nat]
OBVIOUS

LEMMA TaskUpdate ==
  ASSUME NEW t \in TaskRow, NEW st \in TaskStatus, NEW v \in Nat \ {0}
  PROVE  [t EXCEPT !.brief = v, !.status = st] \in TaskRow
BY DEF TaskRow

LEMMA SendBackType ==
  ASSUME NEW ns \in Nodes0
  PROVE  SendBack(ns) \in Nodes0
<1>1. WithStatus(ns, DependsOn[Reviewer], "READY") \in Nodes0
  BY WithStatusType DEF NodeStatus
<1> QED
  BY <1>1, WithStatusType DEF SendBack, NodeStatus

LEMMA PromotedType ==
  ASSUME NEW t, NEW ns \in Nodes0
  PROVE  Promoted(t, ns) \in Nodes0
<1> DEFINE base == IF ReworkDue(t, ns) THEN SendBack(ns) ELSE ns
<1>1. base \in Nodes0
  BY SendBackType
<1> HIDE DEF base
<1>2. WithStatus(base, Retryable(base) \cup Unblocked(base), "READY") \in Nodes0
  BY <1>1, WithStatusType DEF NodeStatus
<1> QED
  BY <1>2 DEF Promoted, base

LEMMA CommitNodesType ==
  ASSUME TypeOK, NEW ns \in Nodes0, CommitNodes(ns)
  PROVE  node' \in Nodes0
BY DEF CommitNodes, TypeOK, Nodes0, NodeRow

LEMMA CommitTaskType ==
  ASSUME TypeOK, NEW st \in TaskStatus, NEW k \in 0..MaxReviewRetries,
         NEW flushed \in BOOLEAN, CommitTask(st, k, flushed)
  PROVE  task' \in TaskRow
BY DEF CommitTask, TypeOK, TaskRow

LEMMA CopyType ==
  ASSUME TypeOK
  PROVE  /\ Copy \in Nodes0
         /\ Reworks \in BOOLEAN
         /\ CopyRetries \in 0..MaxReviewRetries
<1>1. Copy \in Nodes0
  BY PromotedType DEF Copy, TypeOK, Nodes0
<1>2. Reworks \in BOOLEAN
  BY DEF Reworks, ReworkDue
<1>3. CopyRetries \in 0..MaxReviewRetries
  BY BoundsAreNaturals DEF CopyRetries, Reworks, ReworkDue, TypeOK, TaskRow
<1> QED
  BY <1>1, <1>2, <1>3
-----------------------------------------------------------------------------
LEMMA TypeInit == Init => TypeOK
BY PlanIsValid, BoundsAreNaturals
   DEF Init, TypeOK, InitTask, InitNode, Idle, Messages, TaskRow, NodeRow, TaskStatus,
       NodeStatus, DirectiveStatus, SessionStep, MaxAttempts, MaxExecRetries

LEMMA CloseType ==
  ASSUME TypeOK, Close
  PROVE  /\ phase' = "idle" /\ seenTask' \in TaskRow /\ seenNode' \in Nodes0
         /\ dispatch' = {}
BY BoundsAreNaturals
   DEF Close, InitTask, InitNode, Nodes0, NodeRow, TaskRow, TaskStatus, NodeStatus,
       MaxAttempts

(* The control worker's actions write task, node and its own variables.    *)
LEMMA ControlType ==
  ASSUME TypeOK, Control
  PROVE  TypeOK'
<1> USE DEF OutsideControl, OutsideGate, rows, Nodes0
<1>1. CASE RunTask
  BY <1>1 DEF RunTask, TypeOK
<1>2. CASE ReadNodes
  BY <1>2 DEF ReadNodes, TypeOK
<1>3. CASE ScheduleCancel
  <2> DEFINE S == Nodes \ InStatus(seenNode, {"SUCCEEDED", "FAILED"})
  <2>1. WithStatus(seenNode, S, "CANCELED") \in Nodes0
    BY WithStatusType DEF TypeOK, NodeStatus
  <2>2. node' \in Nodes0
    BY <1>3, <2>1, CommitNodesType DEF ScheduleCancel
  <2>3. task' \in TaskRow
    BY <1>3, CommitTaskType DEF ScheduleCancel, TypeOK, TaskRow, TaskStatus
  <2> QED
    BY <1>3, <2>2, <2>3, CloseType DEF ScheduleCancel, TypeOK
<1>4. CASE ScheduleFail
  <2>1. node' \in Nodes0 /\ task' \in TaskRow
    BY <1>4, CopyType, CommitNodesType, CommitTaskType DEF ScheduleFail, TaskStatus
  <2> QED
    BY <1>4, <2>1, CloseType DEF ScheduleFail, TypeOK
<1>5. CASE ScheduleDelivery
  <2> DEFINE back == WithStatus(seenNode, Stale(seenNode), "READY")
             ns == WithStatus(back, Stale(seenNode) \cap {Reviewer}, "PENDING")
  <2>1. back \in Nodes0
    BY WithStatusType DEF TypeOK, NodeStatus
  <2>2. ns \in Nodes0
    <3> HIDE DEF back
    <3> QED  BY <2>1, WithStatusType DEF NodeStatus
  <2> HIDE DEF ns
  <2>3. CASE Close /\ UNCHANGED rows
    BY <1>5, <2>3, CloseType DEF ScheduleDelivery, TypeOK
  <2>4. CASE CommitNodes(ns) /\ UNCHANGED task /\ Close
    BY <1>5, <2>2, <2>4, CommitNodesType, CloseType DEF ScheduleDelivery, TypeOK
  <2>5. CASE phase' = "gating" /\ UNCHANGED <<rows, seenTask, seenNode, dispatch>>
    BY <1>5, <2>5 DEF ScheduleDelivery, TypeOK
  <2> QED
    BY <1>5, <2>3, <2>4, <2>5 DEF ScheduleDelivery, ns
<1>6. CASE GatePass
  <2>1. task' \in TaskRow
    BY <1>6, CommitTaskType DEF GatePass, TypeOK, TaskRow, TaskStatus
  <2> QED
    BY <1>6, <2>1, CloseType DEF GatePass, Verdict, TypeOK
<1>7. CASE GateFail
  <2>1. task' \in TaskRow
    BY <1>7, CommitTaskType DEF GateFail, TypeOK, TaskRow, TaskStatus
  <2> QED
    BY <1>7, <2>1, CloseType DEF GateFail, Verdict, TypeOK
<1>8. CASE GateRework
  <2>1. seenTask.retries + 1 \in 0..MaxReviewRetries
    BY <1>8, BoundsAreNaturals DEF GateRework, TypeOK, TaskRow
  <2>2. task' \in TaskRow /\ seenTask' \in TaskRow
    BY <1>8, <2>1, CommitTaskType DEF GateRework, TypeOK, TaskRow, TaskStatus
  <2>3. PICK issue \in {"producer", "reviewer"} :
          LET ns == IF issue = "producer" THEN SendBack(seenNode)
                    ELSE WithStatus(seenNode, {Reviewer}, "READY")
          IN  Verdict(issue) /\ CommitNodes(ns) /\ seenNode' = ns
    BY <1>8 DEF GateRework
  <2>4. seenNode' \in Nodes0
    BY <2>3, SendBackType, WithStatusType DEF TypeOK, NodeStatus
  <2>5. node' \in Nodes0
    BY <2>3, <2>4, CommitNodesType
  <2> QED
    BY <1>8, <2>2, <2>3, <2>4, <2>5 DEF GateRework, Verdict, TypeOK
<1>9. CASE ScheduleDispatch
  <2>1. PICK B \in Batches(Copy) \ {{}} :
          /\ CommitTask(IF B \subseteq {Reviewer} THEN "REVIEWING" ELSE "RUNNING",
                        CopyRetries, Reworks)
          /\ CommitNodes(WithStatus(Copy, B, "QUEUED"))
          /\ dispatch' = B
    BY <1>9 DEF ScheduleDispatch
  <2>2. WithStatus(Copy, B, "QUEUED") \in Nodes0
    BY CopyType, WithStatusType DEF NodeStatus
  <2>3. node' \in Nodes0
    BY <2>1, <2>2, CommitNodesType
  <2>4. task' \in TaskRow
    BY <2>1, CopyType, CommitTaskType DEF TaskStatus
  <2>5. dispatch' \in SUBSET Nodes
    BY <2>1 DEF Batches, InStatus
  <2>6. seenTask' \in TaskRow /\ seenNode' \in Nodes0
    BY <1>9, BoundsAreNaturals
       DEF ScheduleDispatch, InitTask, InitNode, TaskRow, NodeRow, TaskStatus, NodeStatus,
           MaxAttempts
  <2> QED
    BY <1>9, <2>3, <2>4, <2>5, <2>6 DEF ScheduleDispatch, TypeOK
<1>10. CASE ScheduleWaiting
  <2>1. node' \in Nodes0 /\ task' \in TaskRow
    BY <1>10, CopyType, CommitNodesType, CommitTaskType DEF ScheduleWaiting, TaskStatus
  <2> QED
    BY <1>10, <2>1, CloseType DEF ScheduleWaiting, TypeOK
<1>11. CASE ScheduleRunning
  BY <1>11, CloseType DEF ScheduleRunning, TypeOK
<1>12. CASE ScheduleBlocked
  <2>1. node' \in Nodes0 /\ task' \in TaskRow
    BY <1>12, CopyType, CommitNodesType, CommitTaskType DEF ScheduleBlocked, TaskStatus
  <2> QED
    BY <1>12, <2>1, CloseType DEF ScheduleBlocked, TypeOK
<1>13. ASSUME NEW n \in Nodes, SendExecute(n)
       PROVE  TypeOK'
  BY <1>13 DEF SendExecute, TypeOK, Messages, MaxExecRetries
<1> QED
  BY <1>1, <1>2, <1>3, <1>4, <1>5, <1>6, <1>7, <1>8, <1>9, <1>10, <1>11, <1>12, <1>13
     DEF Control

LEMMA AgentType ==
  ASSUME TypeOK, NEW w \in Workers, Agent(w)
  PROVE  TypeOK'
<1> USE DEF OutsideAgent, Untouched, control_vars, rows
<1> DEFINE n == session[w].node
<1>0. /\ session[w].step # "idle" => n \in Nodes
      /\ Idle \in [node : Nodes \cup {NoNode}, step : SessionStep,
                   retries : 0..MaxExecRetries, sawWaiting : BOOLEAN]
  BY DEF TypeOK, Idle, SessionStep, MaxExecRetries
<1>1. ASSUME NEW m \in Nodes, NEW k \in 0..MaxExecRetries, ExecuteStart(w, m, k)
      PROVE  TypeOK'
  <2>1. node' \in [Nodes -> NodeRow]
    <3> DEFINE tries == IF node[m].attempt < MaxAttempts THEN node[m].attempt + 1
                             ELSE node[m].attempt
    <3>1. tries \in 0..MaxAttempts
      BY DEF TypeOK, NodeRow, MaxAttempts
    <3>2. node' = [node EXCEPT ![m].status = "RUNNING", ![m].attempt = tries]
      BY <1>1 DEF ExecuteStart, TypeOK, NodeRow
    <3> HIDE DEF tries
    <3> QED
      BY <3>1, <3>2, RowAttempt DEF TypeOK, Nodes0, NodeStatus
  <2>2. agentq' \in [Messages -> Nat]
    BY <1>1 DEF ExecuteStart, Receive, TypeOK, Messages
  <2>3. reviewed' \in SUBSET Nodes
    BY <1>1 DEF ExecuteStart, TypeOK, InStatus
  <2>4. /\ session' \in [Workers -> [node : Nodes \cup {NoNode}, step : SessionStep,
                                    retries : 0..MaxExecRetries, sawWaiting : BOOLEAN]]
        /\ \A v \in Workers : session'[v].step # "idle" => session'[v].node \in Nodes
    BY <1>1 DEF ExecuteStart, TypeOK, SessionStep
  <2> QED
    BY <1>1, <2>1, <2>2, <2>3, <2>4 DEF ExecuteStart, TypeOK
<1>2. ASSUME NEW m \in Nodes, NEW k \in 0..MaxExecRetries, ExecuteIgnore(w, m, k)
      PROVE  TypeOK'
  BY <1>2 DEF ExecuteIgnore, Receive, TypeOK, Messages
<1>3. CASE ExecuteRound(w)
  <2>1. n \in Nodes
    BY <1>0, <1>3 DEF ExecuteRound, Executing
  <2>2. node' \in [Nodes -> NodeRow]
    <3>1. node[n].target \in Nat \ {0} /\ node \in Nodes0
      BY <2>1 DEF TypeOK, NodeRow, Nodes0
    <3>2. \/ node' = [node EXCEPT ![n].status = "CANCELED"]
          \/ node' = [node EXCEPT ![n].applied = node[n].target]
      BY <1>3 DEF ExecuteRound, Applied
    <3> HIDE DEF n
    <3>3. [node EXCEPT ![n].status = "CANCELED"] \in Nodes0
      BY <2>1, <3>1, RowStatus DEF NodeStatus
    <3>4. [node EXCEPT ![n].applied = node[n].target] \in Nodes0
      BY <2>1, <3>1, RowApplied
    <3> QED
      BY <3>2, <3>3, <3>4 DEF Nodes0
  <2>3. /\ session' \in [Workers -> [node : Nodes \cup {NoNode}, step : SessionStep,
                                    retries : 0..MaxExecRetries, sawWaiting : BOOLEAN]]
        /\ \A v \in Workers : session'[v].step # "idle" => session'[v].node \in Nodes
    BY <1>3, <2>1 DEF ExecuteRound, Step, TypeOK, SessionStep
  <2> QED
    BY <1>3, <2>2, <2>3 DEF ExecuteRound, TypeOK
<1>4. CASE ExecuteTools(w)
  <2>1. n \in Nodes
    BY <1>0, <1>4 DEF ExecuteTools, Executing
  <2> QED
    BY <1>4, <2>1 DEF ExecuteTools, Step, TypeOK, SessionStep
<1>5. CASE ExecuteFail(w)
  <2>1. n \in Nodes
    BY <1>0, <1>5 DEF ExecuteFail, Executing
  <2>2. node' \in [Nodes -> NodeRow]
    BY <1>5, <2>1 DEF ExecuteFail, SetStatus, TypeOK, NodeRow, NodeStatus
  <2> QED
    BY <1>5, <2>1, <2>2 DEF ExecuteFail, Step, TypeOK, SessionStep
<1>6. CASE ExecuteWait(w)
  <2>1. n \in Nodes
    BY <1>0, <1>6 DEF ExecuteWait, Executing
  <2>2. node' \in [Nodes -> NodeRow]
    <3>1. node' = [node EXCEPT ![n].status = "WAITING"]
      BY <1>6 DEF ExecuteWait
    <3> HIDE DEF n
    <3> QED
      BY <2>1, <3>1, RowStatus DEF TypeOK, Nodes0, NodeStatus
  <2>3. task' \in TaskRow
    BY <1>6 DEF ExecuteWait, TypeOK, TaskRow, TaskStatus
  <2>4. approvals' \in SUBSET Approvable
    BY <1>6 DEF ExecuteWait, TypeOK
  <2>5. /\ session' \in [Workers -> [node : Nodes \cup {NoNode}, step : SessionStep,
                                    retries : 0..MaxExecRetries, sawWaiting : BOOLEAN]]
        /\ \A v \in Workers : session'[v].step # "idle" => session'[v].node \in Nodes
    BY <1>0, <1>6 DEF ExecuteWait, TypeOK, Idle
  <2> QED
    BY <1>6, <2>2, <2>3, <2>4, <2>5 DEF ExecuteWait, TypeOK
<1>7. CASE ExecuteAnswer(w)
  <2>1. n \in Nodes
    BY <1>0, <1>7 DEF ExecuteAnswer, Executing
  <2>2. node' \in [Nodes -> NodeRow]
    BY <1>7, <2>1 DEF ExecuteAnswer, Applied, TypeOK, NodeRow
  <2> QED
    BY <1>7, <2>1, <2>2 DEF ExecuteAnswer, Step, TypeOK, SessionStep
<1>8. CASE ExecuteClose(w)
  <2>1. n \in Nodes
    BY <1>0, <1>8 DEF ExecuteClose, Executing
  <2>2. node' \in [Nodes -> NodeRow]
    <3>1. PICK st \in NodeStatus, b \in BOOLEAN :
            node' = [node EXCEPT ![n].status = st, ![n].rework = b]
      BY <1>8 DEF ExecuteClose, SetStatus, NodeStatus
    <3> HIDE DEF n
    <3>2. [node EXCEPT ![n].status = st, ![n].rework = b] \in Nodes0
      BY <2>1, RowVerdict DEF TypeOK, Nodes0
    <3> QED
      BY <3>1, <3>2 DEF Nodes0
  <2> QED
    BY <1>8, <2>1, <2>2 DEF ExecuteClose, Step, TypeOK, SessionStep
<1>9. CASE ExecuteReturn(w)
  BY <1>0, <1>9 DEF ExecuteReturn, TypeOK, Idle
<1> QED
  BY <1>1, <1>2, <1>3, <1>4, <1>5, <1>6, <1>7, <1>8, <1>9 DEF Agent, Take, Outcome

LEMMA SuperviseType ==
  ASSUME TypeOK, Supervise
  PROVE  TypeOK'
<1> USE DEF OutsideSupervisor, control_vars, rows
<1>1. ASSUME NEW d \in Directives, SuperviseBegin(d)
      PROVE  TypeOK'
  BY <1>1 DEF SuperviseBegin, TypeOK, DirectiveStatus
<1>2. CASE SuperviseReply
  BY <1>2 DEF SuperviseReply, TypeOK, DirectiveStatus
<1>3. ASSUME NEW affected \in SUBSET Nodes, SuperviseMerge(affected)
      PROVE  TypeOK'
  <2>1. \A S : Merged(S, task.brief + 1) \in [Nodes -> NodeRow]
    <3> SUFFICES ASSUME NEW S, NEW n \in Nodes
                 PROVE  Merged(S, task.brief + 1)[n] \in NodeRow
      BY DEF Merged
    <3> DEFINE st == IF node[n].status \notin {"SUCCEEDED", "FAILED"} THEN node[n].status
                     ELSE IF n = Reviewer THEN "PENDING" ELSE "READY"
    <3>1. st \in NodeStatus /\ task.brief + 1 \in Nat \ {0} /\ node[n] \in NodeRow
      BY DEF TypeOK, TaskRow, NodeRow, NodeStatus
    <3>2. \/ Merged(S, task.brief + 1)[n] = node[n]
          \/ Merged(S, task.brief + 1)[n]
               = [node[n] EXCEPT !.target = task.brief + 1, !.status = st]
      BY <3>1 DEF Merged, NodeRow
    <3> HIDE DEF st
    <3>3. [node[n] EXCEPT !.target = task.brief + 1, !.status = st] \in NodeRow
      BY <3>1, RowTarget
    <3> QED
      BY <3>1, <3>2, <3>3
  <2>2. task' \in TaskRow
    <3> DEFINE st == IF task.status \in {"REVIEWING", "PACKAGING"} THEN "REWORKING"
                     ELSE task.status
    <3>1. st \in TaskStatus /\ task.brief + 1 \in Nat \ {0} /\ task \in TaskRow
      BY DEF TypeOK, TaskRow, TaskStatus
    <3>2. task' = [task EXCEPT !.brief = task.brief + 1, !.status = st]
      BY <1>3, <3>1 DEF SuperviseMerge, TaskRow
    <3> HIDE DEF st
    <3> QED
      BY <3>1, <3>2, TaskUpdate
  <2>3. directive' \in [Directives -> DirectiveStatus]
    BY <1>3 DEF SuperviseMerge, TypeOK, DirectiveStatus
  <2> QED
    BY <1>3, <2>1, <2>2, <2>3 DEF SuperviseMerge, TypeOK
<1> QED
  BY <1>1, <1>2, <1>3 DEF Supervise

LEMMA UserType ==
  ASSUME TypeOK, User
  PROVE  TypeOK'
<1> USE DEF OutsideSupervisor, control_vars, rows
<1>1. ASSUME NEW d \in Directives, CreateTaskMessage(d)
      PROVE  TypeOK'
  BY <1>1 DEF CreateTaskMessage, TypeOK, DirectiveStatus
<1>2. CASE CancelTask
  <2>1. task' \in TaskRow
    BY <1>2 DEF CancelTask, TypeOK, TaskRow, TaskStatus
  <2> QED
    BY <1>2, <2>1 DEF CancelTask, TypeOK
<1>3. ASSUME NEW n \in Nodes, DecideApproval(n)
      PROVE  TypeOK'
  <2>1. task' \in TaskRow
    BY <1>3 DEF DecideApproval, TypeOK, TaskRow, TaskStatus
  <2>2. node' \in [Nodes -> NodeRow]
    BY <1>3 DEF DecideApproval, TypeOK, NodeRow, NodeStatus
  <2> QED
    BY <1>3, <2>1, <2>2 DEF DecideApproval, TypeOK
<1> QED
  BY <1>1, <1>2, <1>3 DEF User

LEMMA FaultyType ==
  ASSUME TypeOK, Faulty
  PROVE  TypeOK'
<1> USE DEF control_vars, rows
<1>0. Fault => faults' \in 0..MaxFaults
  BY BoundsAreNaturals DEF Fault, TypeOK
<1>1. CASE ControlCrash
  BY <1>0, <1>1, CloseType DEF ControlCrash, TypeOK, Nodes0
<1>2. CASE SupervisorCrash
  BY <1>0, <1>2 DEF SupervisorCrash, TypeOK
<1>3. ASSUME NEW n \in Nodes, SendFails(n)
      PROVE  TypeOK'
  <2>1. node' \in [Nodes -> NodeRow]
    BY <1>3 DEF SendFails, TypeOK, NodeRow, NodeStatus
  <2> QED
    BY <1>0, <1>3, <2>1, CloseType DEF SendFails, TypeOK, Nodes0
<1>4. ASSUME NEW w \in Workers, ExecuteCrash(w) \/ ExecuteRaise(w)
      PROVE  TypeOK'
  <2>1. session[w].node \in Nodes
    BY <1>4 DEF ExecuteCrash, ExecuteRaise, Executing, TypeOK
  <2>2. agentq' \in [Messages -> Nat]
    <3> DEFINE n == session[w].node
               k == session[w].retries
    <3>1. k \in 0..MaxExecRetries
      BY DEF TypeOK
    <3>2. \/ agentq' = agentq
          \/ agentq' = [agentq EXCEPT ![<<n, k>>] = @ + 1]
          \/ k < MaxExecRetries /\ agentq' = [agentq EXCEPT ![<<n, k + 1>>] = @ + 1]
      BY <1>4 DEF ExecuteCrash, ExecuteRaise
    <3> HIDE DEF n, k
    <3>3. <<n, k>> \in Messages /\ (k < MaxExecRetries => <<n, k + 1>> \in Messages)
      BY <2>1, <3>1 DEF Messages, MaxExecRetries, n
    <3> QED
      BY <3>2, <3>3, MessageAdded DEF TypeOK
  <2>3. /\ session' \in [Workers -> [node : Nodes \cup {NoNode}, step : SessionStep,
                                    retries : 0..MaxExecRetries, sawWaiting : BOOLEAN]]
        /\ \A v \in Workers : session'[v].step # "idle" => session'[v].node \in Nodes
    <3>1. session' = [session EXCEPT ![w] = Idle]
      BY <1>4 DEF ExecuteCrash, ExecuteRaise
    <3> QED
      BY <3>1 DEF TypeOK, Idle, SessionStep, MaxExecRetries
  <2> QED
    BY <1>0, <1>4, <2>2, <2>3 DEF ExecuteCrash, ExecuteRaise, TypeOK
<1> QED
  BY <1>1, <1>2, <1>3, <1>4 DEF Faulty

LEMMA TypeNext == TypeOK /\ [Next]_vars => TypeOK'
<1> SUFFICES ASSUME TypeOK, [Next]_vars  PROVE TypeOK'
  OBVIOUS
<1>1. CASE UNCHANGED vars
  BY <1>1 DEF vars, TypeOK
<1> QED
  BY <1>1, ControlType, AgentType, SuperviseType, UserType, FaultyType DEF Next

(* Every variable keeps its type; in particular no pass spends more than   *)
(* MaxReviewRetries review retries and no queue loses a message it does    *)
(* not hold.                                                               *)
THEOREM TypeCorrect == Spec => []TypeOK
  BY TypeInit, TypeNext, PTL DEF Spec
-----------------------------------------------------------------------------
(***************************************************************************)
(* Brief versions.  What a pass read only grows while it works: the        *)
(* task's version and what each node has applied.  A pass reads the task   *)
(* before the nodes, so the reviewer's target it sees is at least the      *)
(* version it saw.                                                         *)
(***************************************************************************)
ReadVersions ==
  /\ phase \in {"opened", "loaded", "gating"} => seenTask.brief <= task.brief
  /\ phase \in {"loaded", "gating"} =>
       /\ seenTask.brief <= seenNode[Reviewer].target
       /\ \A n \in Nodes : seenNode[n].applied <= node[n].applied
  /\ phase = "gating" => \A n \in Nodes : seenNode[n].target <= seenNode[n].applied

Versions == BriefOrder /\ ReadVersions

VersionsKept ==
  /\ task'.brief = task.brief
  /\ \A n \in Nodes : node'[n].target = node[n].target /\ node'[n].applied = node[n].applied

LEMMA VersionTypes ==
  ASSUME TypeOK
  PROVE  /\ task.brief \in Nat /\ seenTask.brief \in Nat
         /\ \A n \in Nodes : /\ node[n].target \in Nat /\ node[n].applied \in Nat
                            /\ seenNode[n].target \in Nat /\ seenNode[n].applied \in Nat
         /\ Reviewer \in Nodes
BY PlanIsValid DEF TypeOK, TaskRow, NodeRow

LEMMA CommitKeepsVersions ==
  ASSUME TypeOK, NEW ns, CommitNodes(ns), NEW st, NEW k, NEW flushed,
         CommitTask(st, k, flushed) \/ UNCHANGED task
  PROVE  VersionsKept
BY DEF CommitNodes, CommitTask, VersionsKept, TypeOK, TaskRow, NodeRow

LEMMA WithStatusVersions ==
  ASSUME NEW ns \in Nodes0, NEW S, NEW st, NEW n \in Nodes
  PROVE  /\ WithStatus(ns, S, st)[n].target = ns[n].target
         /\ WithStatus(ns, S, st)[n].applied = ns[n].applied
BY DEF WithStatus, Nodes0, NodeRow

LEMMA SendBackVersions ==
  ASSUME NEW ns \in Nodes0, NEW n \in Nodes
  PROVE  SendBack(ns)[n].target = ns[n].target /\ SendBack(ns)[n].applied = ns[n].applied
<1>1. WithStatus(ns, DependsOn[Reviewer], "READY") \in Nodes0
  BY WithStatusType DEF NodeStatus
<1> QED
  BY <1>1, WithStatusVersions DEF SendBack

LEMMA VersionsControl ==
  ASSUME TypeOK, Versions, Control
  PROVE  Versions'
<1> USE VersionTypes DEF OutsideControl, OutsideGate, rows
<1>1. CASE RunTask
  BY <1>1 DEF RunTask, Versions, BriefOrder, ReadVersions
<1>2. CASE ReadNodes
  BY <1>2 DEF ReadNodes, Versions, BriefOrder, ReadVersions
<1>3. ASSUME VersionsKept, phase' \in {"idle", "sending"}
      PROVE  Versions'
  BY <1>3 DEF VersionsKept, Versions, BriefOrder, ReadVersions
<1>4. CASE ScheduleCancel \/ ScheduleFail \/ ScheduleWaiting \/ ScheduleBlocked \/ ScheduleDispatch
  <2>1. VersionsKept
    BY <1>4, CommitKeepsVersions
       DEF ScheduleCancel, ScheduleFail, ScheduleWaiting, ScheduleBlocked, ScheduleDispatch
  <2>2. phase' \in {"idle", "sending"}
    BY <1>4 DEF ScheduleCancel, ScheduleFail, ScheduleWaiting, ScheduleBlocked,
                ScheduleDispatch, Close
  <2> QED
    BY <1>3, <2>1, <2>2
<1>5. CASE ScheduleDelivery
  <2>1. CASE Close
    <3>1. VersionsKept
      BY <1>5, <2>1, CommitKeepsVersions DEF ScheduleDelivery, VersionsKept, Close
    <3> QED
      BY <1>3, <2>1, <3>1 DEF Close
  <2>2. CASE /\ Stale(seenNode) = {}
             /\ phase' = "gating"
             /\ UNCHANGED <<rows, seenTask, seenNode, dispatch>>
    <3>1. \A n \in Nodes : seenNode[n].target <= seenNode[n].applied
      BY <2>2 DEF Stale
    <3> QED
      BY <1>5, <2>2, <3>1 DEF ScheduleDelivery, Versions, BriefOrder, ReadVersions
  <2> QED
    BY <1>5, <2>1, <2>2 DEF ScheduleDelivery
<1>6. CASE GatePass \/ GateFail
  <2>1. VersionsKept
    BY <1>6 DEF GatePass, GateFail, CommitTask, VersionsKept, TypeOK, TaskRow
  <2>2. phase' = "idle"
    BY <1>6 DEF GatePass, GateFail, Close
  <2> QED
    BY <1>3, <2>1, <2>2
<1>7. CASE GateRework
  <2>1. PICK issue \in {"producer", "reviewer"} :
          LET ns == IF issue = "producer" THEN SendBack(seenNode)
                    ELSE WithStatus(seenNode, {Reviewer}, "READY")
          IN  Verdict(issue) /\ CommitNodes(ns) /\ seenNode' = ns
    BY <1>7 DEF GateRework
  <2>2. VersionsKept
    BY <1>7, <2>1, CommitKeepsVersions DEF GateRework
  <2>3. \A n \in Nodes : /\ seenNode'[n].target = seenNode[n].target
                       /\ seenNode'[n].applied = seenNode[n].applied
    BY <2>1, SendBackVersions, WithStatusVersions DEF TypeOK, Nodes0
  <2>4. phase = "gating" /\ phase' = "loaded" /\ seenTask'.brief = seenTask.brief
    BY <1>7 DEF GateRework, TypeOK, TaskRow
  <2> QED
    BY <2>2, <2>3, <2>4 DEF VersionsKept, Versions, BriefOrder, ReadVersions
<1>8. CASE ScheduleRunning
  BY <1>3, <1>8 DEF ScheduleRunning, Close, VersionsKept
<1>9. ASSUME NEW n \in Nodes, SendExecute(n)
      PROVE  Versions'
  <2>1. VersionsKept /\ phase' \in {"idle", "sending"}
    BY <1>9 DEF SendExecute, VersionsKept
  <2> QED
    BY <1>3, <2>1
<1> QED
  BY <1>1, <1>2, <1>4, <1>5, <1>6, <1>7, <1>8, <1>9 DEF Control

(* Agents and users leave the pass alone; versions only grow under them.   *)
LEMMA VersionsGrow ==
  ASSUME TypeOK, Versions, TypeOK', UNCHANGED control_vars, BriefOrder',
         task'.brief >= task.brief,
         \A n \in Nodes : node'[n].applied >= node[n].applied
  PROVE  Versions'
BY VersionTypes DEF Versions, ReadVersions, control_vars, TypeOK, TaskRow, NodeRow

LEMMA VersionsAgent ==
  ASSUME TypeOK, TypeOK', Versions, NEW w \in Workers, Agent(w)
  PROVE  Versions'
<1> USE VersionTypes DEF OutsideAgent, Untouched, control_vars, rows
<1>1. task'.brief = task.brief /\ UNCHANGED control_vars
  BY DEF Agent, Take, Outcome, ExecuteStart, ExecuteIgnore, ExecuteRound, ExecuteTools,
         ExecuteFail, ExecuteWait, ExecuteAnswer, ExecuteClose, ExecuteReturn, TypeOK, TaskRow
<1>2. \A n \in Nodes : /\ node'[n].target = node[n].target
                     /\ node'[n].applied \in {node[n].applied, node[n].target}
  <2>1. CASE \E m \in Nodes, k \in 0..MaxExecRetries : ExecuteStart(w, m, k) \/ ExecuteIgnore(w, m, k)
    BY <2>1 DEF ExecuteStart, ExecuteIgnore, TypeOK, NodeRow
  <2>2. CASE ExecuteRound(w)
    <3>1. CASE task.cancel
      BY <2>2, <3>1 DEF ExecuteRound, TypeOK, NodeRow
    <3>2. CASE ~task.cancel
      <4>1. node' = Applied(session[w].node)
        BY <2>2, <3>2 DEF ExecuteRound
      <4> QED
        BY <4>1 DEF Applied, TypeOK, NodeRow
    <3> QED
      BY <3>1, <3>2
  <2>3. CASE ExecuteAnswer(w)
    <3>1. node' = Applied(session[w].node)
      BY <2>3 DEF ExecuteAnswer
    <3> QED
      BY <3>1 DEF Applied, TypeOK, NodeRow
  <2>4. CASE ExecuteTools(w) \/ ExecuteReturn(w)
    BY <2>4 DEF ExecuteTools, ExecuteReturn
  <2>5. CASE ExecuteFail(w) \/ ExecuteWait(w) \/ ExecuteClose(w)
    BY <2>5 DEF ExecuteFail, ExecuteWait, ExecuteClose, SetStatus, TypeOK, NodeRow
  <2> QED
    BY <2>1, <2>2, <2>3, <2>4, <2>5 DEF Agent, Take, Outcome
<1>3. BriefOrder' /\ \A n \in Nodes : node'[n].applied >= node[n].applied
  BY <1>1, <1>2 DEF Versions, BriefOrder
<1> QED
  BY <1>1, <1>3, VersionsGrow

LEMMA VersionsSupervise ==
  ASSUME TypeOK, TypeOK', Versions, Supervise
  PROVE  Versions'
<1> USE VersionTypes DEF OutsideSupervisor, control_vars, rows
<1>1. CASE SuperviseReply \/ \E d \in Directives : SuperviseBegin(d)
  BY <1>1 DEF SuperviseReply, SuperviseBegin, Versions, BriefOrder, ReadVersions
<1>2. ASSUME NEW affected \in SUBSET Nodes, SuperviseMerge(affected)
      PROVE  Versions'
  <2>1. task'.brief = task.brief + 1 /\ UNCHANGED control_vars
    BY <1>2 DEF SuperviseMerge, TypeOK, TaskRow
  <2>2. PICK S : node' = Merged(S, task.brief + 1)
    BY <1>2 DEF SuperviseMerge
  <2>3. ASSUME NEW n \in Nodes
        PROVE  /\ node'[n].applied = node[n].applied
               /\ node'[n].target \in {node[n].target, task.brief + 1}
               /\ n = Reviewer => node'[n].target = task.brief + 1
    BY <2>2 DEF Merged, TypeOK, NodeRow
  <2>4. BriefOrder'
    BY <2>1, <2>3 DEF Versions, BriefOrder
  <2> QED
    BY <2>1, <2>3, <2>4, VersionsGrow
<1> QED
  BY <1>1, <1>2 DEF Supervise

LEMMA VersionsUser ==
  ASSUME TypeOK, TypeOK', Versions, User
  PROVE  Versions'
<1>1. UNCHANGED control_vars
  BY DEF User, CreateTaskMessage, CancelTask, DecideApproval, OutsideSupervisor, control_vars
<1>2. VersionsKept
  <2>1. CASE \E d \in Directives : CreateTaskMessage(d)
    BY <2>1 DEF CreateTaskMessage, rows, VersionsKept
  <2>2. CASE CancelTask
    BY <2>2 DEF CancelTask, VersionsKept, TypeOK, TaskRow
  <2>3. ASSUME NEW n \in Nodes, DecideApproval(n)
        PROVE  VersionsKept
    BY <2>3 DEF DecideApproval, VersionsKept, TypeOK, TaskRow, NodeRow
  <2> QED
    BY <2>1, <2>2, <2>3 DEF User
<1> QED
  BY <1>1, <1>2, VersionTypes DEF VersionsKept, Versions, BriefOrder, ReadVersions, control_vars

LEMMA VersionsFaulty ==
  ASSUME TypeOK, TypeOK', Versions, Faulty
  PROVE  Versions'
<1>1. UNCHANGED control_vars \/ phase' = "idle"
  BY DEF Faulty, ControlCrash, SupervisorCrash, SendFails, ExecuteCrash, ExecuteRaise, Close,
         control_vars
<1>2. VersionsKept
  <2>1. ASSUME NEW n \in Nodes, SendFails(n)
        PROVE  VersionsKept
    BY <2>1 DEF SendFails, VersionsKept, TypeOK, NodeRow
  <2> QED
    BY <2>1 DEF Faulty, ControlCrash, SupervisorCrash, ExecuteCrash, ExecuteRaise, rows,
                VersionsKept
<1> QED
  BY <1>1, <1>2, VersionTypes DEF VersionsKept, Versions, BriefOrder, ReadVersions, control_vars

LEMMA VersionsNext == TypeOK /\ TypeOK' /\ Versions /\ [Next]_vars => Versions'
<1> SUFFICES ASSUME TypeOK, TypeOK', Versions, [Next]_vars  PROVE Versions'
  OBVIOUS
<1>1. CASE UNCHANGED vars
  BY <1>1 DEF vars, Versions, BriefOrder, ReadVersions
<1> QED
  BY <1>1, VersionsControl, VersionsAgent, VersionsSupervise, VersionsUser, VersionsFaulty
     DEF Next

LEMMA VersionsInit == Init => Versions
BY PlanIsValid DEF Init, InitTask, InitNode, Versions, BriefOrder, ReadVersions

(* What a scheduling pass works on only falls behind the rows, it never    *)
(* gets ahead of them, and it takes up the task's brief before the nodes'. *)
THEOREM VersionsCorrect == Spec => [](TypeOK /\ Versions)
<1>1. Init => TypeOK /\ Versions
  BY TypeInit, VersionsInit
<1>2. (TypeOK /\ Versions) /\ [Next]_vars => (TypeOK /\ Versions)'
  BY TypeNext, VersionsNext
<1> QED
  BY <1>1, <1>2, PTL DEF Spec

(* Brief versions are handed down in order: no node has applied more than  *)
(* it was given, and the reviewer is always given the newest.              *)
THEOREM BriefOrderCorrect == Spec => []BriefOrder
<1>1. Versions => BriefOrder
  BY DEF Versions
<1> QED
  BY <1>1, VersionsCorrect, PTL

-----------------------------------------------------------------------------
(* Only GatePass writes SUCCEEDED.                                         *)
LEMMA OnlyGatePassDelivers ==
  ASSUME TypeOK, [Next]_vars, Delivers
  PROVE  GatePass
<1> USE DEF Delivers, rows, TypeOK, TaskRow
<1>0. ASSUME NEW st \in TaskStatus \ {"SUCCEEDED"}, NEW k, NEW flushed, CommitTask(st, k, flushed)
      PROVE  FALSE
  BY <1>0 DEF CommitTask
<1>1. CASE Control
  <2>1. CASE ScheduleCancel
    BY <1>0, <2>1 DEF ScheduleCancel, TaskStatus
  <2>2. CASE ScheduleFail
    BY <1>0, <2>2 DEF ScheduleFail, TaskStatus
  <2>3. CASE ScheduleDispatch
    BY <1>0, <2>3 DEF ScheduleDispatch, TaskStatus
  <2>4. CASE ScheduleWaiting
    BY <1>0, <2>4 DEF ScheduleWaiting, TaskStatus
  <2>5. CASE ScheduleBlocked
    BY <1>0, <2>5 DEF ScheduleBlocked, TaskStatus
  <2>6. CASE GateFail
    BY <1>0, <2>6 DEF GateFail, TaskStatus
  <2>7. CASE GateRework
    BY <1>0, <2>7 DEF GateRework, TaskStatus
  <2> QED
    BY <1>1, <2>1, <2>2, <2>3, <2>4, <2>5, <2>6, <2>7
       DEF Control, RunTask, ReadNodes, ScheduleDelivery, ScheduleRunning, SendExecute,
           OutsideControl
<1>2. CASE \E w \in Workers : Agent(w)
  BY <1>2 DEF Agent, Take, Outcome, ExecuteStart, ExecuteIgnore, ExecuteRound, ExecuteTools,
              ExecuteFail, ExecuteWait, ExecuteAnswer, ExecuteClose, ExecuteReturn
<1>3. CASE Supervise \/ User \/ Faulty
  BY <1>3 DEF Supervise, SuperviseBegin, SuperviseReply, SuperviseMerge, User,
              CreateTaskMessage, CancelTask, DecideApproval, Faulty, ControlCrash,
              SupervisorCrash, SendFails, ExecuteCrash, ExecuteRaise
<1> QED
  BY <1>1, <1>2, <1>3 DEF Next, vars

(* A delivery covers every requirement that was merged when the scheduling *)
(* pass that delivers read the task, in every node it was merged into.     *)
THEOREM DeliveryCorrect == Spec => DeliveryCoversBriefItRead
<1> DEFINE Covers == Delivers =>
             /\ \A n \in Nodes : node[n].applied >= seenNode[n].target
             /\ node[Reviewer].applied >= seenTask.brief
<1>1. TypeOK /\ Versions /\ [Next]_vars => Covers
  <2> SUFFICES ASSUME TypeOK, Versions, [Next]_vars, Delivers
               PROVE  /\ \A n \in Nodes : node[n].applied >= seenNode[n].target
                      /\ node[Reviewer].applied >= seenTask.brief
    OBVIOUS
  <2>1. phase = "gating"
    BY OnlyGatePassDelivers DEF GatePass
  <2> QED
    BY <2>1, VersionTypes DEF Versions, ReadVersions
<1>2. [](TypeOK /\ Versions) /\ [][Next]_vars => [][Covers]_vars
  BY <1>1, PTL
<1> QED
  BY <1>2, VersionsCorrect, PTL DEF Spec, DeliveryCoversBriefItRead
-----------------------------------------------------------------------------
(***************************************************************************)
(* Messages of queued nodes.  QueuedHasMessage needs that the scheduler    *)
(* has nothing left to send except while it is sending.                    *)
(***************************************************************************)
DispatchOnlySending == phase # "sending" => dispatch = {}

QueueInv == DispatchOnlySending /\ QueuedHasMessage

LEMMA QueuedByWithStatus ==
  ASSUME NEW ns, NEW S, NEW st, st # "QUEUED", NEW n \in Nodes,
         ns \in Nodes0, WithStatus(ns, S, st)[n].status = "QUEUED"
  PROVE  ns[n].status = "QUEUED"
BY DEF WithStatus, Nodes0, NodeRow

LEMMA QueuedBySendBack ==
  ASSUME NEW ns \in Nodes0, NEW n \in Nodes, SendBack(ns)[n].status = "QUEUED"
  PROVE  ns[n].status = "QUEUED"
<1>1. WithStatus(ns, DependsOn[Reviewer], "READY") \in Nodes0
  BY WithStatusType DEF NodeStatus
<1> QED
  BY <1>1, QueuedByWithStatus DEF SendBack

LEMMA QueuedByPromotion ==
  ASSUME NEW t, NEW ns \in Nodes0, NEW n \in Nodes, Promoted(t, ns)[n].status = "QUEUED"
  PROVE  ns[n].status = "QUEUED"
<1> DEFINE base == IF ReworkDue(t, ns) THEN SendBack(ns) ELSE ns
<1>1. base \in Nodes0
  BY SendBackType
<1>2. Promoted(t, ns) = WithStatus(base, Retryable(base) \cup Unblocked(base), "READY")
  BY DEF Promoted
<1>3. base[n].status = "QUEUED"
  <2> HIDE DEF base
  <2> QED
    BY <1>1, <1>2, QueuedByWithStatus
<1> QED
  BY <1>3, QueuedBySendBack

(* A commit queues only the nodes the pass itself dispatches.              *)
LEMMA CommitQueues ==
  ASSUME TypeOK, NEW ns, CommitNodes(ns), NEW n \in Nodes,
         node'[n].status = "QUEUED", ns[n].status # "QUEUED" \/ seenNode[n].status = "QUEUED"
  PROVE  node[n].status = "QUEUED"
BY DEF CommitNodes, TypeOK, NodeRow

(* Nothing of what these steps write can leave a queued node without its   *)
(* message.                                                                *)
LEMMA QueueKept ==
  ASSUME QueueInv, faults' = faults, agentq' = agentq,
         \/ UNCHANGED <<phase, dispatch>>
         \/ phase # "sending" /\ (phase' # "sending" => dispatch' = {}),
         \A n \in Nodes : node'[n].status = "QUEUED" => node[n].status = "QUEUED" \/ n \in dispatch'
  PROVE  QueueInv'
BY DEF QueueInv, DispatchOnlySending, QueuedHasMessage

LEMMA QueueControl ==
  ASSUME TypeOK, QueueInv, Control
  PROVE  QueueInv'
<1> USE DEF OutsideControl, OutsideGate, rows
<1>0. seenNode \in Nodes0 /\ Copy \in Nodes0
  BY CopyType DEF TypeOK, Nodes0
<1>1. \A n \in Nodes : Copy[n].status = "QUEUED" => seenNode[n].status = "QUEUED"
  BY <1>0, QueuedByPromotion DEF Copy
<1>2. CASE RunTask \/ ReadNodes
  BY <1>2, QueueKept DEF RunTask, ReadNodes, QueueInv, DispatchOnlySending
<1>3. CASE ScheduleCancel
  <2>1. \A n \in Nodes : node'[n].status = "QUEUED" => node[n].status = "QUEUED"
    BY <1>0, <1>3, CommitQueues, QueuedByWithStatus DEF ScheduleCancel
  <2> QED
    BY <1>3, <2>1, QueueKept DEF ScheduleCancel, Close
<1>4. CASE ScheduleFail \/ ScheduleWaiting \/ ScheduleBlocked
  <2>1. CommitNodes(Copy) /\ phase = "loaded" /\ Close /\ UNCHANGED OutsideControl
    BY <1>4 DEF ScheduleFail, ScheduleWaiting, ScheduleBlocked, Dispatchable
  <2>2. \A n \in Nodes : node'[n].status = "QUEUED" => node[n].status = "QUEUED"
    BY <1>1, <2>1, CommitQueues
  <2> QED
    BY <2>1, <2>2, QueueKept DEF Close
<1>5. CASE ScheduleDispatch
  <2>1. PICK B \in Batches(Copy) \ {{}} :
          CommitNodes(WithStatus(Copy, B, "QUEUED")) /\ dispatch' = B
    BY <1>5 DEF ScheduleDispatch
  <2>2. ASSUME NEW n \in Nodes \ B, node'[n].status = "QUEUED"
        PROVE  node[n].status = "QUEUED"
    <3>1. WithStatus(Copy, B, "QUEUED")[n] = Copy[n]
      BY DEF WithStatus
    <3> QED
      BY <1>1, <2>1, <2>2, <3>1, CommitQueues
  <2>3. phase = "loaded" /\ phase' = "sending" /\ UNCHANGED OutsideControl
    BY <1>5 DEF ScheduleDispatch, Dispatchable
  <2> QED
    BY <2>1, <2>2, <2>3, QueueKept
<1>6. CASE ScheduleDelivery
  <2>1. \A n \in Nodes : node'[n].status = "QUEUED" => node[n].status = "QUEUED"
    <3>1. CASE UNCHANGED rows
      BY <3>1
    <3>2. CASE CommitNodes(WithStatus(WithStatus(seenNode, Stale(seenNode), "READY"),
                                      Stale(seenNode) \cap {Reviewer}, "PENDING"))
      <4>1. WithStatus(seenNode, Stale(seenNode), "READY") \in Nodes0
        BY <1>0, WithStatusType DEF NodeStatus
      <4> QED
        BY <1>0, <3>2, <4>1, CommitQueues, QueuedByWithStatus
    <3> QED
      BY <1>6, <3>1, <3>2 DEF ScheduleDelivery
  <2> QED
    BY <1>6, <2>1, QueueKept
       DEF ScheduleDelivery, Close, QueueInv, DispatchOnlySending
<1>7. CASE GatePass \/ GateFail
  BY <1>7, QueueKept DEF GatePass, GateFail, Close
<1>8. CASE GateRework
  <2>1. PICK ns \in {SendBack(seenNode), WithStatus(seenNode, {Reviewer}, "READY")} :
          CommitNodes(ns)
    BY <1>8 DEF GateRework
  <2>2. \A n \in Nodes : ns[n].status = "QUEUED" => seenNode[n].status = "QUEUED"
    BY <1>0, <2>1, QueuedBySendBack, QueuedByWithStatus
  <2>3. \A n \in Nodes : node'[n].status = "QUEUED" => node[n].status = "QUEUED"
    BY <2>1, <2>2, CommitQueues
  <2>4. phase = "gating" /\ phase' = "loaded" /\ UNCHANGED <<dispatch, OutsideGate>>
    BY <1>8 DEF GateRework
  <2> QED
    BY <2>3, <2>4, QueueKept DEF QueueInv, DispatchOnlySending
<1>9. CASE ScheduleRunning
  BY <1>9, QueueKept DEF ScheduleRunning, Dispatchable, Close
<1>10. ASSUME NEW n \in Nodes, SendExecute(n)
       PROVE  QueueInv'
  <2> DEFINE m == <<n, 0>>
  <2>1. m \in Messages /\ agentq[m] \in Nat
    BY DEF Messages, TypeOK, MaxExecRetries
  <2>2. agentq'[m] = agentq[m] + 1
    BY <1>10, <2>1 DEF SendExecute, TypeOK
  <2>3. \A k \in Messages : k # m => agentq'[k] = agentq[k]
    BY <1>10 DEF SendExecute, TypeOK
  <2>4. ASSUME NEW i \in Nodes, i \in dispatch \/ agentq[<<i, 0>>] > 0
        PROVE  i \in dispatch' \/ agentq'[<<i, 0>>] > 0
    <3>1. CASE i = n
      BY <2>1, <2>2, <3>1
    <3>2. CASE i # n
      <4>1. <<i, 0>> \in Messages /\ <<i, 0>> # m
        BY <3>2 DEF Messages, MaxExecRetries
      <4> QED
        BY <1>10, <2>3, <2>4, <3>2, <4>1 DEF SendExecute
    <3> QED
      BY <3>1, <3>2
  <2>5. UNCHANGED <<node, faults>> /\ (phase' # "sending" => dispatch' = {})
    BY <1>10 DEF SendExecute
  <2> QED
    BY <2>4, <2>5 DEF QueueInv, DispatchOnlySending, QueuedHasMessage
<1> QED
  BY <1>2, <1>3, <1>4, <1>5, <1>6, <1>7, <1>8, <1>9, <1>10 DEF Control

(* Agent workers take the message out of the queue when they start a node, *)
(* which then is RUNNING, or ignore it, and then it was not QUEUED.        *)
LEMMA QueueAgent ==
  ASSUME TypeOK, QueueInv, NEW w \in Workers, Agent(w)
  PROVE  QueueInv'
<1> USE DEF OutsideAgent, Untouched, control_vars, rows
<1>1. CASE ExecuteTools(w) \/ ExecuteReturn(w)
  BY <1>1, QueueKept DEF ExecuteTools, ExecuteReturn
<1>2. CASE ExecuteRound(w)
  <2>1. \A n \in Nodes : node'[n].status = "QUEUED" => node[n].status = "QUEUED"
    <3>1. CASE task.cancel
      BY <1>2, <3>1 DEF ExecuteRound, TypeOK, NodeRow
    <3>2. CASE ~task.cancel
      <4>1. node' = Applied(session[w].node)
        BY <1>2, <3>2 DEF ExecuteRound
      <4> QED
        BY <4>1 DEF Applied, TypeOK, NodeRow
    <3> QED
      BY <3>1, <3>2
  <2>2. UNCHANGED <<faults, agentq, phase, dispatch>>
    BY <1>2 DEF ExecuteRound
  <2> QED
    BY <2>1, <2>2, QueueKept
<1>3. CASE ExecuteAnswer(w)
  <2>1. node' = Applied(session[w].node) /\ UNCHANGED <<faults, agentq, phase, dispatch>>
    BY <1>3 DEF ExecuteAnswer
  <2>2. \A n \in Nodes : node'[n].status = "QUEUED" => node[n].status = "QUEUED"
    BY <2>1 DEF Applied, TypeOK, NodeRow
  <2> QED
    BY <2>1, <2>2, QueueKept
<1>4. CASE ExecuteFail(w) \/ ExecuteWait(w) \/ ExecuteClose(w)
  <2>1. \A n \in Nodes : node'[n].status = "QUEUED" => node[n].status = "QUEUED"
    BY <1>4 DEF ExecuteFail, ExecuteWait, ExecuteClose, SetStatus, TypeOK, NodeRow
  <2>2. UNCHANGED <<faults, agentq, phase, dispatch>>
    BY <1>4 DEF ExecuteFail, ExecuteWait, ExecuteClose
  <2> QED
    BY <2>1, <2>2, QueueKept
<1>5. ASSUME NEW m \in Nodes, NEW r \in 0..MaxExecRetries, Receive(w, m, r)
      PROVE  \A n \in Nodes : n # m => agentq'[<<n, 0>>] = agentq[<<n, 0>>]
  <2> SUFFICES ASSUME NEW n \in Nodes, n # m
               PROVE  agentq'[<<n, 0>>] = agentq[<<n, 0>>]
    OBVIOUS
  <2>1. <<n, 0>> \in Messages /\ <<n, 0>> # <<m, r>>
    BY DEF Messages, MaxExecRetries
  <2> QED
    BY <1>5, <2>1 DEF Receive, TypeOK
<1>6. ASSUME NEW m \in Nodes, NEW r \in 0..MaxExecRetries,
             ExecuteStart(w, m, r) \/ ExecuteIgnore(w, m, r)
      PROVE  QueueInv'
  <2>1. \A n \in Nodes : n # m => agentq'[<<n, 0>>] = agentq[<<n, 0>>]
    BY <1>5, <1>6 DEF ExecuteStart, ExecuteIgnore
  <2>2. UNCHANGED <<faults, phase, dispatch>>
    BY <1>6 DEF ExecuteStart, ExecuteIgnore
  <2>3. \A n \in Nodes : node'[n].status = "QUEUED" => n # m /\ node[n].status = "QUEUED"
    BY <1>6 DEF ExecuteStart, ExecuteIgnore, Startable, TypeOK, NodeRow
  <2> QED
    BY <2>1, <2>2, <2>3 DEF QueueInv, DispatchOnlySending, QueuedHasMessage
<1> QED
  BY <1>1, <1>2, <1>3, <1>4, <1>6 DEF Agent, Take, Outcome

LEMMA QueueOthers ==
  ASSUME TypeOK, QueueInv, Supervise \/ User
  PROVE  QueueInv'
<1> USE DEF OutsideSupervisor, control_vars, rows
<1>1. UNCHANGED <<faults, agentq, phase, dispatch>>
  BY DEF Supervise, SuperviseBegin, SuperviseReply, SuperviseMerge, User,
         CreateTaskMessage, CancelTask, DecideApproval
<1>2. \A n \in Nodes : node'[n].status = "QUEUED" => node[n].status = "QUEUED"
  <2>1. ASSUME NEW affected \in SUBSET Nodes, SuperviseMerge(affected), NEW n \in Nodes,
               node'[n].status = "QUEUED"
        PROVE  node[n].status = "QUEUED"
    <3>1. PICK S : node' = Merged(S, task.brief + 1)
      BY <2>1 DEF SuperviseMerge
    <3> QED
      BY <2>1, <3>1 DEF Merged, TypeOK, NodeRow
  <2>2. ASSUME NEW m \in Nodes, DecideApproval(m), NEW n \in Nodes,
               node'[n].status = "QUEUED"
        PROVE  node[n].status = "QUEUED"
    BY <2>2 DEF DecideApproval, TypeOK, NodeRow
  <2> QED
    BY <2>1, <2>2 DEF Supervise, SuperviseBegin, SuperviseReply, User, CreateTaskMessage,
                      CancelTask
<1> QED
  BY <1>1, <1>2, QueueKept

(* After a fault nothing is promised, and the scheduler restarts idle.     *)
LEMMA QueueFaulty ==
  ASSUME TypeOK, QueueInv, Faulty
  PROVE  QueueInv'
<1> USE DEF control_vars, Close
<1>1. faults' # 0
  <2>1. Fault
    BY DEF Faulty, ControlCrash, SupervisorCrash, SendFails, ExecuteCrash, ExecuteRaise
  <2> QED
    BY <2>1, BoundsAreNaturals DEF Fault, TypeOK
<1>2. DispatchOnlySending'
  BY DEF Faulty, ControlCrash, SupervisorCrash, SendFails, ExecuteCrash, ExecuteRaise,
         QueueInv, DispatchOnlySending
<1> QED
  BY <1>1, <1>2 DEF QueueInv, QueuedHasMessage

LEMMA QueueNext == TypeOK /\ QueueInv /\ [Next]_vars => QueueInv'
<1> SUFFICES ASSUME TypeOK, QueueInv, [Next]_vars  PROVE QueueInv'
  OBVIOUS
<1>1. CASE UNCHANGED vars
  BY <1>1 DEF vars, QueueInv, DispatchOnlySending, QueuedHasMessage
<1> QED
  BY <1>1, QueueControl, QueueAgent, QueueOthers, QueueFaulty DEF Next

(* Without faults a QUEUED node always has its execute_node message: the   *)
(* scheduler commits QUEUED only for what it goes on to send, and no other *)
(* writer of the column queues a node.                                     *)
THEOREM QueuedHasMessageCorrect == Spec => []QueuedHasMessage
<1>1. Init => QueueInv
  BY DEF Init, InitNode, QueueInv, DispatchOnlySending, QueuedHasMessage
<1>2. QueueInv => QueuedHasMessage
  BY DEF QueueInv
<1> QED
  BY <1>1, <1>2, QueueNext, TypeCorrect, PTL DEF Spec
-----------------------------------------------------------------------------
(***************************************************************************)
(* Who has a node.  SingleExecution and WithinConcurrency rest on one      *)
(* invariant, Calm: each node is in at most one hand (still to be sent, in *)
(* the queue, or on a worker), its status says so, and what the present    *)
(* pass read of a node that was in no hand is still true of it, because    *)
(* only a pass gives nodes out.  A review comes after the last result of   *)
(* everything it reads, hence a rework takes back no node from a worker.   *)
(***************************************************************************)
ActiveStatus == {"QUEUED", "RUNNING", "WAITING"}

OnWorker(n) ==
  \E w \in Workers : session[w].node = n /\ session[w].step \notin {"idle", "returning"}

(* The messages for a first try and for Celery's retry.                    *)
Queued(n) == agentq[<<n, 0>>]
Retried(n) == agentq[<<n, 1>>]

Held(n) == n \in dispatch \/ Queued(n) > 0 \/ OnWorker(n)

(* The cancellation is known to every pass from here on.                   *)
Canceling ==
  /\ task.cancel
  /\ phase \in {"opened", "loaded", "gating"} => seenTask.cancel

ReviewInOrder(ns) ==
  ns[Reviewer].status \notin {"PENDING", "CANCELED", "RETRYING"} =>
    \A d \in DependsOn[Reviewer] : ns[d].status = "SUCCEEDED"

OneHolder ==
  /\ \A w \in Workers : session[w].step = "idle" => session[w].node = NoNode
  /\ \A v, w \in Workers :
       /\ session[v].node = session[w].node
       /\ session[v].step \notin {"idle", "returning"}
       /\ session[w].step \notin {"idle", "returning"}
       => v = w
  /\ dispatch # {} => phase = "sending"
  /\ \A n \in Nodes :
       /\ Retried(n) = 0 /\ Queued(n) \in {0, 1}
       /\ n \in dispatch => Queued(n) = 0 /\ ~OnWorker(n)
       /\ Queued(n) = 1 => ~OnWorker(n)

HeldStatus ==
  \A n \in Nodes :
    /\ n \in dispatch \/ Queued(n) = 1 =>
         node[n].status = "QUEUED" \/ (node[n].status = "CANCELED" /\ Canceling)
    /\ OnWorker(n) =>
         node[n].status = "RUNNING" \/ (node[n].status = "CANCELED" /\ Canceling)

CopiesFresh ==
  phase \in {"loaded", "gating"} /\ ~seenTask.cancel =>
    /\ ReviewInOrder(seenNode)
    /\ \A n \in Nodes :
         seenNode[n].status \notin ActiveStatus =>
           node[n].status = seenNode[n].status /\ ~Held(n)

PassInOrder ==
  /\ seenTask.cancel => task.cancel
  /\ phase = "gating" => AllSucceeded(seenNode) /\ ~seenTask.cancel

FirstBrief ==
  \A n \in Nodes :
    /\ node[n].target = 1 /\ node[n].applied = 1
    /\ seenNode[n].target = 1 /\ seenNode[n].applied = 1

Busy == {n \in Nodes : node[n].status \in ActiveStatus \/ OnWorker(n)}

SlotsKept == Cardinality(Busy) <= MaxConcurrent

Calm ==
  /\ OneHolder /\ HeldStatus /\ CopiesFresh /\ PassInOrder /\ FirstBrief /\ SlotsKept
  /\ Canceling \/ ReviewInOrder(node)

LEMMA NodeParts ==
  ASSUME TypeOK
  PROVE  /\ Reviewer \in Nodes /\ DependsOn[Reviewer] \subseteq Nodes
         /\ node \in Nodes0 /\ seenNode \in Nodes0
         /\ dispatch \subseteq Nodes
         /\ \A n \in Nodes : Queued(n) \in Nat /\ Retried(n) \in Nat
         /\ \A w \in Workers : session[w].step # "idle" => session[w].node \in Nodes
BY PlanIsValid DEF TypeOK, Nodes0, Messages, MaxExecRetries, Producers, Queued, Retried

LEMMA BusyIsFinite ==
  ASSUME NEW S, S \subseteq Nodes, NEW T, T \subseteq S
  PROVE  IsFiniteSet(S) /\ Cardinality(S) \in Nat /\ Cardinality(T) \in Nat
         /\ Cardinality(T) <= Cardinality(S)
<1>1. IsFiniteSet(Nodes)
  BY PlanIsValid
<1>2. IsFiniteSet(S)
  BY <1>1, FS_Subset
<1>3. IsFiniteSet(T) /\ Cardinality(T) <= Cardinality(S)
  BY <1>2, FS_Subset
<1> QED
  BY <1>2, <1>3, FS_CardinalityType

LEMMA FewerBusy ==
  ASSUME SlotsKept, Busy' \subseteq Busy
  PROVE  SlotsKept'
<1>1. Busy \subseteq Nodes
  BY DEF Busy
<1>2. Cardinality(Busy') <= Cardinality(Busy) /\ Cardinality(Busy) \in Nat /\ Cardinality(Busy') \in Nat
  BY <1>1, BusyIsFinite
<1> QED
  BY <1>2, BoundsAreNaturals DEF SlotsKept

-----------------------------------------------------------------------------
(* A step that gives out no node: rows of nodes that a worker lets go, and *)
(* of waiting nodes, may change.                                           *)
LEMMA QuietStep ==
  ASSUME TypeOK, Calm,
         UNCHANGED <<dispatch, phase, seenTask, seenNode, agentq>>,
         task'.cancel = task.cancel \/ task'.cancel,
         \A v \in Workers :
           /\ session'[v].step \notin {"idle", "returning"} =>
                session'[v].node = session[v].node /\ session[v].step \notin {"idle", "returning"}
           /\ session'[v].step = "idle" => session'[v].node = NoNode,
         \A n \in Nodes :
           /\ node'[n].target = 1 /\ node'[n].applied = 1
           /\ \/ node'[n].status = node[n].status
              \/ node[n].status = "WAITING" /\ node'[n].status = "READY"
              \/ OnWorker(n) /\ ~OnWorker(n)'
  PROVE  Calm'
<1> USE NodeParts
<1>1. \A n \in Nodes : OnWorker(n)' => OnWorker(n)
  BY DEF OnWorker
<1>2. Canceling => Canceling'
  BY DEF Canceling
<1>0. \A n \in Nodes : Queued(n)' = Queued(n) /\ Retried(n)' = Retried(n)
  BY DEF Queued, Retried
<1>3. OneHolder'
  BY <1>0, <1>1 DEF Calm, OneHolder
<1>4. HeldStatus'
  BY <1>0, <1>1, <1>2 DEF Calm, HeldStatus, OneHolder
<1>5. CopiesFresh'
  BY <1>0, <1>1 DEF Calm, CopiesFresh, Held, ActiveStatus
<1>6. PassInOrder' /\ FirstBrief'
  BY DEF Calm, PassInOrder, FirstBrief, AllSucceeded, InStatus
<1>7. SlotsKept'
  <2>1. Busy' \subseteq Busy
    BY <1>1 DEF Busy, ActiveStatus
  <2> QED
    BY <2>1, FewerBusy DEF Calm
<1>8. ASSUME ~Canceling'  PROVE ReviewInOrder(node)'
  <2>1. ReviewInOrder(node) /\ ~Canceling
    BY <1>2, <1>8 DEF Calm
  <2>2. \A n \in Nodes : OnWorker(n) => node[n].status = "RUNNING"
    BY <2>1 DEF Calm, HeldStatus
  <2>3. \A n \in Nodes : node[n].status = "SUCCEEDED" => node'[n].status = "SUCCEEDED"
    BY <2>2
  <2> QED
    BY <2>1, <2>2, <2>3 DEF ReviewInOrder
<1> QED
  BY <1>3, <1>4, <1>5, <1>6, <1>7, <1>8 DEF Calm

LEMMA CalmInit == Init => Calm
<1> SUFFICES ASSUME Init  PROVE Calm
  OBVIOUS
<1>1. \A n \in Nodes : Queued(n) = 0 /\ Retried(n) = 0
  <2>1. \A n \in Nodes : <<n, 0>> \in Messages /\ <<n, 1>> \in Messages
    BY DEF Messages, MaxExecRetries
  <2> QED
    BY <2>1 DEF Init, Queued, Retried
<1>2. \A w \in Workers : session[w].step = "idle" /\ session[w].node = NoNode
  BY DEF Init, Idle
<1>3. dispatch = {} /\ phase = "idle" /\ ~seenTask.cancel /\ seenNode = node
  BY DEF Init, InitTask
<1>4. \A n \in Nodes : /\ node[n].status = (IF DependsOn[n] = {} THEN "READY" ELSE "PENDING")
                       /\ node[n].target = 1 /\ node[n].applied = 1
  BY DEF Init, InitNode
<1>5. \A n \in Nodes : ~OnWorker(n)
  BY <1>2 DEF OnWorker
<1>6. OneHolder
  BY <1>1, <1>2, <1>3, <1>5 DEF OneHolder
<1>7. HeldStatus /\ CopiesFresh /\ PassInOrder /\ FirstBrief
  <2>1. HeldStatus
    BY <1>1, <1>3, <1>5 DEF HeldStatus
  <2>2. CopiesFresh /\ PassInOrder
    BY <1>3 DEF CopiesFresh, PassInOrder
  <2>3. FirstBrief
    BY <1>3, <1>4 DEF FirstBrief
  <2> QED
    BY <2>1, <2>2, <2>3
<1>8. SlotsKept
  <2>1. Busy = {}
    BY <1>4, <1>5 DEF Busy, ActiveStatus
  <2> QED
    BY <2>1, FS_EmptySet, BoundsAreNaturals DEF SlotsKept
<1>9. ReviewInOrder(node)
  <2>1. Reviewer \in Nodes
    BY PlanIsValid
  <2> QED
    BY <1>4, <2>1 DEF ReviewInOrder
<1> QED
  BY <1>6, <1>7, <1>8, <1>9 DEF Calm

-----------------------------------------------------------------------------
(* Only a merge raises the task's brief version, and only a fault counts.  *)
LEMMA WasUndisturbed ==
  ASSUME TypeOK, [Next]_vars, Undisturbed'
  PROVE  /\ Undisturbed
         /\ ~Faulty
         /\ \A affected \in SUBSET Nodes : ~SuperviseMerge(affected)
<1>1. task.brief \in Nat /\ task.brief >= 1 /\ faults \in Nat
  BY BoundsAreNaturals DEF TypeOK, TaskRow
<1>2. ~Fault
  BY <1>1 DEF Fault, Undisturbed
<1>3. ~Faulty
  BY <1>2 DEF Faulty, ControlCrash, SupervisorCrash, SendFails, ExecuteCrash, ExecuteRaise
<1>4. ASSUME NEW affected \in SUBSET Nodes, SuperviseMerge(affected)  PROVE FALSE
  <2>1. task'.brief = task.brief + 1
    BY <1>4 DEF SuperviseMerge, TypeOK, TaskRow
  <2> QED
    BY <1>1, <2>1 DEF Undisturbed
<1>5. task'.brief = task.brief /\ faults' = faults
  <2> USE DEF rows, TypeOK, TaskRow
  <2>1. CASE UNCHANGED vars
    BY <2>1 DEF vars
  <2>2. CASE Control
    BY <2>2 DEF Control, RunTask, ReadNodes, ScheduleCancel, ScheduleFail, ScheduleDelivery,
                ScheduleDispatch, ScheduleWaiting, ScheduleRunning, ScheduleBlocked, GatePass,
                GateFail, GateRework, SendExecute, CommitTask, OutsideControl, OutsideGate
  <2>3. CASE \E w \in Workers : Agent(w)
    BY <2>3 DEF Agent, Take, Outcome, ExecuteStart, ExecuteIgnore, ExecuteRound, ExecuteTools,
                ExecuteFail, ExecuteWait, ExecuteAnswer, ExecuteClose, ExecuteReturn,
                OutsideAgent
  <2>4. CASE Supervise
    BY <1>4, <2>4 DEF Supervise, SuperviseBegin, SuperviseReply, OutsideSupervisor
  <2>5. CASE User
    BY <2>5 DEF User, CreateTaskMessage, CancelTask, DecideApproval, OutsideSupervisor
  <2> QED
    BY <1>3, <2>1, <2>2, <2>3, <2>4, <2>5 DEF Next
<1> QED
  BY <1>3, <1>4, <1>5 DEF Undisturbed

LEMMA CalmUsers ==
  ASSUME TypeOK, Calm, Undisturbed', [Next]_vars, Supervise \/ User \/ UNCHANGED vars
  PROVE  Calm'
<1> USE NodeParts DEF rows, control_vars, OutsideSupervisor
<1>1. /\ \A v \in Workers : session[v].step = "idle" => session[v].node = NoNode
      /\ \A n \in Nodes : node[n].target = 1 /\ node[n].applied = 1
  BY DEF Calm, OneHolder, FirstBrief
<1>2. ASSUME UNCHANGED <<dispatch, phase, seenTask, seenNode, agentq, session, node>>,
             task' = task \/ task'.cancel
      PROVE  Calm'
  BY <1>1, <1>2, QuietStep
<1>3. CASE UNCHANGED vars
  BY <1>2, <1>3 DEF vars
<1>4. CASE Supervise
  BY <1>2, <1>4, WasUndisturbed DEF Supervise, SuperviseBegin, SuperviseReply
<1>5. ASSUME NEW d \in Directives, CreateTaskMessage(d)  PROVE Calm'
  BY <1>2, <1>5 DEF CreateTaskMessage
<1>6. CASE CancelTask
  BY <1>2, <1>6 DEF CancelTask, TypeOK, TaskRow
<1>7. ASSUME NEW n \in Nodes, DecideApproval(n)  PROVE Calm'
  <2>1. UNCHANGED <<dispatch, phase, seenTask, seenNode, agentq, session>>
        /\ task'.cancel = task.cancel
    BY <1>7 DEF DecideApproval, TypeOK, TaskRow
  <2>2. node' = [node EXCEPT ![n].status = IF node[n].status = "WAITING" THEN "READY"
                                           ELSE node[n].status]
    BY <1>7 DEF DecideApproval
  <2>3. \A m \in Nodes :
          /\ node'[m].target = 1 /\ node'[m].applied = 1
          /\ \/ node'[m].status = node[m].status
             \/ node[m].status = "WAITING" /\ node'[m].status = "READY"
    BY <1>1, <2>2 DEF Nodes0, NodeRow
  <2> QED
    BY <1>1, <2>1, <2>3, QuietStep
<1> QED
  BY <1>3, <1>4, <1>5, <1>6, <1>7 DEF User

(* What the steps of a session after its start have in common: only its    *)
(* own node is written, and only when the session lets it go.              *)
LEMMA SessionStepKeepsCalm ==
  ASSUME TypeOK, Calm, NEW w \in Workers, NEW n, n = session[w].node, n \in Nodes,
         session[w].step \notin {"idle", "returning"},
         UNCHANGED <<agentq, OutsideAgent>>, task'.cancel = task.cancel,
         \A v \in Workers : v # w => session'[v] = session[v],
         session'[w] = Idle \/ (session'[w].node = n /\ session'[w].step # "idle"),
         \A m \in Nodes : /\ node'[m].target = 1 /\ node'[m].applied = 1
                          /\ m # n => node'[m].status = node[m].status,
         node'[n].status = node[n].status \/ session'[w].step \in {"idle", "returning"}
  PROVE  Calm'
<1>1. /\ \A v \in Workers : session[v].step = "idle" => session[v].node = NoNode
      /\ \A v, u \in Workers :
           /\ session[v].node = session[u].node
           /\ session[v].step \notin {"idle", "returning"}
           /\ session[u].step \notin {"idle", "returning"}
           => v = u
  BY DEF Calm, OneHolder
<1>2. \A v \in Workers :
        /\ session'[v].step \notin {"idle", "returning"} =>
             session'[v].node = session[v].node /\ session[v].step \notin {"idle", "returning"}
        /\ session'[v].step = "idle" => session'[v].node = NoNode
  BY <1>1 DEF Idle
<1>3. OnWorker(n)
  BY DEF OnWorker
<1>4. session'[w].step \in {"idle", "returning"} => ~OnWorker(n)'
  BY <1>1 DEF OnWorker
<1>5. \A m \in Nodes :
        /\ node'[m].target = 1 /\ node'[m].applied = 1
        /\ \/ node'[m].status = node[m].status
           \/ node[m].status = "WAITING" /\ node'[m].status = "READY"
           \/ OnWorker(m) /\ ~OnWorker(m)'
  BY <1>3, <1>4
<1>6. UNCHANGED <<dispatch, phase, seenTask, seenNode, agentq>>
  BY DEF OutsideAgent, control_vars
<1> QED
  BY <1>2, <1>5, <1>6, QuietStep

(* A worker takes a message: it starts the node, which then is in its hand *)
(* instead of the queue's, or ignores the message.                         *)
LEMMA CalmTake ==
  ASSUME TypeOK, Calm, NEW w \in Workers, NEW n \in Nodes, NEW r \in 0..MaxExecRetries,
         ExecuteStart(w, n, r) \/ ExecuteIgnore(w, n, r)
  PROVE  Calm'
<1>0. \A m \in Nodes : <<m, 0>> \in Messages /\ <<m, 1>> \in Messages
  BY DEF Messages, MaxExecRetries
<1> USE NodeParts
<1>1. r = 0 /\ Queued(n) = 1
  <2>1. (r = 0 /\ Queued(n) > 0) \/ (r = 1 /\ Retried(n) > 0)
    BY DEF ExecuteStart, ExecuteIgnore, Receive, MaxExecRetries, Queued, Retried
  <2>2. Retried(n) = 0 /\ Queued(n) \in {0, 1}
    BY DEF Calm, OneHolder
  <2> QED
    BY <2>1, <2>2
<1>2. /\ Queued(n)' = 0 /\ Retried(n)' = 0
      /\ \A m \in Nodes : m # n => /\ Queued(m)' = Queued(m)
                                   /\ Retried(m)' = Retried(m)
  <2>1. agentq' = [agentq EXCEPT ![<<n, 0>>] = agentq[<<n, 0>>] - 1]
    BY <1>1 DEF ExecuteStart, ExecuteIgnore, Receive
  <2>2. agentq \in [Messages -> Nat] /\ Retried(n) = 0
    BY DEF TypeOK, Calm, OneHolder
  <2> QED
    BY <1>0, <1>1, <2>1, <2>2 DEF Queued, Retried
<1>3. n \notin dispatch /\ ~OnWorker(n)
      /\ (node[n].status = "QUEUED" \/ (node[n].status = "CANCELED" /\ Canceling))
  BY <1>1 DEF Calm, OneHolder, HeldStatus
<1>4. UNCHANGED <<dispatch, phase, seenTask, seenNode, task>>
  BY DEF ExecuteStart, ExecuteIgnore, OutsideAgent, control_vars, rows
<1>5. PassInOrder' /\ (Canceling' <=> Canceling)
  BY <1>4 DEF Calm, PassInOrder, Canceling, AllSucceeded, InStatus
<1>6. CASE ExecuteIgnore(w, n, r)
  <2>1. UNCHANGED <<node, session>>
    BY <1>6 DEF ExecuteIgnore, rows
  <2>2. \A m \in Nodes : OnWorker(m)' <=> OnWorker(m)
    BY <2>1 DEF OnWorker
  <2>3. OneHolder'
    BY <1>2, <1>3, <1>4, <2>1, <2>2 DEF Calm, OneHolder
  <2>4. HeldStatus'
    BY <1>2, <1>4, <1>5, <2>1, <2>2 DEF Calm, HeldStatus
  <2>5. CopiesFresh'
    BY <1>2, <1>4, <2>1, <2>2 DEF Calm, CopiesFresh, Held, ReviewInOrder
  <2>6. FirstBrief' /\ SlotsKept' /\ (Canceling' \/ ReviewInOrder(node)')
    <3>1. Busy' = Busy
      BY <2>1, <2>2 DEF Busy
    <3> QED
      BY <1>4, <1>5, <2>1, <3>1 DEF Calm, FirstBrief, SlotsKept, ReviewInOrder
  <2> QED
    BY <1>5, <2>3, <2>4, <2>5, <2>6 DEF Calm
<1>7. CASE ExecuteStart(w, n, r)
  <2>1. node[n].status = "QUEUED" /\ session[w].step = "idle"
    BY <1>3, <1>7 DEF ExecuteStart, Receive, Startable, Executing
  <2>2. /\ \A m \in Nodes : m # n => node'[m] = node[m]
        /\ node'[n].status = "RUNNING"
        /\ node'[n].target = node[n].target /\ node'[n].applied = node[n].applied
    BY <1>7 DEF ExecuteStart, Nodes0, NodeRow
  <2>3. /\ session'[w].node = n /\ session'[w].step = "round"
        /\ \A v \in Workers : v # w => session'[v] = session[v]
    BY <1>7 DEF ExecuteStart, TypeOK
  <2>4. \A m \in Nodes : OnWorker(m)' <=> OnWorker(m) \/ m = n
    BY <2>1, <2>3 DEF OnWorker
  <2>5. OneHolder'
    <3>1. \A v \in Workers : session[v].node = n => session[v].step \in {"idle", "returning"}
      BY <1>3 DEF OnWorker
    <3>2. \A v, u \in Workers :
            /\ session'[v].node = session'[u].node
            /\ session'[v].step \notin {"idle", "returning"}
            /\ session'[u].step \notin {"idle", "returning"}
            => v = u
      BY <2>3, <3>1 DEF Calm, OneHolder
    <3>3. \A v \in Workers : session'[v].step = "idle" => session'[v].node = NoNode
      BY <2>3 DEF Calm, OneHolder
    <3>4. \A m \in Nodes :
            /\ Retried(m)' = 0 /\ Queued(m)' \in {0, 1}
            /\ m \in dispatch => Queued(m)' = 0 /\ ~OnWorker(m)'
            /\ Queued(m)' = 1 => ~OnWorker(m)'
      BY <1>2, <1>3, <2>4 DEF Calm, OneHolder
    <3> QED
      BY <1>4, <3>2, <3>3, <3>4 DEF Calm, OneHolder
  <2>6. HeldStatus'
    BY <1>2, <1>3, <1>4, <1>5, <2>2, <2>4 DEF Calm, HeldStatus
  <2>7. CopiesFresh'
    <3>1. Held(n)
      BY <1>1 DEF Held
    <3>2. \A m \in Nodes : m # n /\ ~Held(m) => ~Held(m)'
      BY <1>2, <1>4, <2>4 DEF Held
    <3> QED
      BY <1>4, <2>2, <3>1, <3>2 DEF Calm, CopiesFresh, ReviewInOrder
  <2>8. SlotsKept'
    <3>1. Busy' \subseteq Busy
      BY <2>1, <2>2, <2>4 DEF Busy, ActiveStatus
    <3> QED
      BY <3>1, FewerBusy DEF Calm
  <2>9. FirstBrief' /\ (Canceling' \/ ReviewInOrder(node)')
    BY <1>4, <1>5, <2>1, <2>2 DEF Calm, FirstBrief, ReviewInOrder
  <2> QED
    BY <1>5, <2>5, <2>6, <2>7, <2>8, <2>9 DEF Calm
<1> QED
  BY <1>6, <1>7

LEMMA CalmAgent ==
  ASSUME TypeOK, Calm, NEW w \in Workers, Agent(w)
  PROVE  Calm'
<1> USE NodeParts
<1> DEFINE n == session[w].node
<1>1. ASSUME NEW m \in Nodes, NEW r \in 0..MaxExecRetries,
             ExecuteStart(w, m, r) \/ ExecuteIgnore(w, m, r)
      PROVE  Calm'
  BY <1>1, CalmTake
<1>2. ASSUME NEW st, NEW k, node' = [node EXCEPT ![n].status = st, ![n].rework = k], n \in Nodes
      PROVE  \A m \in Nodes : /\ node'[m].target = 1 /\ node'[m].applied = 1
                              /\ m # n => node'[m].status = node[m].status
  <2> HIDE DEF n
  <2> QED
    BY <1>2 DEF Calm, FirstBrief, Nodes0, NodeRow
<1>3. ASSUME NEW st, node' = [node EXCEPT ![n].status = st], n \in Nodes
      PROVE  \A m \in Nodes : /\ node'[m].target = 1 /\ node'[m].applied = 1
                              /\ m # n => node'[m].status = node[m].status
  <2> HIDE DEF n
  <2> QED
    BY <1>3 DEF Calm, FirstBrief, Nodes0, NodeRow
<1>4. ASSUME node' = Applied(n), n \in Nodes
      PROVE  \A m \in Nodes : /\ node'[m].target = 1 /\ node'[m].applied = 1
                              /\ node'[m].status = node[m].status
  <2> HIDE DEF n
  <2> QED
    BY <1>4 DEF Applied, Calm, FirstBrief, Nodes0, NodeRow
<1>5. ASSUME NEW st, Step(w, st), st # "idle"
      PROVE  /\ session'[w].node = n /\ session'[w].step = st
             /\ \A v \in Workers : v # w => session'[v] = session[v]
  BY <1>5 DEF Step, TypeOK
<1>6. CASE ExecuteRound(w)
  <2>1. session[w].step = "round" /\ n \in Nodes /\ UNCHANGED <<agentq, OutsideAgent, task>>
    BY <1>6 DEF ExecuteRound, Executing
  <2>2. CASE task.cancel
    <3>1. node' = [node EXCEPT ![n].status = "CANCELED"] /\ Step(w, "returning")
      BY <1>6, <2>2 DEF ExecuteRound
    <3>2. /\ session'[w].node = n /\ session'[w].step = "returning"
          /\ \A v \in Workers : v # w => session'[v] = session[v]
      BY <1>5, <3>1
    <3>3. \A m \in Nodes : /\ node'[m].target = 1 /\ node'[m].applied = 1
                           /\ m # n => node'[m].status = node[m].status
      BY <1>3, <2>1, <3>1
    <3> QED
      BY <2>1, <3>2, <3>3, SessionStepKeepsCalm
  <2>3. CASE ~task.cancel
    <3>1. node' = Applied(n)
      BY <1>6, <2>3 DEF ExecuteRound
    <3>2. /\ session'[w].node = n /\ session'[w].step = "calling"
          /\ \A v \in Workers : v # w => session'[v] = session[v]
      BY <1>6, <2>3 DEF ExecuteRound, TypeOK
    <3>3. \A m \in Nodes : /\ node'[m].target = 1 /\ node'[m].applied = 1
                           /\ node'[m].status = node[m].status
      BY <1>4, <2>1, <3>1
    <3> QED
      BY <2>1, <3>2, <3>3, SessionStepKeepsCalm
  <2> QED
    BY <2>2, <2>3
<1>7. CASE ExecuteTools(w)
  <2>1. session[w].step = "calling" /\ n \in Nodes /\ UNCHANGED <<agentq, OutsideAgent, task, node>>
    BY <1>7 DEF ExecuteTools, Executing, rows
  <2>2. Step(w, "round")
    BY <1>7 DEF ExecuteTools
  <2>3. \A m \in Nodes : node[m].target = 1 /\ node[m].applied = 1
    BY DEF Calm, FirstBrief
  <2> QED
    BY <1>5, <2>1, <2>2, <2>3, SessionStepKeepsCalm
<1>8. CASE ExecuteFail(w)
  <2>1. session[w].step = "calling" /\ n \in Nodes /\ UNCHANGED <<agentq, OutsideAgent, task>>
    BY <1>8 DEF ExecuteFail, Executing
  <2>2. node' = [node EXCEPT ![n].status = "FAILED", ![n].rework = FALSE] /\ Step(w, "returning")
    BY <1>8 DEF ExecuteFail, SetStatus
  <2>3. /\ session'[w].node = n /\ session'[w].step = "returning"
        /\ \A v \in Workers : v # w => session'[v] = session[v]
    BY <1>5, <2>2
  <2>4. \A m \in Nodes : /\ node'[m].target = 1 /\ node'[m].applied = 1
                         /\ m # n => node'[m].status = node[m].status
    BY <1>2, <2>1, <2>2
  <2> QED
    BY <2>1, <2>3, <2>4, SessionStepKeepsCalm
<1>9. CASE ExecuteWait(w)
  <2>1. session[w].step = "calling" /\ n \in Nodes /\ UNCHANGED <<agentq, OutsideAgent>>
    BY <1>9 DEF ExecuteWait, Executing
  <2>2. task'.cancel = task.cancel
    BY <1>9 DEF ExecuteWait, TypeOK, TaskRow
  <2>3. node' = [node EXCEPT ![n].status = "WAITING"]
    BY <1>9 DEF ExecuteWait
  <2>4. /\ session'[w] = Idle /\ session'[w].step = "idle"
        /\ \A v \in Workers : v # w => session'[v] = session[v]
    BY <1>9 DEF ExecuteWait, TypeOK, Idle
  <2>5. \A m \in Nodes : /\ node'[m].target = 1 /\ node'[m].applied = 1
                         /\ m # n => node'[m].status = node[m].status
    BY <1>3, <2>1, <2>3
  <2> QED
    BY <2>1, <2>2, <2>4, <2>5, SessionStepKeepsCalm
<1>10. CASE ExecuteAnswer(w)
  <2>1. session[w].step = "calling" /\ n \in Nodes /\ UNCHANGED <<agentq, OutsideAgent, task>>
    BY <1>10 DEF ExecuteAnswer, Executing
  <2>2. node' = Applied(n)
    BY <1>10 DEF ExecuteAnswer
  <2>3. PICK st \in {"round", "closing"} : Step(w, st)
    BY <1>10 DEF ExecuteAnswer
  <2>4. \A m \in Nodes : /\ node'[m].target = 1 /\ node'[m].applied = 1
                         /\ node'[m].status = node[m].status
    BY <1>4, <2>1, <2>2
  <2> QED
    BY <1>5, <2>1, <2>3, <2>4, SessionStepKeepsCalm
<1>11. CASE ExecuteClose(w)
  <2>1. session[w].step = "closing" /\ n \in Nodes /\ UNCHANGED <<agentq, OutsideAgent, task>>
    BY <1>11 DEF ExecuteClose, Executing
  <2>2. PICK st, k : node' = [node EXCEPT ![n].status = st, ![n].rework = k]
    BY <1>11 DEF ExecuteClose, SetStatus
  <2>3. Step(w, "returning")
    BY <1>11 DEF ExecuteClose
  <2>4. /\ session'[w].node = n /\ session'[w].step = "returning"
        /\ \A v \in Workers : v # w => session'[v] = session[v]
    BY <1>5, <2>3
  <2>5. \A m \in Nodes : /\ node'[m].target = 1 /\ node'[m].applied = 1
                         /\ m # n => node'[m].status = node[m].status
    BY <1>2, <2>1, <2>2
  <2> QED
    BY <2>1, <2>4, <2>5, SessionStepKeepsCalm
<1>12. CASE ExecuteReturn(w)
  <2>1. /\ session[w].step = "returning" /\ session'[w] = Idle
        /\ \A v \in Workers : v # w => session'[v] = session[v]
    BY <1>12 DEF ExecuteReturn, Executing, TypeOK
  <2>2. UNCHANGED <<dispatch, phase, seenTask, seenNode, agentq, node, task>>
    BY <1>12 DEF ExecuteReturn, OutsideAgent, control_vars, rows
  <2>3. \A v \in Workers :
          /\ session'[v].step \notin {"idle", "returning"} =>
               session'[v].node = session[v].node /\ session[v].step \notin {"idle", "returning"}
          /\ session'[v].step = "idle" => session'[v].node = NoNode
    BY <2>1 DEF Idle, Calm, OneHolder
  <2>4. \A m \in Nodes : node[m].target = 1 /\ node[m].applied = 1
    BY DEF Calm, FirstBrief
  <2> QED
    BY <2>2, <2>3, <2>4, QuietStep
<1> QED
  BY <1>1, <1>6, <1>7, <1>8, <1>9, <1>10, <1>11, <1>12 DEF Agent, Take, Outcome

-----------------------------------------------------------------------------
(* The passes.  Nothing of a pass that goes on touches what its copy says  *)
(* is queued, running or waiting, nor does it invent a success.            *)
Respects(ns) ==
  /\ ns \in Nodes0
  /\ \A n \in Nodes :
       /\ ns[n].target = 1 /\ ns[n].applied = 1
       /\ seenNode[n].status \in ActiveStatus => ns[n].status = seenNode[n].status
       /\ ns[n].status = "SUCCEEDED" => seenNode[n].status = "SUCCEEDED"
  /\ ReviewInOrder(ns)

LEMMA WithStatusParts ==
  ASSUME NEW ns \in Nodes0, NEW S, NEW st \in NodeStatus, NEW n \in Nodes
  PROVE  /\ WithStatus(ns, S, st)[n].status = (IF n \in S THEN st ELSE ns[n].status)
         /\ WithStatus(ns, S, st)[n].target = ns[n].target
         /\ WithStatus(ns, S, st)[n].applied = ns[n].applied
BY DEF WithStatus, Nodes0, NodeRow

LEMMA SendBackParts ==
  ASSUME TypeOK, NEW ns \in Nodes0, NEW n \in Nodes
  PROVE  /\ SendBack(ns)[n].status = (IF n = Reviewer THEN "PENDING"
                                      ELSE IF n \in DependsOn[Reviewer] THEN "READY"
                                      ELSE ns[n].status)
         /\ SendBack(ns)[n].target = ns[n].target
         /\ SendBack(ns)[n].applied = ns[n].applied
<1> DEFINE back == WithStatus(ns, DependsOn[Reviewer], "READY")
<1>1. /\ back \in Nodes0
      /\ back[n].status = (IF n \in DependsOn[Reviewer] THEN "READY" ELSE ns[n].status)
      /\ back[n].target = ns[n].target /\ back[n].applied = ns[n].applied
  BY WithStatusType, WithStatusParts DEF NodeStatus
<1>2. SendBack(ns) = WithStatus(back, {Reviewer}, "PENDING")
  BY DEF SendBack
<1> HIDE DEF back
<1>3. /\ SendBack(ns)[n].status = (IF n \in {Reviewer} THEN "PENDING" ELSE back[n].status)
      /\ SendBack(ns)[n].target = back[n].target /\ SendBack(ns)[n].applied = back[n].applied
  BY <1>1, <1>2, WithStatusParts DEF NodeStatus
<1> QED
  BY <1>1, <1>3

(* The copy before promotion: a rework takes back finished work only.      *)
LEMMA PassFacts ==
  ASSUME TypeOK, Calm, phase \in {"loaded", "gating"}, ~seenTask.cancel
  PROVE  /\ ~Canceling /\ ReviewInOrder(seenNode) /\ ReviewInOrder(node) /\ dispatch = {}
         /\ \A n \in Nodes : /\ seenNode[n].target = 1 /\ seenNode[n].applied = 1
                             /\ seenNode[n].status \notin ActiveStatus =>
                                  node[n].status = seenNode[n].status /\ ~Held(n)
         /\ Respects(seenNode)
<1>1. ~Canceling
  BY DEF Canceling
<1>2. /\ ReviewInOrder(seenNode)
      /\ \A n \in Nodes : seenNode[n].status \notin ActiveStatus =>
                            node[n].status = seenNode[n].status /\ ~Held(n)
  BY DEF Calm, CopiesFresh
<1>3. \A n \in Nodes : seenNode[n].target = 1 /\ seenNode[n].applied = 1
  BY DEF Calm, FirstBrief
<1>4. dispatch = {} /\ ReviewInOrder(node)
  BY <1>1 DEF Calm, OneHolder
<1> QED
  BY <1>1, <1>2, <1>3, <1>4, NodeParts DEF Respects

LEMMA ReworkRespects ==
  ASSUME TypeOK, NEW ns \in Nodes0, Respects(ns), ns = seenNode,
         ns[Reviewer].status \in {"FAILED", "SUCCEEDED"}
  PROVE  Respects(SendBack(ns))
<1>1. Reviewer \in Nodes /\ DependsOn[Reviewer] \subseteq Nodes /\ Reviewer \notin DependsOn[Reviewer]
  BY PlanIsValid DEF Producers
<1>2. \A d \in DependsOn[Reviewer] : ns[d].status = "SUCCEEDED"
  BY DEF Respects, ReviewInOrder
<1>3. \A n \in Nodes :
        /\ SendBack(ns)[n].target = 1 /\ SendBack(ns)[n].applied = 1
        /\ seenNode[n].status \in ActiveStatus => SendBack(ns)[n].status = seenNode[n].status
        /\ SendBack(ns)[n].status = "SUCCEEDED" => seenNode[n].status = "SUCCEEDED"
  BY <1>1, <1>2, SendBackParts DEF Respects, ActiveStatus
<1>4. ReviewInOrder(SendBack(ns))
  BY <1>1, SendBackParts DEF ReviewInOrder
<1> QED
  BY <1>3, <1>4, SendBackType DEF Respects

LEMMA CopyRespects ==
  ASSUME TypeOK, Calm, phase = "loaded", ~seenTask.cancel
  PROVE  /\ Respects(Copy)
         /\ \A n \in Nodes : Copy[n].status \in ActiveStatus => seenNode[n].status \in ActiveStatus
<1> DEFINE base == IF ReworkDue(seenTask, seenNode) THEN SendBack(seenNode) ELSE seenNode
           S == Retryable(base) \cup Unblocked(base)
<1>1. seenNode \in Nodes0 /\ Respects(seenNode)
  BY PassFacts, NodeParts
<1>2. Respects(base)
  BY <1>1, ReworkRespects DEF ReworkDue
<1>3. \A n \in Nodes : base[n].status \in ActiveStatus => seenNode[n].status \in ActiveStatus
  BY <1>1, SendBackParts DEF ActiveStatus
<1>4. Copy = WithStatus(base, S, "READY")
  BY DEF Copy, Promoted
<1> HIDE DEF base
<1>5. base \in Nodes0
  BY <1>2 DEF Respects
<1>6. \A n \in S : base[n].status \in {"FAILED", "PENDING", "RETRYING"}
  BY DEF Retryable, Unblocked, InStatus
<1>7. /\ Reviewer \in Nodes /\ DependsOn[Reviewer] \subseteq Nodes
      /\ Reviewer \in S => \A d \in DependsOn[Reviewer] : base[d].status = "SUCCEEDED"
  BY PlanIsValid DEF Retryable, Unblocked, InStatus, Producers
<1> HIDE DEF S
<1>8. \A n \in Nodes : /\ Copy[n].status = (IF n \in S THEN "READY" ELSE base[n].status)
                       /\ Copy[n].target = base[n].target /\ Copy[n].applied = base[n].applied
  BY <1>4, <1>5, WithStatusParts DEF NodeStatus
<1>9. \A n \in Nodes :
        /\ Copy[n].target = 1 /\ Copy[n].applied = 1
        /\ seenNode[n].status \in ActiveStatus => Copy[n].status = seenNode[n].status
        /\ Copy[n].status = "SUCCEEDED" => seenNode[n].status = "SUCCEEDED"
        /\ Copy[n].status \in ActiveStatus => seenNode[n].status \in ActiveStatus
  BY <1>2, <1>3, <1>6, <1>8 DEF Respects, ActiveStatus
<1>10. ReviewInOrder(Copy)
  <2>1. \A d \in Nodes : base[d].status = "SUCCEEDED" => Copy[d].status = "SUCCEEDED"
    BY <1>6, <1>8
  <2> QED
    BY <1>2, <1>7, <1>8, <2>1 DEF ReviewInOrder, Respects
<1>11. Copy \in Nodes0
  BY CopyType
<1> QED
  BY <1>9, <1>10, <1>11 DEF Respects

(* What a commit of such a copy leaves in the rows.                        *)
LEMMA CommitParts ==
  ASSUME TypeOK, Calm, phase \in {"loaded", "gating"}, ~seenTask.cancel,
         NEW ns, Respects(ns), CommitNodes(ns)
  PROVE  /\ \A n \in Nodes :
              /\ node'[n].target = 1 /\ node'[n].applied = 1
              /\ node'[n].status = (IF seenNode[n].status \in ActiveStatus THEN node[n].status
                                    ELSE ns[n].status)
         /\ ReviewInOrder(node)'
<1> USE NodeParts
<1>1. ASSUME NEW n \in Nodes
      PROVE  /\ node'[n].target = 1 /\ node'[n].applied = 1
             /\ node'[n].status = (IF seenNode[n].status \in ActiveStatus THEN node[n].status
                                   ELSE ns[n].status)
  <2>1. node'[n] = IF ns[n].status # seenNode[n].status
                   THEN [node[n] EXCEPT !.status = ns[n].status] ELSE node[n]
    BY DEF CommitNodes
  <2>2. node[n].target = 1 /\ node[n].applied = 1 /\ node[n] \in NodeRow
    BY DEF Calm, FirstBrief, Nodes0
  <2>3. seenNode[n].status \in ActiveStatus => ns[n].status = seenNode[n].status
    BY DEF Respects
  <2>4. seenNode[n].status \notin ActiveStatus => node[n].status = seenNode[n].status
    BY PassFacts
  <2> QED
    BY <2>1, <2>2, <2>3, <2>4 DEF NodeRow
<1>2. ASSUME node'[Reviewer].status \notin {"PENDING", "CANCELED", "RETRYING"},
             NEW d \in DependsOn[Reviewer]
      PROVE  node'[d].status = "SUCCEEDED"
  <2>1. ns[Reviewer].status \notin {"PENDING", "CANCELED", "RETRYING"}
    BY <1>1, <1>2 DEF Respects, ActiveStatus
  <2>2. ns[d].status = "SUCCEEDED" /\ seenNode[d].status = "SUCCEEDED"
    BY <2>1 DEF Respects, ReviewInOrder
  <2> QED
    BY <1>1, <2>2 DEF ActiveStatus
<1> QED
  BY <1>1, <1>2 DEF ReviewInOrder

(* A pass that ends without giving out a node, or gives out the nodes B.   *)
LEMMA PassKeepsCalm ==
  ASSUME TypeOK, Calm, phase \in {"loaded", "gating"}, ~seenTask.cancel,
         NEW ns, Respects(ns), CommitNodes(ns), task'.cancel = task.cancel,
         UNCHANGED <<agentq, session>>,
         \/ phase' = "idle" /\ dispatch' = {}
         \/ phase' = "sending",
         ~seenTask'.cancel,
         \A n \in Nodes : seenNode'[n].target = 1 /\ seenNode'[n].applied = 1,
         dispatch' \subseteq Nodes,
         \A n \in dispatch' : seenNode[n].status \notin ActiveStatus /\ ns[n].status = "QUEUED",
         SlotsKept'
  PROVE  Calm'
<1> USE NodeParts
<1>1. \A n \in Nodes : Queued(n)' = Queued(n) /\ Retried(n)' = Retried(n) /\ (OnWorker(n)' <=> OnWorker(n))
  BY DEF Queued, Retried, OnWorker
<1>2. \A n \in dispatch' : ~Held(n) /\ node'[n].status = "QUEUED"
  BY PassFacts, CommitParts
<1>3. OneHolder'
  <2>1. \A n \in dispatch' : Queued(n) = 0 /\ ~OnWorker(n)
    BY <1>2 DEF Held, Calm, OneHolder
  <2> QED
    BY <1>1, <2>1 DEF Calm, OneHolder
<1>4. HeldStatus'
  <2>1. ASSUME NEW n \in Nodes, Queued(n) = 1 \/ OnWorker(n)
        PROVE  node'[n].status = node[n].status
    <3>1. Held(n)
      BY <2>1 DEF Held
    <3> QED
      BY <3>1, PassFacts, CommitParts
  <2>2. ~Canceling
    BY PassFacts
  <2>3. \A n \in Nodes : /\ Queued(n) = 1 => node[n].status = "QUEUED"
                         /\ OnWorker(n) => node[n].status = "RUNNING"
    BY <2>2 DEF Calm, HeldStatus
  <2> QED
    BY <1>1, <1>2, <2>1, <2>3 DEF HeldStatus
<1>5. CopiesFresh' /\ PassInOrder'
  BY DEF CopiesFresh, PassInOrder
<1>6. FirstBrief' /\ ReviewInOrder(node)'
  BY CommitParts DEF FirstBrief
<1> QED
  BY <1>3, <1>4, <1>5, <1>6 DEF Calm

LEMMA CommitTaskKeepsCancel ==
  ASSUME TypeOK, NEW st, NEW k, NEW flushed, CommitTask(st, k, flushed)
  PROVE  task'.cancel = task.cancel
BY DEF CommitTask, TypeOK, TaskRow

LEMMA ClosedPass ==
  ASSUME Close
  PROVE  /\ phase' = "idle" /\ dispatch' = {} /\ ~seenTask'.cancel
         /\ \A n \in Nodes : seenNode'[n].target = 1 /\ seenNode'[n].applied = 1
BY DEF Close, InitTask, InitNode

(* A pass that gives nothing out makes nothing busy.                       *)
LEMMA CopyKeepsSlots ==
  ASSUME TypeOK, Calm, phase = "loaded", ~seenTask.cancel, CommitNodes(Copy), session' = session
  PROVE  SlotsKept'
<1>1. \A n \in Nodes : /\ OnWorker(n)' <=> OnWorker(n)
                       /\ node'[n].status \in ActiveStatus => node[n].status \in ActiveStatus
  BY CopyRespects, CommitParts DEF OnWorker
<1> QED
  BY <1>1, FewerBusy DEF Busy, Calm

(* A pass that gives out B has counted all that is busy.                   *)
LEMMA DispatchKeepsSlots ==
  ASSUME TypeOK, Calm, phase = "loaded", ~seenTask.cancel, NEW B \in Batches(Copy), B # {},
         CommitNodes(WithStatus(Copy, B, "QUEUED")),
         Respects(WithStatus(Copy, B, "QUEUED")), session' = session
  PROVE  SlotsKept'
<1>1. /\ B \subseteq Nodes /\ Active(Copy) \subseteq Nodes
      /\ Cardinality(B) = (IF Cardinality(InStatus(Copy, {"READY"})) < Slots(Copy)
                           THEN Cardinality(InStatus(Copy, {"READY"})) ELSE Slots(Copy))
  BY DEF Batches, InStatus, Active
<1>2. /\ IsFiniteSet(B) /\ IsFiniteSet(Active(Copy)) /\ Cardinality(B) \in Nat
      /\ Cardinality(Active(Copy)) \in Nat
      /\ Cardinality(InStatus(Copy, {"READY"})) \in Nat
  BY <1>1, BusyIsFinite DEF InStatus
<1>3. Cardinality(B) >= 1
  BY <1>2, FS_EmptySet
<1>4. Cardinality(B) + Cardinality(Active(Copy)) <= MaxConcurrent
  BY <1>1, <1>2, <1>3, BoundsAreNaturals DEF Slots
<1>5. Busy' \subseteq Active(Copy) \cup B
  <2> DEFINE ns == WithStatus(Copy, B, "QUEUED")
  <2>1. \A n \in Nodes : ns[n].status = (IF n \in B THEN "QUEUED" ELSE Copy[n].status)
    BY CopyType, WithStatusParts DEF NodeStatus
  <2>2. \A n \in Nodes : node'[n].status = (IF seenNode[n].status \in ActiveStatus
                                            THEN node[n].status ELSE ns[n].status)
    BY CommitParts
  <2> HIDE DEF ns
  <2>3. \A n \in Nodes : seenNode[n].status \in ActiveStatus => Copy[n].status \in ActiveStatus
    BY CopyRespects DEF Respects
  <2>4. \A n \in Nodes : OnWorker(n)' => seenNode[n].status \in ActiveStatus
    BY PassFacts DEF OnWorker, Held
  <2>5. ASSUME NEW n \in Nodes, node'[n].status \in ActiveStatus \/ OnWorker(n)'
        PROVE  Copy[n].status \in ActiveStatus \/ n \in B
    BY <2>1, <2>2, <2>3, <2>4, <2>5
  <2> QED
    BY <2>5 DEF Busy, Active, InStatus, ActiveStatus
<1>6. Cardinality(Active(Copy) \cup B) <= Cardinality(Active(Copy)) + Cardinality(B)
      /\ Cardinality(Active(Copy) \cup B) \in Nat
  <2>1. /\ Cardinality(Active(Copy) \cup B) = Cardinality(Active(Copy)) + Cardinality(B)
                                              - Cardinality(Active(Copy) \cap B)
        /\ Cardinality(Active(Copy) \cap B) \in Nat
    BY <1>2, FS_Union, FS_Intersection, FS_CardinalityType
  <2>2. Cardinality(Active(Copy) \cup B) \in Nat
    BY <1>2, FS_Union, FS_CardinalityType
  <2> QED
    BY <1>2, <2>1, <2>2
<1>7. Cardinality(Busy') <= Cardinality(Active(Copy) \cup B) /\ Cardinality(Busy') \in Nat
  BY <1>1, <1>5, BusyIsFinite
<1> QED
  BY <1>2, <1>4, <1>6, <1>7, BoundsAreNaturals DEF SlotsKept

LEMMA CalmCancel ==
  ASSUME TypeOK, Calm, ScheduleCancel
  PROVE  Calm'
<1> USE NodeParts
<1> DEFINE S == Nodes \ InStatus(seenNode, {"SUCCEEDED", "FAILED"})
<1>1. /\ CommitNodes(WithStatus(seenNode, S, "CANCELED")) /\ Close
      /\ UNCHANGED <<agentq, session>> /\ seenTask.cancel /\ phase = "loaded"
      /\ CommitTask("CANCELED", seenTask.retries, FALSE)
  BY DEF ScheduleCancel, OutsideControl
<1>2. task.cancel /\ task'.cancel /\ dispatch = {}
  BY <1>1, CommitTaskKeepsCancel DEF Calm, PassInOrder, OneHolder
<1>3. phase' = "idle" /\ Canceling'
  BY <1>1, <1>2, ClosedPass DEF Canceling
<1>4. \A n \in Nodes : /\ node'[n].status \in {node[n].status, "CANCELED"}
                       /\ node'[n].target = 1 /\ node'[n].applied = 1
  <2>1. \A n \in Nodes : WithStatus(seenNode, S, "CANCELED")[n].status
                           = (IF n \in S THEN "CANCELED" ELSE seenNode[n].status)
    BY WithStatusParts DEF NodeStatus
  <2>2. \A n \in Nodes : node[n].target = 1 /\ node[n].applied = 1
    BY DEF Calm, FirstBrief
  <2> HIDE DEF S
  <2> QED
    BY <1>1, <2>1, <2>2 DEF CommitNodes, Nodes0, NodeRow
<1>5. \A n \in Nodes : Queued(n)' = Queued(n) /\ Retried(n)' = Retried(n) /\ (OnWorker(n)' <=> OnWorker(n))
  BY <1>1 DEF Queued, Retried, OnWorker
<1>6. OneHolder'
  BY <1>1, <1>5, ClosedPass DEF Calm, OneHolder
<1>7. HeldStatus'
  BY <1>1, <1>3, <1>4, <1>5, ClosedPass DEF Calm, HeldStatus
<1>8. CopiesFresh' /\ PassInOrder' /\ FirstBrief'
  BY <1>1, <1>3, <1>4, ClosedPass DEF CopiesFresh, PassInOrder, FirstBrief
<1>9. SlotsKept'
  <2>1. Busy' \subseteq Busy
    BY <1>4, <1>5 DEF Busy, ActiveStatus
  <2> QED
    BY <2>1, FewerBusy DEF Calm
<1> QED
  BY <1>3, <1>6, <1>7, <1>8, <1>9 DEF Calm

LEMMA CalmGateRework ==
  ASSUME TypeOK, Calm, GateRework
  PROVE  Calm'
<1> USE NodeParts
<1>1. phase = "gating" /\ phase' = "loaded" /\ UNCHANGED <<dispatch, agentq, session>>
      /\ CommitTask("REWORKING", seenTask.retries + 1, FALSE)
  BY DEF GateRework, OutsideGate
<1>2. PICK ns \in {SendBack(seenNode), WithStatus(seenNode, {Reviewer}, "READY")} :
        CommitNodes(ns) /\ seenNode' = ns
  BY DEF GateRework
<1>3. ~seenTask.cancel /\ \A n \in Nodes : seenNode[n].status = "SUCCEEDED"
  BY <1>1 DEF Calm, PassInOrder, AllSucceeded, InStatus
<1>4. task'.cancel = task.cancel /\ seenTask'.cancel = seenTask.cancel
  BY <1>1, CommitTaskKeepsCancel DEF GateRework, TypeOK, TaskRow
<1>5. Respects(ns) /\ \A n \in Nodes : ns[n].status \notin ActiveStatus
  <2>1. Respects(seenNode)
    BY <1>1, <1>3, PassFacts
  <2>2. CASE ns = SendBack(seenNode)
    <3>1. Respects(ns)
      BY <1>3, <2>1, <2>2, ReworkRespects
    <3> QED
      BY <1>3, <2>2, <3>1, SendBackParts DEF ActiveStatus
  <2>3. CASE ns = WithStatus(seenNode, {Reviewer}, "READY")
    <3>1. \A n \in Nodes :
            /\ ns[n].status = (IF n \in {Reviewer} THEN "READY" ELSE seenNode[n].status)
            /\ ns[n].target = seenNode[n].target /\ ns[n].applied = seenNode[n].applied
      BY <2>3, WithStatusParts DEF NodeStatus
    <3>2. ns \in Nodes0
      BY <2>3, WithStatusType DEF NodeStatus
    <3>3. Reviewer \notin DependsOn[Reviewer]
      BY PlanIsValid DEF Producers
    <3> QED
      BY <1>3, <2>1, <3>1, <3>2, <3>3 DEF Respects, ReviewInOrder, ActiveStatus
  <2> QED
    BY <1>2, <2>2, <2>3
<1>6. \A n \in Nodes : seenNode[n].status \notin ActiveStatus
  BY <1>3 DEF ActiveStatus
<1>7. /\ \A n \in Nodes : /\ node'[n].target = 1 /\ node'[n].applied = 1
                          /\ node'[n].status = ns[n].status /\ ~Held(n)
      /\ ReviewInOrder(node)'
  BY <1>1, <1>2, <1>3, <1>5, <1>6, CommitParts, PassFacts
<1>8. \A n \in Nodes : Queued(n)' = Queued(n) /\ Retried(n)' = Retried(n) /\ (OnWorker(n)' <=> OnWorker(n))
  BY <1>1 DEF Queued, Retried, OnWorker
<1>9. dispatch = {} /\ \A n \in Nodes : Queued(n) = 0 /\ ~OnWorker(n) /\ ~Held(n)'
  <2>1. dispatch = {}
    BY <1>1 DEF Calm, OneHolder
  <2>2. \A n \in Nodes : Queued(n) = 0 /\ ~OnWorker(n)
    BY <1>7 DEF Held, Calm, OneHolder
  <2> QED
    BY <1>1, <1>8, <2>1, <2>2 DEF Held
<1>10. OneHolder'
  BY <1>1, <1>8, <1>9 DEF Calm, OneHolder
<1>11. HeldStatus'
  BY <1>1, <1>8, <1>9 DEF HeldStatus
<1>12. CopiesFresh'
  BY <1>2, <1>5, <1>7, <1>9 DEF CopiesFresh, Respects, ReviewInOrder
<1>13. PassInOrder' /\ FirstBrief'
  BY <1>1, <1>2, <1>3, <1>4, <1>5, <1>7 DEF PassInOrder, FirstBrief, Respects
<1>14. SlotsKept'
  <2>1. Busy' \subseteq Busy
    BY <1>5, <1>7, <1>8 DEF Busy
  <2> QED
    BY <2>1, FewerBusy DEF Calm
<1> QED
  BY <1>7, <1>10, <1>11, <1>12, <1>13, <1>14 DEF Calm

LEMMA CalmReads ==
  ASSUME TypeOK, Calm, RunTask \/ ReadNodes
  PROVE  Calm'
<1> USE NodeParts
<1>1. UNCHANGED <<node, task, dispatch, agentq, session>>
  BY DEF RunTask, ReadNodes, rows, OutsideControl
<1>2. \A n \in Nodes : /\ Queued(n)' = Queued(n) /\ Retried(n)' = Retried(n)
                       /\ OnWorker(n)' <=> OnWorker(n)
                       /\ Held(n)' <=> Held(n)
  BY <1>1 DEF Queued, Retried, OnWorker, Held
<1>3. /\ \/ phase = "idle" /\ phase' = "opened" /\ seenTask' = task /\ seenNode' = seenNode
         \/ phase = "opened" /\ phase' = "loaded" /\ seenTask' = seenTask /\ seenNode' = node
      /\ dispatch = {}
  BY DEF RunTask, ReadNodes, rows, Calm, OneHolder
<1>4. Canceling' <=> Canceling
  BY <1>1, <1>3 DEF Canceling
<1>5. OneHolder'
  BY <1>1, <1>2, <1>3 DEF Calm, OneHolder
<1>6. HeldStatus'
  BY <1>1, <1>2, <1>4 DEF Calm, HeldStatus
<1>7. PassInOrder' /\ FirstBrief'
  BY <1>1, <1>3 DEF Calm, PassInOrder, FirstBrief
<1>8. SlotsKept'
  <2>1. Busy' \subseteq Busy
    BY <1>1, <1>2 DEF Busy
  <2> QED
    BY <2>1, FewerBusy DEF Calm
<1>9. CopiesFresh'
  <2> SUFFICES ASSUME phase' = "loaded", ~seenTask'.cancel  PROVE CopiesFresh'
    BY <1>3 DEF CopiesFresh
  <2>1. ~Canceling /\ seenNode' = node
    BY <1>3 DEF Canceling
  <2>2. ReviewInOrder(node)
    BY <2>1 DEF Calm
  <2>3. \A n \in Nodes : Held(n) => node[n].status \in ActiveStatus
    BY <1>3, <2>1 DEF Calm, HeldStatus, OneHolder, Held, ActiveStatus
  <2> QED
    BY <1>1, <1>2, <2>1, <2>2, <2>3 DEF CopiesFresh, ReviewInOrder
<1> QED
  BY <1>1, <1>4, <1>5, <1>6, <1>7, <1>8, <1>9 DEF Calm, ReviewInOrder

(* The message of a node goes from the sending pass to the queue.          *)
LEMMA CalmSend ==
  ASSUME TypeOK, Calm, NEW n \in Nodes, SendExecute(n)
  PROVE  Calm'
<1>1. /\ n \in dispatch /\ phase = "sending" /\ phase' \in {"idle", "sending"}
      /\ (phase' = "idle" => dispatch' = {}) /\ dispatch' = dispatch \ {n}
      /\ UNCHANGED <<node, task, session, seenTask, seenNode>>
  BY DEF SendExecute, rows
<1>2. Queued(n) = 0 /\ ~OnWorker(n)
  BY <1>1 DEF Calm, OneHolder
<1>3. /\ Queued(n)' = 1
      /\ \A m \in Nodes : /\ m # n => Queued(m)' = Queued(m)
                          /\ Retried(m)' = Retried(m)
                          /\ OnWorker(m)' <=> OnWorker(m)
  <2>1. \A m \in Nodes : <<m, 0>> \in Messages /\ <<m, 1>> \in Messages
    BY DEF Messages, MaxExecRetries
  <2>2. agentq' = [agentq EXCEPT ![<<n, 0>>] = agentq[<<n, 0>>] + 1] /\ agentq \in [Messages -> Nat]
    BY DEF SendExecute, TypeOK
  <2> QED
    <3>1. \A m \in Nodes : OnWorker(m)' <=> OnWorker(m)
      BY <1>1 DEF OnWorker
    <3>2. agentq[<<n, 0>>] = 0
      BY <1>2 DEF Queued
    <3>3. /\ agentq'[<<n, 0>>] = 1
          /\ \A m \in Nodes : /\ m # n => agentq'[<<m, 0>>] = agentq[<<m, 0>>]
                              /\ agentq'[<<m, 1>>] = agentq[<<m, 1>>]
      <4>1. agentq'[<<n, 0>>] = agentq[<<n, 0>>] + 1
        BY <2>1, <2>2
      <4>2. \A k \in Messages : k # <<n, 0>> => agentq'[k] = agentq[k]
        BY <2>2
      <4>3. \A m \in Nodes : /\ m # n => <<m, 0>> # <<n, 0>>
                            /\ <<m, 1>> # <<n, 0>>
        OBVIOUS
      <4> QED
        BY <2>1, <3>2, <4>1, <4>2, <4>3
    <3> QED
      BY <3>1, <3>3 DEF Queued, Retried
<1>4. Canceling' <=> Canceling
  BY <1>1 DEF Canceling
<1>5. OneHolder'
  BY <1>1, <1>2, <1>3 DEF Calm, OneHolder
<1>6. HeldStatus'
  BY <1>1, <1>3, <1>4 DEF Calm, HeldStatus
<1>7. CopiesFresh' /\ PassInOrder' /\ FirstBrief'
  BY <1>1 DEF Calm, CopiesFresh, PassInOrder, FirstBrief
<1>8. SlotsKept'
  <2>1. Busy' \subseteq Busy
    BY <1>1, <1>3 DEF Busy
  <2> QED
    BY <2>1, FewerBusy DEF Calm
<1> QED
  BY <1>1, <1>4, <1>5, <1>6, <1>7, <1>8 DEF Calm, ReviewInOrder

(* A pass that ends and leaves the rows of the nodes alone.                *)
LEMMA CalmClose ==
  ASSUME TypeOK, Calm, phase \in {"loaded", "gating"}, ~seenTask.cancel, Close,
         node' = node, task'.cancel = task.cancel, UNCHANGED <<agentq, session>>
  PROVE  Calm'
<1>1. Respects(seenNode)
  BY PassFacts
<1>2. CommitNodes(seenNode)
  BY NodeParts DEF CommitNodes, Nodes0
<1>3. SlotsKept'
  <2>1. Busy' \subseteq Busy
    BY DEF Busy, OnWorker
  <2> QED
    BY <2>1, FewerBusy DEF Calm
<1> QED
  BY <1>1, <1>2, <1>3, ClosedPass, PassKeepsCalm

LEMMA CalmControl ==
  ASSUME TypeOK, Calm, Control
  PROVE  Calm'
<1> USE DEF OutsideControl, OutsideGate, rows
<1>1. CASE ScheduleFail \/ ScheduleWaiting \/ ScheduleBlocked
  <2>1. /\ phase = "loaded" /\ ~seenTask.cancel /\ CommitNodes(Copy) /\ Close
        /\ UNCHANGED <<agentq, session>>
    BY <1>1 DEF ScheduleFail, ScheduleWaiting, ScheduleBlocked, Dispatchable
  <2>2. task'.cancel = task.cancel
    BY <1>1, CommitTaskKeepsCancel DEF ScheduleFail, ScheduleWaiting, ScheduleBlocked
  <2>3. Respects(Copy) /\ SlotsKept'
    BY <2>1, CopyRespects, CopyKeepsSlots
  <2> QED
    BY <2>1, <2>2, <2>3, ClosedPass, PassKeepsCalm
<1>2. CASE ScheduleDispatch
  <2>1. PICK B \in Batches(Copy) \ {{}} :
          /\ CommitTask(IF B \subseteq {Reviewer} THEN "REVIEWING" ELSE "RUNNING",
                        CopyRetries, Reworks)
          /\ CommitNodes(WithStatus(Copy, B, "QUEUED"))
          /\ dispatch' = B
    BY <1>2 DEF ScheduleDispatch
  <2>2. /\ phase = "loaded" /\ ~seenTask.cancel /\ phase' = "sending"
        /\ UNCHANGED <<agentq, session>> /\ seenTask' = InitTask /\ seenNode' = InitNode
    BY <1>2 DEF ScheduleDispatch, Dispatchable
  <2>3. B \subseteq Nodes /\ \A n \in B : Copy[n].status = "READY"
    BY <2>1 DEF Batches, InStatus
  <2> DEFINE ns == WithStatus(Copy, B, "QUEUED")
  <2>4. /\ ns \in Nodes0
        /\ \A n \in Nodes : /\ ns[n].status = (IF n \in B THEN "QUEUED" ELSE Copy[n].status)
                            /\ ns[n].target = Copy[n].target /\ ns[n].applied = Copy[n].applied
    BY CopyType, WithStatusType, WithStatusParts DEF NodeStatus
  <2>5. Respects(Copy) /\ \A n \in Nodes : Copy[n].status \in ActiveStatus
                                             <=> seenNode[n].status \in ActiveStatus
    BY <2>2, CopyRespects DEF Respects
  <2>6. CommitNodes(ns) /\ task'.cancel = task.cancel
    BY <2>1, CommitTaskKeepsCancel
  <2>7. Respects(ns) /\ \A n \in B : seenNode[n].status \notin ActiveStatus /\ ns[n].status = "QUEUED"
    <3> HIDE DEF ns
    <3>1. ReviewInOrder(ns)
      BY <2>3, <2>4, <2>5, NodeParts DEF Respects, ReviewInOrder
    <3> QED
      BY <2>3, <2>4, <2>5, <3>1 DEF Respects, ActiveStatus
  <2>8. SlotsKept'
    BY <2>1, <2>2, <2>7, DispatchKeepsSlots
  <2>9. ~seenTask'.cancel /\ \A n \in Nodes : seenNode'[n].target = 1 /\ seenNode'[n].applied = 1
    BY <2>2 DEF InitTask, InitNode
  <2> HIDE DEF ns
  <2> QED
    BY <2>1, <2>2, <2>3, <2>6, <2>7, <2>8, <2>9, PassKeepsCalm
<1>3. CASE ScheduleDelivery
  <2>1. phase = "loaded" /\ ~seenTask.cancel /\ UNCHANGED <<agentq, session>> /\ AllSucceeded(seenNode)
    BY <1>3 DEF ScheduleDelivery
  <2>2. Stale(seenNode) = {}
    BY DEF Stale, Calm, FirstBrief
  <2>3. CASE Close /\ UNCHANGED rows
    BY <2>1, <2>3, CalmClose
  <2>4. CASE phase' = "gating" /\ UNCHANGED <<rows, seenTask, seenNode, dispatch>>
    <3>1. \A n \in Nodes : /\ Queued(n)' = Queued(n) /\ Retried(n)' = Retried(n)
                           /\ OnWorker(n)' <=> OnWorker(n)
      BY <2>1, <2>4 DEF Queued, Retried, OnWorker
    <3>2. dispatch = {} /\ ~Canceling /\ ReviewInOrder(node)
      BY <2>1, PassFacts
    <3>3. OneHolder'
      BY <2>1, <2>4, <3>1, <3>2 DEF Calm, OneHolder
    <3>4. HeldStatus'
      BY <2>1, <2>4, <3>1, <3>2 DEF Calm, HeldStatus
    <3>5. CopiesFresh'
      BY <2>1, <2>4, <3>1 DEF Calm, CopiesFresh, Held, ReviewInOrder
    <3>6. PassInOrder' /\ FirstBrief'
      BY <2>1, <2>4 DEF Calm, PassInOrder, FirstBrief, AllSucceeded, InStatus
    <3>7. SlotsKept'
      <4>1. Busy' \subseteq Busy
        BY <2>4, <3>1 DEF Busy
      <4> QED
        BY <4>1, FewerBusy DEF Calm
    <3> QED
      BY <2>4, <3>2, <3>3, <3>4, <3>5, <3>6, <3>7 DEF Calm, ReviewInOrder
  <2> QED
    BY <1>3, <2>2, <2>3, <2>4 DEF ScheduleDelivery
<1>4. CASE GatePass \/ GateFail
  <2>1. /\ phase = "gating" /\ Close /\ node' = node /\ UNCHANGED <<agentq, session>>
    BY <1>4 DEF GatePass, GateFail
  <2>2. ~seenTask.cancel
    BY <2>1 DEF Calm, PassInOrder
  <2>3. task'.cancel = task.cancel
    BY <1>4, CommitTaskKeepsCancel DEF GatePass, GateFail
  <2> QED
    BY <2>1, <2>2, <2>3, CalmClose
<1>5. CASE ScheduleRunning
  BY <1>5, CalmClose DEF ScheduleRunning, Dispatchable
<1> QED
  BY <1>1, <1>2, <1>3, <1>4, <1>5, CalmReads, CalmCancel, CalmGateRework, CalmSend DEF Control

-----------------------------------------------------------------------------
LEMMA CalmNext == TypeOK /\ (Undisturbed => Calm) /\ [Next]_vars => (Undisturbed => Calm)'
<1> SUFFICES ASSUME TypeOK, Undisturbed => Calm, [Next]_vars, Undisturbed'
             PROVE  Calm'
  OBVIOUS
<1>1. Calm /\ ~Faulty
  BY WasUndisturbed
<1> QED
  BY <1>1, CalmControl, CalmAgent, CalmUsers DEF Next

(* As long as nothing disturbs it, Calm holds.                             *)
THEOREM CalmCorrect == Spec => [](TypeOK /\ (Undisturbed => Calm))
<1>1. Init => TypeOK /\ (Undisturbed => Calm)
  BY TypeInit, CalmInit
<1>2. (TypeOK /\ (Undisturbed => Calm)) /\ [Next]_vars => (TypeOK /\ (Undisturbed => Calm))'
  BY TypeNext, CalmNext
<1> QED
  BY <1>1, <1>2, PTL DEF Spec

LEMMA AtMostOne ==
  ASSUME NEW S, NEW x, S \subseteq {x}
  PROVE  Cardinality(S) <= 1
<1>1. IsFiniteSet({x}) /\ Cardinality({x}) = 1
  BY FS_Singleton
<1> QED
  BY <1>1, FS_Subset, FS_CardinalityType

(* The three kinds of Executions exclude each other, and each has at most  *)
(* one member.                                                             *)
LEMMA OneExecution ==
  ASSUME TypeOK, Calm, NEW n \in Nodes
  PROVE  /\ Cardinality(Executions(n)) <= 1
         /\ \A k \in Messages : k[1] = n => agentq[k] <= 1
<1> DEFINE InSession == {<<"session", w>> :
                           w \in {v \in Workers : session[v].node = n
                                                  /\ session[v].step # "returning"}}
           InQueue == {<<"queue", m>> : m \in {k \in Messages : k[1] = n /\ agentq[k] > 0}}
           ToSend == {<<"dispatch", d>> : d \in dispatch \cap {n}}
<1>1. Executions(n) = InSession \cup InQueue \cup ToSend
  BY DEF Executions
<1>2. \A k \in Messages : k[1] = n => k = <<n, 0>> \/ k = <<n, 1>>
  BY DEF Messages, MaxExecRetries
<1>3. agentq[<<n, 0>>] \in {0, 1} /\ agentq[<<n, 1>>] = 0
  BY DEF Calm, OneHolder, Queued, Retried
<1>4. InQueue \subseteq {<<"queue", <<n, 0>>>>} /\ (Queued(n) = 0 => InQueue = {})
  BY <1>2, <1>3 DEF Queued
<1>5. ToSend \subseteq {<<"dispatch", n>>} /\ (n \notin dispatch => ToSend = {})
  OBVIOUS
<1>6. ~OnWorker(n) => InSession = {}
  <2>1. \A w \in Workers : session[w].step = "idle" => session[w].node # n
    BY BoundsAreNaturals DEF Calm, OneHolder
  <2> QED
    BY <2>1 DEF OnWorker
<1>7. \E x : InSession \subseteq {x}
  <2>1. \A v, w \in Workers :
          /\ session[v].node = n /\ session[v].step # "returning"
          /\ session[w].node = n /\ session[w].step # "returning"
          => v = w
    BY BoundsAreNaturals DEF Calm, OneHolder
  <2>2. CASE InSession = {}
    BY <2>2
  <2>3. ASSUME NEW w \in Workers, session[w].node = n, session[w].step # "returning"
        PROVE  InSession \subseteq {<<"session", w>>}
    BY <2>1, <2>3
  <2> QED
    BY <2>2, <2>3
<1>8. \/ n \in dispatch /\ Queued(n) = 0 /\ ~OnWorker(n)
      \/ n \notin dispatch /\ Queued(n) = 1 /\ ~OnWorker(n)
      \/ n \notin dispatch /\ Queued(n) = 0
  BY DEF Calm, OneHolder
<1>9. \E x : Executions(n) \subseteq {x}
  <2> HIDE DEF InSession, InQueue, ToSend
  <2> QED
    BY <1>1, <1>4, <1>5, <1>6, <1>7, <1>8
<1> QED
  BY <1>2, <1>3, <1>9, AtMostOne

(* A node is executed by one agent worker at a time, whatever retries,     *)
(* reworks, approvals and cancellations happen, as long as no process      *)
(* fails and no brief update is merged.                                    *)
THEOREM SingleExecutionCorrect == Spec => []SingleExecution
<1>1. TypeOK /\ (Undisturbed => Calm) => SingleExecution
  BY OneExecution DEF SingleExecution
<1> QED
  BY <1>1, CalmCorrect, PTL

(* Under the same conditions a task never has more nodes queued, running   *)
(* or waiting than max_concurrent_agents_per_task.                         *)
THEOREM WithinConcurrencyCorrect == Spec => []WithinConcurrency
<1>1. TypeOK /\ (Undisturbed => Calm) => WithinConcurrency
  <2> SUFFICES ASSUME Calm
               PROVE  Cardinality(InStatus(node, {"QUEUED", "RUNNING", "WAITING"})) <= MaxConcurrent
    BY DEF WithinConcurrency
  <2> DEFINE A == InStatus(node, {"QUEUED", "RUNNING", "WAITING"})
  <2>1. A \subseteq Busy /\ Busy \subseteq Nodes
    BY DEF InStatus, Busy, ActiveStatus
  <2>2. Cardinality(A) <= Cardinality(Busy) /\ Cardinality(A) \in Nat /\ Cardinality(Busy) \in Nat
    BY <2>1, BusyIsFinite
  <2> QED
    BY <2>2, BoundsAreNaturals DEF Calm, SlotsKept
<1> QED
  BY <1>1, CalmCorrect, PTL
=============================================================================
