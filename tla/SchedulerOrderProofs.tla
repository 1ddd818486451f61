------------------------- MODULE SchedulerOrderProofs -------------------------
(***************************************************************************)
(* Proofs about the order of the work of Scheduler: what a node may start  *)
(* after, what a delivery rests on, and that an end is an end.  They build *)
(* on Calm of SchedulerProofs.                                             *)
(***************************************************************************)
EXTENDS SchedulerProofs, WellFoundedInduction

Resting == {"PENDING", "CANCELED", "RETRYING"}

(* A node that is being executed, or has been since it last rested.        *)
Acting(n) == Held(n) \/ node[n].status \notin Resting

Copied == phase \in {"loaded", "gating"}

(* What a node that acts depends on has succeeded, in the rows and in the  *)
(* copy of the present pass.  The copy matters when the pass cancels: it   *)
(* overwrites the row of every node it has not seen finished.              *)
Order ==
  \A n \in Nodes : \A d \in DependsOn[n] :
    ~SentBack(n, d) =>
      /\ Acting(n) => node[d].status = "SUCCEEDED"
      /\ (Copied /\ (Acting(n) \/ seenNode[n].status \notin Resting)
            => seenNode[d].status = "SUCCEEDED")

-----------------------------------------------------------------------------
(* What agents, the supervisor and the users can do between two steps of   *)
(* the scheduler: rows are written of held nodes, and of waiting ones.     *)
Outside ==
  /\ UNCHANGED <<phase, seenTask, seenNode, dispatch>>
  /\ task'.retries = task.retries
  /\ task'.cancel = task.cancel \/ (task'.cancel /\ task.status \notin Terminal)
  /\ task'.status \in Terminal => task'.status = task.status
  /\ gate' = gate \/ \E n \in Nodes : Held(n)
  /\ \A n \in Nodes :
       /\ Held(n)' => Held(n)
       /\ \/ node'[n] = node[n]
          \/ Held(n)
          \/ node[n].status = "WAITING" /\ node'[n].status = "READY" /\ n \notin approvals'
       /\ node'[n].status = "CANCELED" => node[n].status = "CANCELED" \/ task.cancel
       /\ n \in approvals' => n \in approvals \/ node'[n].status = "WAITING"

LEMMA SessionOutside ==
  ASSUME TypeOK, NEW w \in Workers, NEW n \in Nodes, n = session[w].node,
         session[w].step \notin {"idle", "returning"},
         UNCHANGED <<agentq, OutsideAgent>>,
         task' = task \/ task' = [task EXCEPT !.status = "WAITING_APPROVAL"],
         \A v \in Workers : v # w => session'[v] = session[v],
         session'[w].step = "idle" \/ session'[w].node = n,
         \A m \in Nodes : m # n => node'[m] = node[m],
         node'[n].status = "CANCELED" => node[n].status = "CANCELED" \/ task.cancel,
         approvals' \subseteq approvals \cup {n}, n \in approvals' => n \in approvals \/ node'[n].status = "WAITING"
  PROVE  Outside
<1>1. OnWorker(n) /\ Held(n)
  BY DEF OnWorker, Held
<1>2. \A m \in Nodes : OnWorker(m)' => OnWorker(m)
  BY <1>1 DEF OnWorker
<1>3. \A m \in Nodes : Held(m)' => Held(m)
  BY <1>2 DEF Held, Queued, OutsideAgent, control_vars
<1>4. /\ task'.retries = task.retries /\ task'.cancel = task.cancel
      /\ task'.status \in Terminal => task'.status = task.status
  BY DEF TypeOK, TaskRow, Terminal
<1>5. UNCHANGED <<phase, seenTask, seenNode, dispatch>>
  BY DEF OutsideAgent, control_vars
<1> QED
  BY <1>1, <1>3, <1>4, <1>5 DEF Outside

LEMMA TakeOutside ==
  ASSUME TypeOK, Calm, NEW w \in Workers, NEW n \in Nodes, NEW r \in 0..MaxExecRetries,
         ExecuteStart(w, n, r) \/ ExecuteIgnore(w, n, r)
  PROVE  Outside /\ Held(n) /\ Queued(n) = 1
<1>0. \A m \in Nodes : <<m, 0>> \in Messages /\ <<m, 1>> \in Messages
  BY DEF Messages, MaxExecRetries
<1>1. r = 0 /\ Queued(n) = 1
  <2>1. (r = 0 /\ Queued(n) > 0) \/ (r = 1 /\ Retried(n) > 0)
    BY DEF ExecuteStart, ExecuteIgnore, Receive, MaxExecRetries, Queued, Retried
  <2>2. Retried(n) = 0 /\ Queued(n) \in {0, 1}
    BY DEF Calm, OneHolder
  <2> QED
    BY <2>1, <2>2
<1>2. Held(n)
  BY <1>1 DEF Held
<1>3. \A m \in Nodes : m # n => Queued(m)' = Queued(m)
  <2>1. agentq' = [agentq EXCEPT ![<<n, 0>>] = agentq[<<n, 0>>] - 1] /\ agentq \in [Messages -> Nat]
    BY <1>1 DEF ExecuteStart, ExecuteIgnore, Receive, TypeOK
  <2> QED
    BY <1>0, <2>1 DEF Queued
<1>4. UNCHANGED <<dispatch, phase, seenTask, seenNode, task, gate, approvals>>
  BY DEF ExecuteStart, ExecuteIgnore, OutsideAgent, control_vars, rows, Untouched
<1>5. /\ \A m \in Nodes : m # n => node'[m] = node[m]
      /\ node'[n].status = node[n].status \/ node'[n].status = "RUNNING"
  BY NodeParts DEF ExecuteStart, ExecuteIgnore, rows, Nodes0, NodeRow
<1>6. \A v \in Workers : session'[v] = session[v] \/ session'[v].node = n
  BY DEF ExecuteStart, ExecuteIgnore, TypeOK
<1>7. \A m \in Nodes : m # n => (OnWorker(m)' => OnWorker(m))
  BY <1>6 DEF OnWorker
<1>8. \A m \in Nodes : Held(m)' => Held(m)
  BY <1>2, <1>3, <1>4, <1>7 DEF Held
<1> QED
  BY <1>1, <1>2, <1>4, <1>5, <1>8 DEF Outside

LEMMA AgentOutside ==
  ASSUME TypeOK, Calm, NEW w \in Workers, Agent(w)
  PROVE  Outside
<1> USE NodeParts
<1> DEFINE n == session[w].node
<1>1. CASE Take(w)
  BY <1>1, TakeOutside DEF Take
<1>2. ASSUME n \in Nodes, NEW st, NEW b,
             \/ node' = [node EXCEPT ![n].status = st]
             \/ node' = [node EXCEPT ![n].status = st, ![n].rework = b]
      PROVE  node'[n].status = st /\ \A m \in Nodes : m # n => node'[m] = node[m]
  <2> HIDE DEF n
  <2> QED
    BY <1>2 DEF Nodes0, NodeRow
<1>12. ASSUME n \in Nodes, node' = Applied(n)
       PROVE  node'[n].status = node[n].status /\ \A m \in Nodes : m # n => node'[m] = node[m]
  <2> HIDE DEF n
  <2> QED
    BY <1>12 DEF Nodes0, NodeRow, Applied
<1>3. ASSUME NEW st, Step(w, st)
      PROVE  session'[w].node = n /\ \A v \in Workers : v # w => session'[v] = session[v]
  BY <1>3 DEF Step, TypeOK
<1>4. ASSUME session[w].step \in {"round", "calling", "closing"},
             UNCHANGED <<agentq, OutsideAgent>>,
             task' = task \/ task' = [task EXCEPT !.status = "WAITING_APPROVAL"],
             \A v \in Workers : v # w => session'[v] = session[v],
             session'[w].step = "idle" \/ session'[w].node = n,
             \A m \in Nodes : m # n => node'[m] = node[m],
             node'[n].status = "CANCELED" => node[n].status = "CANCELED" \/ task.cancel,
             approvals' \subseteq approvals \cup {n},
             n \in approvals' => n \in approvals \/ node'[n].status = "WAITING"
      PROVE  Outside
  <2>1. n \in Nodes
    BY <1>4
  <2> QED
    BY <1>4, <2>1, SessionOutside
<1>5. CASE ExecuteRound(w)
  <2>1. session[w].step = "round" /\ n \in Nodes /\ UNCHANGED <<agentq, OutsideAgent, task, approvals>>
    BY <1>5 DEF ExecuteRound, Executing
  <2>2. \/ task.cancel /\ node' = [node EXCEPT ![n].status = "CANCELED"]
        \/ node' = Applied(n)
    BY <1>5 DEF ExecuteRound
  <2>3. session'[w].node = n /\ \A v \in Workers : v # w => session'[v] = session[v]
    BY <1>5 DEF ExecuteRound, Step, TypeOK
  <2>4. /\ \A m \in Nodes : m # n => node'[m] = node[m]
        /\ node'[n].status = node[n].status \/ task.cancel
    <3>1. CASE task.cancel /\ node' = [node EXCEPT ![n].status = "CANCELED"]
      BY <1>2, <2>1, <3>1
    <3>2. CASE node' = Applied(n)
      BY <1>12, <2>1, <3>2
    <3> QED
      BY <2>2, <3>1, <3>2
  <2> QED
    BY <1>4, <2>1, <2>3, <2>4
<1>6. CASE ExecuteTools(w)
  <2>1. session[w].step = "calling" /\ n \in Nodes /\ UNCHANGED <<agentq, OutsideAgent, task, node, approvals>>
    BY <1>6 DEF ExecuteTools, Executing, rows
  <2> QED
    BY <1>3, <1>4, <1>6, <2>1 DEF ExecuteTools
<1>7. CASE ExecuteFail(w)
  <2>1. session[w].step = "calling" /\ n \in Nodes /\ UNCHANGED <<agentq, OutsideAgent, task, approvals>>
    BY <1>7 DEF ExecuteFail, Executing
  <2>2. node' = [node EXCEPT ![n].status = "FAILED", ![n].rework = FALSE]
    BY <1>7 DEF ExecuteFail, SetStatus
  <2>3. node'[n].status = "FAILED" /\ \A m \in Nodes : m # n => node'[m] = node[m]
    BY <1>2, <2>1, <2>2
  <2>4. session'[w].node = n /\ \A v \in Workers : v # w => session'[v] = session[v]
    BY <1>3, <1>7 DEF ExecuteFail
  <2> QED
    BY <1>4, <2>1, <2>3, <2>4
<1>8. CASE ExecuteWait(w)
  <2>1. session[w].step = "calling" /\ n \in Nodes /\ UNCHANGED <<agentq, OutsideAgent>>
        /\ approvals' \subseteq approvals \cup {n}
    BY <1>8 DEF ExecuteWait, Executing
  <2>2. node' = [node EXCEPT ![n].status = "WAITING"]
        /\ (task' = task \/ task' = [task EXCEPT !.status = "WAITING_APPROVAL"])
    BY <1>8 DEF ExecuteWait
  <2>3. node'[n].status = "WAITING" /\ \A m \in Nodes : m # n => node'[m] = node[m]
    BY <1>2, <2>1, <2>2
  <2>4. session'[w].step = "idle" /\ \A v \in Workers : v # w => session'[v] = session[v]
    BY <1>8 DEF ExecuteWait, TypeOK, Idle
  <2> QED
    BY <1>4, <2>1, <2>2, <2>3, <2>4
<1>9. CASE ExecuteAnswer(w)
  <2>1. session[w].step = "calling" /\ n \in Nodes /\ UNCHANGED <<agentq, OutsideAgent, task, approvals>>
    BY <1>9 DEF ExecuteAnswer, Executing
  <2>2. node' = Applied(n) /\ \E st : Step(w, st)
    BY <1>9 DEF ExecuteAnswer
  <2>3. node'[n].status = node[n].status /\ \A m \in Nodes : m # n => node'[m] = node[m]
    BY <1>12, <2>1, <2>2
  <2> QED
    BY <1>3, <1>4, <2>1, <2>2, <2>3
<1>10. CASE ExecuteClose(w)
  <2>1. session[w].step = "closing" /\ n \in Nodes /\ UNCHANGED <<agentq, OutsideAgent, task, approvals>>
    BY <1>10 DEF ExecuteClose, Executing
  <2>2. PICK st \in {"SUCCEEDED", "FAILED"} :
          \E b : node' = [node EXCEPT ![n].status = st, ![n].rework = b]
    BY <1>10 DEF ExecuteClose, SetStatus
  <2>3. node'[n].status = st /\ \A m \in Nodes : m # n => node'[m] = node[m]
    BY <1>2, <2>1, <2>2
  <2>4. session'[w].node = n /\ \A v \in Workers : v # w => session'[v] = session[v]
    BY <1>3, <1>10 DEF ExecuteClose
  <2> QED
    BY <1>4, <2>1, <2>3, <2>4
<1>11. CASE ExecuteReturn(w)
  <2>1. /\ UNCHANGED <<rows, agentq, gate, approvals, OutsideAgent>>
        /\ session'[w].step = "idle" /\ \A v \in Workers : v # w => session'[v] = session[v]
    BY <1>11 DEF ExecuteReturn, Idle, TypeOK, Untouched
  <2>2. \A m \in Nodes : OnWorker(m)' => OnWorker(m)
    BY <2>1 DEF OnWorker
  <2> QED
    BY <2>1, <2>2 DEF Outside, Held, Queued, OutsideAgent, control_vars, rows
<1> QED
  BY <1>1, <1>5, <1>6, <1>7, <1>8, <1>9, <1>10, <1>11 DEF Agent, Outcome

LEMMA UsersOutside ==
  ASSUME TypeOK, Calm, Undisturbed', [Next]_vars, Supervise \/ User \/ UNCHANGED vars
  PROVE  Outside
<1> USE NodeParts DEF rows, control_vars, OutsideSupervisor
<1>1. ASSUME UNCHANGED <<dispatch, phase, seenTask, seenNode, agentq, session, node, gate, approvals>>,
             \/ task' = task
             \/ task.status \notin Terminal /\ task' = [task EXCEPT !.cancel = TRUE, !.status = "CANCELING"]
      PROVE  Outside
  <2>1. \A m \in Nodes : Held(m)' <=> Held(m)
    BY <1>1 DEF Held, Queued, OnWorker
  <2>2. /\ task'.retries = task.retries
        /\ task'.cancel = task.cancel \/ (task'.cancel /\ task.status \notin Terminal)
        /\ task'.status \in Terminal => task'.status = task.status
    BY <1>1 DEF TypeOK, TaskRow, Terminal
  <2> QED
    BY <1>1, <2>1, <2>2 DEF Outside
<1>2. CASE UNCHANGED vars
  BY <1>1, <1>2 DEF vars
<1>3. CASE Supervise
  BY <1>1, <1>3, WasUndisturbed DEF Supervise, SuperviseBegin, SuperviseReply
<1>4. ASSUME NEW d \in Directives, CreateTaskMessage(d)  PROVE Outside
  BY <1>1, <1>4 DEF CreateTaskMessage
<1>5. CASE CancelTask
  BY <1>1, <1>5 DEF CancelTask
<1>6. ASSUME NEW n \in Nodes, DecideApproval(n)  PROVE Outside
  <2>1. UNCHANGED <<dispatch, phase, seenTask, seenNode, agentq, session, gate>>
    BY <1>6 DEF DecideApproval
  <2>2. /\ task'.retries = task.retries /\ task'.cancel = task.cancel
        /\ task'.status = "QUEUED"
    BY <1>6 DEF DecideApproval, TypeOK, TaskRow
  <2>3. \A m \in Nodes : \/ node'[m] = node[m]
                         \/ /\ node[m].status = "WAITING" /\ node'[m].status = "READY"
                            /\ m \notin approvals'
    BY <1>6 DEF DecideApproval, Nodes0, NodeRow
  <2>4. \A m \in Nodes : Held(m)' <=> Held(m)
    BY <2>1 DEF Held, Queued, OnWorker
  <2> QED
    BY <1>6, <2>1, <2>2, <2>3, <2>4 DEF Outside, Terminal, DecideApproval
<1> QED
  BY <1>2, <1>3, <1>4, <1>5, <1>6 DEF User

(* A held node is neither finished nor waiting.                            *)
LEMMA HeldParts ==
  ASSUME TypeOK, Calm, NEW n \in Nodes, Held(n)
  PROVE  /\ node[n].status \in {"QUEUED", "RUNNING", "CANCELED"}
         /\ node[n].status = "CANCELED" => task.cancel
BY DEF Calm, HeldStatus, OneHolder, Held, Canceling

(* The rows of finished nodes are left alone.                              *)
LEMMA FinishedStays ==
  ASSUME TypeOK, Calm, Outside, NEW n \in Nodes, node[n].status \in {"SUCCEEDED", "FAILED"}
  PROVE  node'[n] = node[n]
BY HeldParts DEF Outside

LEMMA OrderOutside ==
  ASSUME TypeOK, Calm, Order, Outside
  PROVE  Order'
<1>1. \A n \in Nodes : Acting(n)' => Acting(n)
  BY DEF Outside, Acting, Resting
<1>2. \A n \in Nodes : node[n].status = "SUCCEEDED" => node'[n].status = "SUCCEEDED"
  BY FinishedStays
<1>3. \A n \in Nodes, d \in Nodes : SentBack(n, d)' <=> SentBack(n, d)
  BY DEF SentBack, Outside
<1>4. \A n \in Nodes : DependsOn[n] \subseteq Nodes
  BY PlanIsValid DEF Producers
<1> QED
  BY <1>1, <1>2, <1>3, <1>4 DEF Order, Outside, Copied

-----------------------------------------------------------------------------
(* The copy of a pass, row by row.                                         *)
LEMMA Dependencies ==
  ASSUME NEW n \in Nodes
  PROVE  DependsOn[n] \subseteq Nodes /\ Reviewer \notin DependsOn[n] /\ Reviewer \in Nodes
BY PlanIsValid DEF Producers

Base == IF Reworks THEN SendBack(seenNode) ELSE seenNode

Moved == Retryable(Base) \cup Unblocked(Base)

Marked(row, st) == [row EXCEPT !.status = st]

LEMMA WithStatusRow ==
  ASSUME NEW ns, NEW S, NEW st, NEW n \in Nodes
  PROVE  WithStatus(ns, S, st)[n] = IF n \in S THEN Marked(ns[n], st) ELSE ns[n]
BY DEF WithStatus, Marked

LEMMA SendBackRow ==
  ASSUME NEW ns, NEW n \in Nodes
  PROVE  SendBack(ns)[n] = IF n = Reviewer THEN Marked(ns[n], "PENDING")
                           ELSE IF n \in DependsOn[Reviewer] THEN Marked(ns[n], "READY")
                           ELSE ns[n]
<1> DEFINE back == WithStatus(ns, DependsOn[Reviewer], "READY")
<1>1. Reviewer \notin DependsOn[Reviewer]
  BY PlanIsValid, Dependencies
<1>2. back[n] = IF n \in DependsOn[Reviewer] THEN Marked(ns[n], "READY") ELSE ns[n]
  BY WithStatusRow
<1>3. SendBack(ns) = WithStatus(back, {Reviewer}, "PENDING")
  BY DEF SendBack
<1> HIDE DEF back
<1>4. SendBack(ns)[n] = IF n \in {Reviewer} THEN Marked(back[n], "PENDING") ELSE back[n]
  BY <1>3, WithStatusRow
<1> QED
  BY <1>1, <1>2, <1>4

LEMMA CopyRows ==
  ASSUME TypeOK, NEW n \in Nodes
  PROVE  /\ Base \in Nodes0 /\ Copy \in Nodes0
         /\ Copy[n] = IF n \in Moved THEN Marked(Base[n], "READY") ELSE Base[n]
         /\ Base[n] = IF ~Reworks THEN seenNode[n]
                      ELSE IF n = Reviewer THEN Marked(seenNode[n], "PENDING")
                      ELSE IF n \in DependsOn[Reviewer] THEN Marked(seenNode[n], "READY")
                      ELSE seenNode[n]
         /\ n \in Moved => Base[n].status \in {"FAILED", "PENDING", "RETRYING"}
<1>1. Base \in Nodes0 /\ Copy \in Nodes0
  BY NodeParts, SendBackType, CopyType DEF Base
<1>2. Copy = WithStatus(Base, Moved, "READY")
  BY DEF Copy, Promoted, Base, Moved, Reworks
<1>3. n \in Moved => Base[n].status \in {"FAILED", "PENDING", "RETRYING"}
  BY DEF Moved, Retryable, Unblocked, InStatus
<1>4. Copy[n] = IF n \in Moved THEN Marked(Base[n], "READY") ELSE Base[n]
  BY <1>2, WithStatusRow
<1>5. CASE ~Reworks
  BY <1>1, <1>3, <1>4, <1>5 DEF Base
<1>6. CASE Reworks
  <2>1. Base = SendBack(seenNode)
    BY <1>6 DEF Base
  <2>2. Base[n] = IF n = Reviewer THEN Marked(seenNode[n], "PENDING")
                  ELSE IF n \in DependsOn[Reviewer] THEN Marked(seenNode[n], "READY")
                  ELSE seenNode[n]
    BY <2>1, SendBackRow
  <2> QED
    BY <1>1, <1>3, <1>4, <1>6, <2>2
<1> QED
  BY <1>5, <1>6

(* The same with the types of the rows applied.                            *)
LEMMA CopyStatus ==
  ASSUME TypeOK, NEW n \in Nodes
  PROVE  /\ Copy[n].status = IF n \in Moved THEN "READY" ELSE Base[n].status
         /\ Base[n].status = IF ~Reworks THEN seenNode[n].status
                             ELSE IF n = Reviewer THEN "PENDING"
                             ELSE IF n \in DependsOn[Reviewer] THEN "READY"
                             ELSE seenNode[n].status
         /\ Copy[n].attempt = seenNode[n].attempt /\ Copy[n].rework = seenNode[n].rework
         /\ Base[n].attempt = seenNode[n].attempt
         /\ n \in Moved => Base[n].status \in {"FAILED", "PENDING", "RETRYING"}
<1>1. seenNode[n] \in NodeRow /\ Base[n] \in NodeRow
  BY CopyRows, NodeParts DEF Nodes0
<1>2. \A r \in NodeRow, st \in NodeStatus :
        /\ Marked(r, st).status = st
        /\ Marked(r, st).attempt = r.attempt /\ Marked(r, st).rework = r.rework
  BY DEF Marked, NodeRow
<1>3. "PENDING" \in NodeStatus /\ "READY" \in NodeStatus
  BY DEF NodeStatus
<1>4. /\ Copy[n].status = IF n \in Moved THEN "READY" ELSE Base[n].status
      /\ Copy[n].attempt = Base[n].attempt /\ Copy[n].rework = Base[n].rework
  BY <1>1, <1>2, <1>3, CopyRows
<1>5. /\ Base[n].status = IF ~Reworks THEN seenNode[n].status
                          ELSE IF n = Reviewer THEN "PENDING"
                          ELSE IF n \in DependsOn[Reviewer] THEN "READY"
                          ELSE seenNode[n].status
      /\ Base[n].attempt = seenNode[n].attempt /\ Base[n].rework = seenNode[n].rework
  BY <1>1, <1>2, <1>3, CopyRows
<1> QED
  BY <1>4, <1>5, CopyRows

-----------------------------------------------------------------------------
(* Order, said of a copy of the rows and of the retries there will be.     *)
InOrder(k, ns) ==
  \A n \in Nodes : \A d \in DependsOn[n] :
    /\ k = 0 \/ n = Reviewer \/ d \notin DependsOn[Reviewer]
    /\ ns[n].status \notin Resting
    => ns[d].status = "SUCCEEDED"

LEMMA CopyInOrder ==
  ASSUME TypeOK, Calm, Order, phase = "loaded", ~seenTask.cancel,
         NEW k \in Nat, Reworks => k > 0, task.retries > 0 => k > 0
  PROVE  InOrder(k, Copy)
<1> SUFFICES ASSUME NEW n \in Nodes, NEW d \in DependsOn[n],
                    k = 0 \/ n = Reviewer \/ d \notin DependsOn[Reviewer],
                    Copy[n].status \notin Resting
             PROVE  Copy[d].status = "SUCCEEDED"
  BY DEF InOrder
<1>1. d \in Nodes /\ d # Reviewer
  BY Dependencies
<1>2. CASE n = Reviewer
  BY <1>2, CopyRespects DEF Respects, ReviewInOrder, Resting
<1>3. CASE n # Reviewer
  <2>1. ~SentBack(n, d)
    BY <1>3 DEF SentBack
  <2>2. Base[d].status = "SUCCEEDED" => Copy[d].status = "SUCCEEDED"
    BY <1>1, CopyStatus
  <2>3. seenNode[d].status = "SUCCEEDED" => Base[d].status = "SUCCEEDED"
    BY <1>1, <1>3, CopyStatus
  <2>4. seenNode[n].status \notin Resting => seenNode[d].status = "SUCCEEDED"
    BY <2>1 DEF Order, Copied
  <2>5. CASE n \in Moved /\ Base[n].status \in Resting
    <3>1. n \in Unblocked(Base)
      BY <2>5 DEF Moved, Retryable, Resting
    <3> QED
      BY <2>2, <3>1 DEF Unblocked, InStatus
  <2>6. CASE n \notin Moved \/ Base[n].status \notin Resting
    <3>1. Base[n].status \notin Resting
      BY <2>6, CopyStatus
    <3>2. seenNode[n].status \notin Resting
      <4>1. CASE Reworks /\ n \in DependsOn[Reviewer]
        <5>1. seenNode[Reviewer].status = "FAILED"
          BY <4>1 DEF Reworks, ReworkDue
        <5>2. seenNode[n].status = "SUCCEEDED"
          BY <4>1, <5>1, PassFacts DEF ReviewInOrder
        <5> QED
          BY <5>2 DEF Resting
      <4>2. CASE ~(Reworks /\ n \in DependsOn[Reviewer])
        BY <1>3, <3>1, <4>2, CopyStatus
      <4> QED
        BY <4>1, <4>2
    <3> QED
      BY <2>2, <2>3, <2>4, <3>2
  <2> QED
    BY <2>5, <2>6
<1> QED
  BY <1>2, <1>3

LEMMA QueuingInOrder ==
  ASSUME TypeOK, NEW k, InOrder(k, Copy), NEW B, \A n \in B : n \in Nodes /\ Copy[n].status = "READY"
  PROVE  InOrder(k, WithStatus(Copy, B, "QUEUED"))
<1>1. \A n \in Nodes : WithStatus(Copy, B, "QUEUED")[n].status
                         = IF n \in B THEN "QUEUED" ELSE Copy[n].status
  BY CopyType, WithStatusParts DEF NodeStatus
<1> QED
  BY <1>1, Dependencies DEF InOrder, Resting

(* A pass that commits a copy in order leaves the rows in order.           *)
LEMMA OrderPass ==
  ASSUME TypeOK, TypeOK', Calm, phase \in {"loaded", "gating"}, ~seenTask.cancel,
         NEW ns, Respects(ns), CommitNodes(ns), InOrder(task'.retries, ns),
         UNCHANGED <<agentq, session>>, dispatch' \subseteq Nodes,
         \A n \in dispatch' : ns[n].status = "QUEUED",
         ~Copied' \/ (seenNode' = ns /\ \A n \in Nodes : seenNode[n].status \notin ActiveStatus)
  PROVE  Order'
<1>1. \A n \in Nodes : /\ Queued(n)' = Queued(n)
                       /\ OnWorker(n)' <=> OnWorker(n)
  BY DEF Queued, OnWorker
<1>2. \A n \in Nodes : Acting(n)' => ns[n].status \notin Resting
  <2> SUFFICES ASSUME NEW n \in Nodes, Acting(n)'  PROVE ns[n].status \notin Resting
    OBVIOUS
  <2>1. CASE seenNode[n].status \in ActiveStatus
    BY <2>1 DEF Respects, ActiveStatus, Resting
  <2>2. CASE seenNode[n].status \notin ActiveStatus /\ node'[n].status \notin Resting
    BY <2>2, CommitParts
  <2>3. CASE seenNode[n].status \notin ActiveStatus /\ Held(n)'
    <3>1. ~Held(n)
      BY <2>3, PassFacts
    <3>2. n \in dispatch'
      BY <1>1, <2>3, <3>1 DEF Held
    <3> QED
      BY <3>2 DEF Resting
  <2> QED
    BY <2>1, <2>2, <2>3 DEF Acting
<1>3. \A d \in Nodes : ns[d].status = "SUCCEEDED" => node'[d].status = "SUCCEEDED"
  BY CommitParts DEF Respects, ActiveStatus
<1>4. \A n, d \in Nodes : ~SentBack(n, d)' => (task'.retries = 0 \/ n = Reviewer \/ d \notin DependsOn[Reviewer])
  BY DEF SentBack, TypeOK, TaskRow
<1>5. \A n \in Nodes : DependsOn[n] \subseteq Nodes
  BY Dependencies
<1> QED
  BY <1>2, <1>3, <1>4, <1>5 DEF Order, InOrder, Copied

LEMMA PassRetries ==
  ASSUME TypeOK, NEW st, NEW k \in {seenTask.retries, seenTask.retries + 1}, NEW flushed,
         CommitTask(st, k, flushed)
  PROVE  /\ task.retries > 0 => task'.retries > 0
         /\ k = seenTask.retries + 1 => task'.retries > 0
<1>1. task'.retries = IF k # seenTask.retries THEN k ELSE task.retries
  BY DEF CommitTask, TypeOK, TaskRow
<1>2. seenTask.retries \in Nat /\ task.retries \in Nat
  BY BoundsAreNaturals DEF TypeOK, TaskRow
<1> QED
  BY <1>1, <1>2

(* A canceling pass takes no success away that a node acts on.             *)
LEMMA OrderCancel ==
  ASSUME TypeOK, Calm, Order, ScheduleCancel
  PROVE  Order'
<1> USE NodeParts
<1> DEFINE S == Nodes \ InStatus(seenNode, {"SUCCEEDED", "FAILED"})
<1>1. /\ CommitNodes(WithStatus(seenNode, S, "CANCELED")) /\ Close /\ phase = "loaded"
      /\ UNCHANGED <<agentq, session>> /\ CommitTask("CANCELED", seenTask.retries, FALSE)
  BY DEF ScheduleCancel, OutsideControl
<1>2. /\ dispatch = {} /\ dispatch' = {} /\ ~Copied'
      /\ task.retries > 0 => task'.retries > 0
  BY <1>1, PassRetries, ClosedPass DEF Calm, OneHolder, Copied
<1>3. \A n \in Nodes :
        /\ node'[n].status = node[n].status \/ (node'[n].status = "CANCELED" /\ n \in S)
        /\ Held(n)' <=> Held(n)
  <2>1. \A n \in Nodes : WithStatus(seenNode, S, "CANCELED")[n].status
                           = (IF n \in S THEN "CANCELED" ELSE seenNode[n].status)
    BY WithStatusParts DEF NodeStatus
  <2>2. \A n \in Nodes : Held(n)' <=> Held(n)
    BY <1>1, <1>2 DEF Held, Queued, OnWorker
  <2> HIDE DEF S
  <2> QED
    BY <1>1, <2>1, <2>2 DEF CommitNodes, Nodes0, NodeRow
<1>4. \A n \in Nodes : seenNode[n].status = "SUCCEEDED" => n \notin S
  BY DEF InStatus
<1> HIDE DEF S
<1> SUFFICES ASSUME NEW n \in Nodes, NEW d \in DependsOn[n], ~SentBack(n, d)', Acting(n)'
             PROVE  node'[d].status = "SUCCEEDED"
  BY <1>2 DEF Order
<1>5. d \in Nodes /\ ~SentBack(n, d) /\ Acting(n)
  BY <1>2, <1>3, Dependencies DEF SentBack, Acting, Resting
<1>6. node[d].status = "SUCCEEDED" /\ seenNode[d].status = "SUCCEEDED"
  BY <1>1, <1>5 DEF Order, Copied
<1> QED
  BY <1>3, <1>4, <1>5, <1>6

(* What a rework of the gate leaves: everything it read had succeeded.     *)
LEMMA GateReworkParts ==
  ASSUME TypeOK, Calm, GateRework
  PROVE  \E ns \in {SendBack(seenNode), WithStatus(seenNode, {Reviewer}, "READY")} :
           /\ CommitNodes(ns) /\ seenNode' = ns /\ Respects(ns)
           /\ InOrder(seenTask.retries + 1, ns)
           /\ \A n \in Nodes : seenNode[n].status = "SUCCEEDED"
           /\ ~seenTask.cancel
<1> USE NodeParts
<1>1. PICK ns \in {SendBack(seenNode), WithStatus(seenNode, {Reviewer}, "READY")} :
        CommitNodes(ns) /\ seenNode' = ns
  BY DEF GateRework
<1>2. /\ phase = "gating" /\ ~seenTask.cancel
      /\ \A n \in Nodes : seenNode[n].status = "SUCCEEDED"
  BY DEF GateRework, Calm, PassInOrder, AllSucceeded, InStatus
<1>3. seenTask.retries \in Nat /\ Respects(seenNode)
  BY <1>2, PassFacts, BoundsAreNaturals DEF TypeOK, TaskRow
<1>4. CASE ns = SendBack(seenNode)
  <2>1. Respects(ns)
    BY <1>2, <1>3, <1>4, ReworkRespects
  <2>2. \A n \in Nodes : ns[n].status = (IF n = Reviewer THEN "PENDING"
                                         ELSE IF n \in DependsOn[Reviewer] THEN "READY"
                                         ELSE seenNode[n].status)
    BY <1>4, SendBackParts
  <2>3. InOrder(seenTask.retries + 1, ns)
    BY <1>2, <1>3, <2>2, Dependencies DEF InOrder, Resting
  <2> QED
    BY <1>1, <1>2, <2>1, <2>3
<1>5. CASE ns = WithStatus(seenNode, {Reviewer}, "READY")
  <2>1. \A n \in Nodes :
          /\ ns[n].status = (IF n \in {Reviewer} THEN "READY" ELSE seenNode[n].status)
          /\ ns[n].target = seenNode[n].target /\ ns[n].applied = seenNode[n].applied
    BY <1>5, WithStatusParts DEF NodeStatus
  <2>2. ns \in Nodes0
    BY <1>5, WithStatusType DEF NodeStatus
  <2>3. InOrder(seenTask.retries + 1, ns) /\ ReviewInOrder(ns)
    BY <1>2, <2>1, Dependencies DEF InOrder, ReviewInOrder
  <2>4. Respects(ns)
    BY <1>2, <1>3, <2>1, <2>2, <2>3 DEF Respects, ActiveStatus
  <2> QED
    BY <1>1, <1>2, <2>3, <2>4
<1> QED
  BY <1>1, <1>4, <1>5

LEMMA OrderControl ==
  ASSUME TypeOK, TypeOK', Calm, Order, Control
  PROVE  Order'
<1> USE DEF OutsideControl, OutsideGate, rows
<1>0. /\ task.retries \in Nat /\ task'.retries \in Nat /\ seenTask.retries \in Nat
      /\ \A n \in Nodes : DependsOn[n] \subseteq Nodes
  BY Dependencies, BoundsAreNaturals DEF TypeOK, TaskRow
<1>1. ASSUME UNCHANGED <<task, node, agentq, session>>,
             \A n \in Nodes : n \in dispatch' => Held(n),
             Copied' => seenNode' = node \/ (Copied /\ seenNode' = seenNode)
      PROVE  Order'
  <2>1. \A n \in Nodes : Acting(n)' => Acting(n)
    BY <1>1 DEF Acting, Held, Queued, OnWorker
  <2>2. \A n, d \in Nodes : SentBack(n, d)' <=> SentBack(n, d)
    BY <1>1 DEF SentBack
  <2>3. \A n \in Nodes : node[n].status \notin Resting => Acting(n)
    BY DEF Acting
  <2> QED
    BY <1>0, <1>1, <2>1, <2>2, <2>3 DEF Order
<1>2. ASSUME phase \in {"loaded", "gating"}, ~seenTask.cancel, Close, node' = node,
             task.retries > 0 => task'.retries > 0, UNCHANGED <<agentq, session>>
      PROVE  Order'
  <2>1. \A n \in Nodes : Acting(n)' => Acting(n)
    BY <1>2 DEF Acting, Held, Queued, OnWorker, Close
  <2>2. \A n, d \in Nodes : SentBack(n, d) => SentBack(n, d)'
    BY <1>2 DEF SentBack
  <2> QED
    BY <1>0, <1>2, <2>1, <2>2 DEF Order, Copied, Close
<1>3. ASSUME phase = "loaded", ~seenTask.cancel,
             NEW st, NEW flushed, CommitTask(st, CopyRetries, flushed)
      PROVE  InOrder(task'.retries, Copy)
  <2>1. CopyRetries \in {seenTask.retries, seenTask.retries + 1}
        /\ (Reworks => CopyRetries = seenTask.retries + 1)
    BY DEF CopyRetries
  <2>2. /\ task.retries > 0 => task'.retries > 0
        /\ Reworks => task'.retries > 0
    BY <1>3, <2>1, PassRetries
  <2> QED
    BY <1>0, <1>3, <2>2, CopyInOrder
<1>4. CASE RunTask \/ ReadNodes
  BY <1>1, <1>4 DEF RunTask, ReadNodes, Copied, Held
<1>5. CASE ScheduleFail \/ ScheduleWaiting \/ ScheduleBlocked
  <2>1. /\ phase = "loaded" /\ ~seenTask.cancel /\ CommitNodes(Copy) /\ Close
        /\ UNCHANGED <<agentq, session>>
    BY <1>5 DEF ScheduleFail, ScheduleWaiting, ScheduleBlocked, Dispatchable
  <2>2. InOrder(task'.retries, Copy)
    BY <1>3, <1>5, <2>1 DEF ScheduleFail, ScheduleWaiting, ScheduleBlocked
  <2>3. Respects(Copy) /\ ~Copied' /\ dispatch' = {}
    BY <2>1, CopyRespects DEF Copied, Close
  <2> QED
    BY <2>1, <2>2, <2>3, OrderPass
<1>6. CASE ScheduleDispatch
  <2>1. PICK B \in Batches(Copy) \ {{}} :
          /\ CommitTask(IF B \subseteq {Reviewer} THEN "REVIEWING" ELSE "RUNNING",
                        CopyRetries, Reworks)
          /\ CommitNodes(WithStatus(Copy, B, "QUEUED"))
          /\ dispatch' = B
    BY <1>6 DEF ScheduleDispatch
  <2>2. /\ phase = "loaded" /\ ~seenTask.cancel /\ phase' = "sending" /\ UNCHANGED <<agentq, session>>
    BY <1>6 DEF ScheduleDispatch, Dispatchable
  <2>3. \A n \in B : n \in Nodes /\ Copy[n].status = "READY"
    BY <2>1 DEF Batches, InStatus
  <2> DEFINE ns == WithStatus(Copy, B, "QUEUED")
  <2>4. InOrder(task'.retries, ns)
    BY <1>3, <2>1, <2>2, <2>3, QueuingInOrder
  <2>5. /\ ns \in Nodes0
        /\ \A n \in Nodes : /\ ns[n].status = (IF n \in B THEN "QUEUED" ELSE Copy[n].status)
                            /\ ns[n].target = Copy[n].target /\ ns[n].applied = Copy[n].applied
    BY CopyType, WithStatusType, WithStatusParts DEF NodeStatus
  <2>6. CommitNodes(ns)
    BY <2>1
  <2> HIDE DEF ns
  <2>7. Respects(Copy)
    BY <2>2, CopyRespects
  <2>8. ReviewInOrder(ns)
    BY <2>3, <2>5, <2>7, Dependencies, PlanIsValid DEF Respects, ReviewInOrder
  <2>9. Respects(ns)
    BY <2>3, <2>5, <2>7, <2>8 DEF Respects, ActiveStatus
  <2> QED
    BY <2>1, <2>2, <2>3, <2>4, <2>5, <2>6, <2>9, OrderPass DEF Copied
<1>7. CASE ScheduleDelivery
  <2>1. phase = "loaded" /\ ~seenTask.cancel /\ UNCHANGED <<agentq, session>>
    BY <1>7 DEF ScheduleDelivery
  <2>2. Stale(seenNode) = {}
    BY DEF Stale, Calm, FirstBrief
  <2>3. CASE Close /\ UNCHANGED rows
    BY <1>2, <2>1, <2>3
  <2>4. CASE phase' = "gating" /\ UNCHANGED <<rows, seenTask, seenNode, dispatch>>
    BY <1>1, <2>1, <2>4 DEF Copied, Held
  <2> QED
    BY <1>7, <2>2, <2>3, <2>4 DEF ScheduleDelivery
<1>8. CASE GatePass \/ GateFail
  <2>1. /\ phase = "gating" /\ Close /\ node' = node /\ UNCHANGED <<agentq, session>>
    BY <1>8 DEF GatePass, GateFail
  <2>2. ~seenTask.cancel
    BY <2>1 DEF Calm, PassInOrder
  <2>3. task.retries > 0 => task'.retries > 0
    BY <1>8, PassRetries DEF GatePass, GateFail
  <2> QED
    BY <1>2, <2>1, <2>2, <2>3
<1>9. CASE GateRework
  <2>1. PICK ns \in {SendBack(seenNode), WithStatus(seenNode, {Reviewer}, "READY")} :
           /\ CommitNodes(ns) /\ seenNode' = ns /\ Respects(ns)
           /\ InOrder(seenTask.retries + 1, ns)
           /\ \A n \in Nodes : seenNode[n].status = "SUCCEEDED"
           /\ ~seenTask.cancel
    BY <1>9, GateReworkParts
  <2>2. /\ phase = "gating" /\ UNCHANGED <<dispatch, agentq, session>> /\ dispatch = {}
        /\ CommitTask("REWORKING", seenTask.retries + 1, FALSE)
    BY <1>9 DEF GateRework, Calm, OneHolder
  <2>3. task'.retries = seenTask.retries + 1
    <3>1. task'.retries = IF seenTask.retries + 1 # seenTask.retries
                          THEN seenTask.retries + 1 ELSE task.retries
      BY <2>2 DEF CommitTask, TypeOK, TaskRow
    <3> QED
      BY <1>0, <3>1
  <2> QED
    BY <2>1, <2>2, <2>3, OrderPass DEF ActiveStatus
<1>10. CASE ScheduleRunning
  BY <1>2, <1>10 DEF ScheduleRunning, Dispatchable
<1>11. ASSUME NEW n \in Nodes, SendExecute(n)  PROVE Order'
  <2>1. /\ n \in dispatch /\ phase = "sending" /\ phase' \in {"idle", "sending"}
        /\ dispatch' = dispatch \ {n} /\ UNCHANGED <<node, task, session>>
        /\ agentq' = [agentq EXCEPT ![<<n, 0>>] = agentq[<<n, 0>>] + 1]
    BY <1>11 DEF SendExecute
  <2>2. \A m \in Nodes : m # n => Queued(m)' = Queued(m)
    <3>1. \A m \in Nodes : <<m, 0>> \in Messages
      BY DEF Messages, MaxExecRetries
    <3> QED
      BY <2>1, <3>1 DEF Queued, TypeOK
  <2>3. \A m \in Nodes : Acting(m)' => Acting(m)
    BY <2>1, <2>2 DEF Acting, Held, OnWorker
  <2>4. \A m, d \in Nodes : SentBack(m, d)' <=> SentBack(m, d)
    BY <2>1 DEF SentBack
  <2> QED
    BY <1>0, <2>1, <2>3, <2>4 DEF Order, Copied
<1> QED
  BY <1>4, <1>5, <1>6, <1>7, <1>8, <1>9, <1>10, <1>11, OrderCancel DEF Control

LEMMA OrderInit == Init => Order
<1> SUFFICES ASSUME Init, NEW n \in Nodes, NEW d \in DependsOn[n]  PROVE ~Acting(n) /\ ~Copied
  BY DEF Order
<1>1. node[n].status = "PENDING" /\ dispatch = {} /\ phase = "idle"
  BY DEF Init, InitNode
<1>2. Queued(n) = 0
  <2>1. <<n, 0>> \in Messages
    BY DEF Messages, MaxExecRetries
  <2> QED
    BY <2>1 DEF Init, Queued
<1>3. ~OnWorker(n)
  BY DEF Init, Idle, OnWorker
<1> QED
  BY <1>1, <1>2, <1>3 DEF Acting, Held, Resting, Copied

-----------------------------------------------------------------------------
(* One step of the undisturbed task is a step of the scheduler or Outside. *)
LEMMA CalmSteps ==
  ASSUME TypeOK, Undisturbed => Calm, [Next]_vars, Undisturbed'
  PROVE  Calm /\ Undisturbed /\ (Control \/ Outside)
<1>1. Calm /\ ~Faulty /\ Undisturbed
  BY WasUndisturbed
<1> QED
  BY <1>1, AgentOutside, UsersOutside DEF Next

Quiet == Undisturbed => Calm
Ordered == TypeOK /\ Quiet /\ (Undisturbed => Order)

LEMMA OrderedInit == Init => Ordered
BY TypeInit, CalmInit, OrderInit DEF Ordered, Quiet

LEMMA OrderedNext == Ordered /\ [Next]_vars => Ordered'
<1> SUFFICES ASSUME Ordered, [Next]_vars  PROVE Ordered'
  OBVIOUS
<1>1. TypeOK'
  BY TypeNext DEF Ordered
<1>2. Quiet'
  BY CalmNext DEF Ordered, Quiet
<1>3. ASSUME Undisturbed'  PROVE Order'
  <2>1. Calm /\ Undisturbed /\ (Control \/ Outside)
    BY <1>3, CalmSteps DEF Ordered, Quiet
  <2> QED
    BY <1>1, <2>1, OrderControl, OrderOutside DEF Ordered
<1> QED
  BY <1>1, <1>2, <1>3 DEF Ordered

(* What a node that is being executed depends on has succeeded, unless a   *)
(* rework sent it back, as long as nothing disturbs the task.              *)
THEOREM OrderCorrect == Spec => []Ordered
BY OrderedInit, OrderedNext, PTL DEF Spec
-----------------------------------------------------------------------------
(* Starting a node.                                                        *)
Given == {"READY", "PENDING", "QUEUED", "CANCELED"}

(* A status that a scheduling pass writes is one of those it gives.        *)
LEMMA ControlGives ==
  ASSUME TypeOK, Control, NEW n \in Nodes
  PROVE  node'[n].status \in {node[n].status} \cup Given
<1> USE NodeParts DEF rows, OutsideControl, OutsideGate
<1>1. ASSUME NEW ns, CommitNodes(ns), ns[n].status \in {seenNode[n].status} \cup Given
      PROVE  node'[n].status \in {node[n].status} \cup Given
  BY <1>1 DEF CommitNodes, Nodes0, NodeRow
<1>2. Copy[n].status \in {seenNode[n].status} \cup Given
  BY CopyStatus DEF Given
<1>3. ASSUME NEW ns \in Nodes0, NEW S, NEW st \in Given
      PROVE  /\ WithStatus(ns, S, st)[n].status \in {ns[n].status, st}
             /\ WithStatus(ns, S, st) \in Nodes0
  BY WithStatusParts, WithStatusType DEF NodeStatus, Given
<1>4. CASE ScheduleCancel
  BY <1>1, <1>3, <1>4 DEF ScheduleCancel, Given
<1>5. CASE ScheduleFail \/ ScheduleWaiting \/ ScheduleBlocked
  BY <1>1, <1>2, <1>5 DEF ScheduleFail, ScheduleWaiting, ScheduleBlocked
<1>6. CASE ScheduleDelivery
  <2>1. WithStatus(seenNode, Stale(seenNode), "READY") \in Nodes0
    BY <1>3 DEF Given
  <2>2. WithStatus(WithStatus(seenNode, Stale(seenNode), "READY"),
                   Stale(seenNode) \cap {Reviewer}, "PENDING")[n].status
          \in {seenNode[n].status} \cup Given
    BY <1>3, <2>1 DEF Given
  <2> QED
    BY <1>1, <1>6, <2>2 DEF ScheduleDelivery
<1>7. CASE GateRework
  <2>1. PICK ns \in {SendBack(seenNode), WithStatus(seenNode, {Reviewer}, "READY")} : CommitNodes(ns)
    BY <1>7 DEF GateRework
  <2>2. ns[n].status \in {seenNode[n].status} \cup Given
    BY <1>3, <2>1, SendBackParts DEF Given
  <2> QED
    BY <1>1, <2>1, <2>2
<1>8. CASE ScheduleDispatch
  <2>1. PICK B : CommitNodes(WithStatus(Copy, B, "QUEUED"))
    BY <1>8 DEF ScheduleDispatch
  <2>2. WithStatus(Copy, B, "QUEUED")[n].status \in {Copy[n].status, "QUEUED"}
    BY <1>3, CopyType DEF Given
  <2>3. WithStatus(Copy, B, "QUEUED")[n].status \in {seenNode[n].status} \cup Given
    BY <1>2, <2>2 DEF Given
  <2> QED
    BY <1>1, <2>1, <2>3
<1>9. CASE RunTask \/ ReadNodes \/ GatePass \/ GateFail \/ ScheduleRunning
           \/ \E m \in Nodes : SendExecute(m)
  BY <1>9 DEF RunTask, ReadNodes, GatePass, GateFail, ScheduleRunning, SendExecute
<1> QED
  BY <1>4, <1>5, <1>6, <1>7, <1>8, <1>9 DEF Control

(* A node starts by the first action of its execution only.                *)
LEMMA StartsByExecution ==
  ASSUME TypeOK, [Next]_vars, NEW n \in Nodes, Starts(n)
  PROVE  \E w \in Workers, r \in 0..MaxExecRetries : ExecuteStart(w, n, r)
<1> USE NodeParts DEF rows, Starts
<1>1. ~Control
  BY ControlGives DEF Given
<1>2. ASSUME NEW m, NEW st, st # "RUNNING", node' = [node EXCEPT ![m].status = st]
      PROVE  FALSE
  BY <1>2 DEF Nodes0, NodeRow
<1>3. ASSUME NEW m, NEW st, NEW b, st # "RUNNING", SetStatus(m, st, b)
      PROVE  FALSE
  BY <1>3 DEF Nodes0, NodeRow, SetStatus
<1>4. ASSUME NEW m, node' = Applied(m)
      PROVE  FALSE
  BY <1>4 DEF Nodes0, NodeRow, Applied
<1>5. ASSUME NEW w \in Workers, Agent(w)
      PROVE  \E r \in 0..MaxExecRetries : ExecuteStart(w, n, r)
  <2>1. Take(w)
    BY <1>2, <1>3, <1>4, <1>5
       DEF Agent, Outcome, ExecuteRound, ExecuteTools, ExecuteFail, ExecuteWait,
           ExecuteAnswer, ExecuteClose, ExecuteReturn
  <2>2. PICK m \in Nodes, r \in 0..MaxExecRetries : ExecuteStart(w, m, r)
    BY <2>1 DEF Take, ExecuteIgnore
  <2>3. m = n
    BY <2>2 DEF ExecuteStart, Nodes0, NodeRow
  <2> QED
    BY <2>2, <2>3
<1>6. ~Supervise
  <2>1. ASSUME NEW affected, NEW version, node' = Merged(affected, version)
        PROVE  FALSE
    BY <2>1 DEF Merged, Nodes0, NodeRow
  <2> QED
    BY <2>1 DEF Supervise, SuperviseBegin, SuperviseReply, SuperviseMerge
<1>7. ~User
  <2>1. ASSUME NEW m \in Nodes, DecideApproval(m)  PROVE FALSE
    <3>1. n = m => node'[n].status \in {node[n].status, "READY"}
      BY <2>1 DEF DecideApproval, Nodes0, NodeRow
    <3>2. n # m => node'[n] = node[n]
      BY <2>1 DEF DecideApproval, Nodes0, NodeRow
    <3> QED
      BY <3>1, <3>2
  <2> QED
    BY <2>1 DEF User, CreateTaskMessage, CancelTask
<1>8. ~Faulty
  <2>1. ASSUME NEW m, SendFails(m)  PROVE FALSE
    BY <2>1 DEF SendFails, Nodes0, NodeRow
  <2> QED
    BY <2>1 DEF Faulty, ControlCrash, SupervisorCrash, ExecuteCrash, ExecuteRaise
<1> QED
  BY <1>1, <1>5, <1>6, <1>7, <1>8 DEF Next, vars

(* A node starts only when every node it depends on has succeeded; the     *)
(* reviewer after a rework, too, and every producer on its first run       *)
(* (_schedule_plan promotes a node when its dependencies succeeded).       *)
THEOREM DependencyOrderCorrect == Spec => DependencyOrder
<1> DEFINE InTurn == Undisturbed =>
             \A n \in Nodes : Starts(n) =>
               \A d \in DependsOn[n] : node[d].status = "SUCCEEDED" \/ SentBack(n, d)
<1>1. Ordered /\ [Next]_vars => InTurn
  <2> SUFFICES ASSUME Ordered, [Next]_vars, Undisturbed,
                      NEW n \in Nodes, Starts(n), NEW d \in DependsOn[n], ~SentBack(n, d)
               PROVE  node[d].status = "SUCCEEDED"
    OBVIOUS
  <2>1. TypeOK /\ Calm /\ Order
    BY DEF Ordered, Quiet
  <2>2. Acting(n)
    BY <2>1, StartsByExecution, TakeOutside DEF Acting
  <2> QED
    BY <2>1, <2>2 DEF Order
<1>2. []Ordered /\ [][Next]_vars => [][InTurn]_vars
  BY <1>1, PTL
<1> QED
  BY <1>2, OrderCorrect, PTL DEF Spec, DependencyOrder
-----------------------------------------------------------------------------
LEMMA Least ==
  ASSUME NEW T, T \subseteq Nat, T # {}
  PROVE  \E x \in T : \A y \in T : ~(y < x)
<1>1. PICK x \in T : \A y \in T : ~(<<y, x>> \in OpToRel(<, Nat))
  BY NatLessThanWellFounded, WFMin, Zenon
<1> QED
  BY <1>1 DEF OpToRel

(* A plan has no cycle: some node of any set feeds no node of the set, and *)
(* some node of it depends on none.                                        *)
LEMMA Extremes ==
  ASSUME NEW S, S \subseteq Nodes, S # {}
  PROVE  /\ \E p \in S : \A q \in S : p \notin DependsOn[q]
         /\ \E p \in S : \A q \in S : q \notin DependsOn[p]
<1>1. PICK rank \in [Nodes -> 0..Cardinality(Nodes)] :
        \A n \in Nodes : \A d \in DependsOn[n] : rank[d] < rank[n]
  BY PlanIsValid
<1>2. PICK k \in Nat : k = Cardinality(Nodes)
  BY PlanIsValid, FS_CardinalityType
<1>4. \A p \in S : p \in Nodes /\ rank[p] \in 0..k
  BY <1>1, <1>2
<1>5. \E p \in S : \A q \in S : ~(rank[q] < rank[p])
  <2> DEFINE T == {rank[p] : p \in S}
  <2>1. T \subseteq Nat /\ T # {}
    BY <1>4
  <2>2. \E x \in T : \A y \in T : ~(y < x)
    BY <2>1, Least
  <2> QED
    BY <2>2
<1>6. \E p \in S : \A q \in S : ~(k - rank[q] < k - rank[p])
  <2> DEFINE T == {k - rank[p] : p \in S}
  <2>1. T \subseteq Nat /\ T # {}
    BY <1>4
  <2>2. \E x \in T : \A y \in T : ~(y < x)
    BY <2>1, Least
  <2> QED
    BY <2>2
<1>7. \A p, q \in S : k - rank[q] < k - rank[p] <=> rank[p] < rank[q]
  BY <1>4
<1> QED
  BY <1>1, <1>4, <1>5, <1>6, <1>7

-----------------------------------------------------------------------------
(* The review.  While the reviewer acts every producer has succeeded: the  *)
(* reviewer waits for the producers nobody else reads, these wait for      *)
(* theirs, and a rework only takes back what the reviewer reads itself.    *)
LEMMA ReviewNeedsAll ==
  ASSUME TypeOK, Order, Acting(Reviewer)
  PROVE  \A p \in Producers : node[p].status = "SUCCEEDED"
<1> DEFINE S == {p \in Producers : node[p].status # "SUCCEEDED"}
<1> SUFFICES ASSUME S # {}  PROVE FALSE
  OBVIOUS
<1>1. PICK p \in S : \A q \in S : p \notin DependsOn[q]
  BY Extremes DEF Producers
<1>2. p \in Producers /\ p \in Nodes /\ node[p].status # "SUCCEEDED"
  BY DEF Producers
<1>3. CASE p \in DependsOn[Reviewer]
  BY <1>2, <1>3, Dependencies DEF Order, SentBack
<1>4. CASE p \notin DependsOn[Reviewer]
  <2>1. p \notin TerminalProducers
    BY <1>4, PlanIsValid
  <2>2. PICK m \in Producers : p \in DependsOn[m]
    BY <1>2, <2>1 DEF TerminalProducers
  <2>3. node[m].status = "SUCCEEDED"
    BY <1>1, <2>2
  <2>4. m \in Nodes /\ Acting(m) /\ ~SentBack(m, p)
    BY <1>4, <2>2, <2>3 DEF Acting, Resting, SentBack, Producers
  <2> QED
    BY <1>2, <2>2, <2>4 DEF Order
<1> QED
  BY <1>3, <1>4

ReviewIsCurrent ==
  OnWorker(Reviewer) \/ node[Reviewer].status = "SUCCEEDED" => Producers \subseteq reviewed

LEMMA ReviewActs ==
  ASSUME OnWorker(Reviewer) \/ node[Reviewer].status = "SUCCEEDED"
  PROVE  Acting(Reviewer)
BY DEF Acting, Held, Resting

(* Only executions bring the reviewer to a worker or its row to SUCCEEDED. *)
LEMMA ReviewAgent ==
  ASSUME TypeOK, NEW w \in Workers, Agent(w), ReviewIsCurrent,
         ~\E n \in Nodes, r \in 0..MaxExecRetries : ExecuteStart(w, n, r)
  PROVE  ReviewIsCurrent'
<1> USE NodeParts DEF Untouched
<1> DEFINE n == session[w].node
<1>1. reviewed' = reviewed
  BY DEF Agent, Take, Outcome, ExecuteIgnore, ExecuteRound, ExecuteTools, ExecuteFail,
         ExecuteWait, ExecuteAnswer, ExecuteClose, ExecuteReturn
<1>2. ASSUME \/ session' = session
             \/ session' = [session EXCEPT ![w] = Idle]
             \/ \E st : Step(w, st) /\ session[w].step \notin {"idle", "returning"},
             node'[Reviewer].status = "SUCCEEDED" =>
               node[Reviewer].status = "SUCCEEDED" \/ OnWorker(Reviewer)
      PROVE  ReviewIsCurrent'
  <2>1. \A v \in Workers :
          \/ session'[v] = session[v]
          \/ session'[v].step = "idle"
          \/ session'[v].node = session[v].node /\ session[v].step \notin {"idle", "returning"}
    BY <1>2 DEF Step, Idle, TypeOK
  <2>2. OnWorker(Reviewer)' => OnWorker(Reviewer)
    BY <2>1 DEF OnWorker
  <2> QED
    BY <1>1, <1>2, <2>2 DEF ReviewIsCurrent
<1>3. ASSUME NEW st, st # "SUCCEEDED", NEW b,
             \/ node' = [node EXCEPT ![n].status = st]
             \/ node' = [node EXCEPT ![n].status = st, ![n].rework = b]
             \/ node' = Applied(n)
             \/ node' = node
      PROVE  node'[Reviewer].status = "SUCCEEDED" => node[Reviewer].status = "SUCCEEDED"
  <2> HIDE DEF n
  <2>1. node' = [node EXCEPT ![n].status = st]
          => node'[Reviewer].status \in {node[Reviewer].status, st}
    BY DEF Nodes0, NodeRow
  <2>2. node' = [node EXCEPT ![n].status = st, ![n].rework = b]
          => node'[Reviewer].status \in {node[Reviewer].status, st}
    BY DEF Nodes0, NodeRow
  <2>3. node' = Applied(n) => node'[Reviewer].status = node[Reviewer].status
    BY DEF Nodes0, NodeRow, Applied
  <2> QED
    BY <1>3, <2>1, <2>2, <2>3
<1>4. CASE Take(w)
  <2>1. session' = session /\ node' = node
    BY <1>4 DEF Take, ExecuteIgnore, rows
  <2> QED
    BY <1>2, <2>1
<1>5. CASE ExecuteRound(w)
  <2>1. node'[Reviewer].status = "SUCCEEDED" => node[Reviewer].status = "SUCCEEDED"
    <3>1. \/ node' = [node EXCEPT ![n].status = "CANCELED"]
          \/ node' = Applied(n)
      BY <1>5 DEF ExecuteRound
    <3> HIDE DEF n
    <3>2. \A st : st # "SUCCEEDED" /\ node' = [node EXCEPT ![n].status = st]
                  => (node'[Reviewer].status = "SUCCEEDED" => node[Reviewer].status = "SUCCEEDED")
      BY <1>3
    <3>3. "FAILED" # "SUCCEEDED" /\ node' = Applied(n)
            => (node'[Reviewer].status = "SUCCEEDED" => node[Reviewer].status = "SUCCEEDED")
      BY <1>3
    <3> QED
      BY <3>1, <3>2, <3>3
  <2>2. session[w].step = "round"
    BY <1>5 DEF ExecuteRound, Executing
  <2>3. \A v \in Workers : \/ session'[v] = session[v]
                          \/ /\ session'[v].node = session[v].node
                             /\ session[v].step = "round"
    BY <1>5, <2>2 DEF ExecuteRound, Step, TypeOK
  <2>4. OnWorker(Reviewer)' => OnWorker(Reviewer)
    BY <2>3 DEF OnWorker
  <2> QED
    BY <1>1, <2>1, <2>4 DEF ReviewIsCurrent
<1>6. CASE ExecuteTools(w)
  BY <1>2, <1>6 DEF ExecuteTools, Executing, rows
<1>7. CASE ExecuteFail(w)
  <2>1. node' = [node EXCEPT ![n].status = "FAILED", ![n].rework = FALSE]
    BY <1>7 DEF ExecuteFail, SetStatus
  <2>2. node'[Reviewer].status = "SUCCEEDED" => node[Reviewer].status = "SUCCEEDED"
    BY <1>3, <2>1
  <2> QED
    BY <1>2, <1>7, <2>2 DEF ExecuteFail, Executing
<1>8. CASE ExecuteWait(w)
  BY <1>2, <1>3, <1>8 DEF ExecuteWait, Executing
<1>9. CASE ExecuteAnswer(w)
  BY <1>2, <1>3, <1>9 DEF ExecuteAnswer, Executing
<1>10. CASE ExecuteClose(w)
  <2>1. n \in Nodes /\ OnWorker(n)
    BY <1>10 DEF ExecuteClose, Executing, OnWorker, TypeOK
  <2>2. n # Reviewer => node'[Reviewer] = node[Reviewer]
    BY <1>10 DEF ExecuteClose, SetStatus, Nodes0
  <2> QED
    BY <1>2, <1>10, <2>1, <2>2 DEF ExecuteClose, Executing
<1>11. CASE ExecuteReturn(w)
  BY <1>2, <1>11 DEF ExecuteReturn, rows
<1> QED
  BY <1>4, <1>5, <1>6, <1>7, <1>8, <1>9, <1>10, <1>11 DEF Agent, Outcome

(* A run of the reviewer starts after the last result of every producer,   *)
(* and no producer starts again before the reviewer is taken back.         *)
LEMMA ReviewStart ==
  ASSUME TypeOK, Calm, Order, ReviewIsCurrent,
         NEW w \in Workers, NEW n \in Nodes, NEW r \in 0..MaxExecRetries,
         ExecuteStart(w, n, r)
  PROVE  ReviewIsCurrent'
<1>1. Acting(n)
  BY TakeOutside DEF Acting
<1>2. CASE n = Reviewer
  <2>1. reviewed' = InStatus(node, {"SUCCEEDED"})
    BY <1>2 DEF ExecuteStart
  <2> QED
    BY <1>1, <1>2, <2>1, ReviewNeedsAll DEF ReviewIsCurrent, InStatus, Producers
<1>3. CASE n # Reviewer
  <2>1. SUFFICES ASSUME (OnWorker(Reviewer) \/ node[Reviewer].status = "SUCCEEDED")'
                 PROVE  FALSE
    BY DEF ReviewIsCurrent
  <2>2. node'[Reviewer] = node[Reviewer] /\ node[n].status \in Startable
    BY <1>3, NodeParts DEF ExecuteStart, Nodes0
  <2>3. OnWorker(Reviewer)' => OnWorker(Reviewer)
    <3>1. \A v \in Workers : session'[v] = session[v] \/ session'[v].node = n
      BY DEF ExecuteStart, TypeOK
    <3> QED
      BY <1>3, <3>1 DEF OnWorker
  <2>4. node[n].status = "SUCCEEDED"
    BY <1>3, <2>1, <2>2, <2>3, ReviewActs, ReviewNeedsAll DEF Producers
  <2> QED
    BY <2>2, <2>4 DEF Startable
<1> QED
  BY <1>2, <1>3

LEMMA ReviewNext ==
  ASSUME TypeOK, Calm, Order, ReviewIsCurrent, [Next]_vars, Undisturbed'
  PROVE  ReviewIsCurrent'
<1> USE NodeParts DEF rows, OutsideControl, OutsideGate, OutsideSupervisor
<1>1. ~Faulty /\ ~\E affected \in SUBSET Nodes : SuperviseMerge(affected)
  BY WasUndisturbed
<1>2. ASSUME UNCHANGED <<session, reviewed>>,
             node'[Reviewer].status = "SUCCEEDED" => node[Reviewer].status = "SUCCEEDED"
      PROVE  ReviewIsCurrent'
  BY <1>2 DEF ReviewIsCurrent, OnWorker
<1>3. CASE Control
  <2>1. UNCHANGED <<session, reviewed>>
    BY <1>3 DEF Control, RunTask, ReadNodes, ScheduleCancel, ScheduleFail, ScheduleDelivery,
                GatePass, GateFail, GateRework, ScheduleDispatch, ScheduleWaiting,
                ScheduleRunning, ScheduleBlocked, SendExecute
  <2> QED
    BY <1>2, <1>3, <2>1, ControlGives DEF Given
<1>4. CASE \E w \in Workers : Agent(w)
  BY <1>4, ReviewAgent, ReviewStart
<1>5. CASE Supervise \/ UNCHANGED vars
  BY <1>1, <1>2, <1>5 DEF Supervise, SuperviseBegin, SuperviseReply, vars
<1>6. CASE User
  <2>1. ASSUME NEW n \in Nodes, DecideApproval(n)
        PROVE  node'[Reviewer].status = "SUCCEEDED" => node[Reviewer].status = "SUCCEEDED"
    BY <2>1 DEF DecideApproval, Nodes0, NodeRow
  <2> QED
    BY <1>2, <1>6, <2>1 DEF User, CreateTaskMessage, CancelTask, DecideApproval
<1> QED
  BY <1>1, <1>3, <1>4, <1>5, <1>6 DEF Next

LEMMA ReviewInit == Init => ReviewIsCurrent
<1> SUFFICES ASSUME Init  PROVE ~OnWorker(Reviewer) /\ node[Reviewer].status # "SUCCEEDED"
  BY DEF ReviewIsCurrent
<1>1. node[Reviewer].status \in {"READY", "PENDING"}
  BY Dependencies, PlanIsValid DEF Init, InitNode
<1>2. \A w \in Workers : session[w].step = "idle"
  BY DEF Init, Idle
<1> QED
  BY <1>1, <1>2 DEF OnWorker

Reviewing == Ordered /\ (Undisturbed => ReviewIsCurrent)

LEMMA ReviewCorrect == Spec => []Reviewing
<1>1. Init => Reviewing
  BY OrderedInit, ReviewInit DEF Reviewing
<1>2. Reviewing /\ [Next]_vars => Reviewing'
  <2> SUFFICES ASSUME Reviewing, [Next]_vars, Undisturbed'  PROVE ReviewIsCurrent'
    BY OrderedNext DEF Reviewing
  <2>1. TypeOK /\ Calm /\ Undisturbed /\ Order
    BY CalmSteps DEF Reviewing, Ordered, Quiet
  <2> QED
    BY <2>1, ReviewNext DEF Reviewing
<1> QED
  BY <1>1, <1>2, PTL DEF Spec

(* A task is delivered only when the reviewer's successful run started     *)
(* after the last execution of every producer had finished                 *)
(* (_schedule_plan delivers after the last reviewer's verdict).            *)
THEOREM DeliveredWorkIsReviewedCorrect == Spec => DeliveredWorkIsReviewed
<1> DEFINE Reviewed == Undisturbed /\ Delivers => Producers \subseteq reviewed
<1>1. Reviewing /\ [Next]_vars => Reviewed
  <2> SUFFICES ASSUME Reviewing, [Next]_vars, Undisturbed, Delivers
               PROVE  Producers \subseteq reviewed
    OBVIOUS
  <2>1. TypeOK /\ Calm /\ ReviewIsCurrent
    BY DEF Reviewing, Ordered, Quiet
  <2>2. phase = "gating"
    BY <2>1, OnlyGatePassDelivers DEF GatePass
  <2>3. ~seenTask.cancel /\ seenNode[Reviewer].status = "SUCCEEDED"
    BY <2>1, <2>2, NodeParts DEF Calm, PassInOrder, AllSucceeded, InStatus
  <2>4. node[Reviewer].status = "SUCCEEDED"
    BY <2>1, <2>2, <2>3, PassFacts, NodeParts DEF ActiveStatus
  <2> QED
    BY <2>1, <2>4 DEF ReviewIsCurrent
<1>2. []Reviewing /\ [][Next]_vars => [][Reviewed]_vars
  BY <1>1, PTL
<1> QED
  BY <1>2, ReviewCorrect, PTL DEF Spec, DeliveredWorkIsReviewed
-----------------------------------------------------------------------------
(***************************************************************************)
(* The end.  A pass over a task that ended finds what the pass found that  *)
(* ended it: a failure no rework or retry is left for, or the verdict of   *)
(* the gate on files that nobody changed since.                            *)
(***************************************************************************)
Doomed(ns) ==
  \/ ns[Reviewer].status = "FAILED" /\ ~(ns[Reviewer].rework /\ task.retries < MaxReviewRetries)
  \/ \E p \in Producers : ns[p].status = "FAILED" /\ ns[p].attempt >= MaxAttempts

Exhausted(ns) ==
  /\ AllSucceeded(ns) /\ gate \in {"producer", "reviewer"}
  /\ task.retries >= MaxReviewRetries

LastWord(ns) ==
  /\ task.status = "SUCCEEDED" => AllSucceeded(ns) /\ gate = "pass"
  /\ task.status = "FAILED" => Doomed(ns) \/ Exhausted(ns)
  /\ task.status # "CANCELED"

(* A pass knows the retries, and an end that came before it.               *)
PassIsFresh ==
  phase \in {"opened", "loaded", "gating"} =>
    /\ seenTask.retries = task.retries
    /\ task.status \in Terminal =>
         seenTask.status = task.status /\ seenTask.cancel = task.cancel

(* What it read of a node in no hand is the whole truth about the node.    *)
RowsFresh ==
  Copied /\ ~seenTask.cancel =>
    \A n \in Nodes : seenNode[n].status \notin ActiveStatus => node[n] = seenNode[n]

NoneCanceled ==
  ~task.cancel =>
    \A n \in Nodes : /\ node[n].status # "CANCELED"
                     /\ Copied => seenNode[n].status # "CANCELED"

Ends == ~task.cancel => LastWord(node) /\ (Copied => LastWord(seenNode))

Final == PassIsFresh /\ RowsFresh /\ NoneCanceled /\ Ends

LEMMA Uncanceled ==
  ASSUME Calm, ~task.cancel
  PROVE  ~seenTask.cancel
BY DEF Calm, PassInOrder

LEMMA AllOfThem ==
  ASSUME NEW ns
  PROVE  AllSucceeded(ns) <=> \A n \in Nodes : ns[n].status = "SUCCEEDED"
BY DEF AllSucceeded, InStatus

(* Steps that are not the scheduler's.                                     *)
LEMMA FinalOutside ==
  ASSUME TypeOK, Calm, Final, Outside
  PROVE  Final'
<1>1. PassIsFresh'
  BY DEF Final, PassIsFresh, Outside
<1>2. RowsFresh'
  <2> SUFFICES ASSUME Copied, ~seenTask.cancel, NEW n \in Nodes, seenNode[n].status \notin ActiveStatus
               PROVE  node'[n] = seenNode[n]
    BY DEF RowsFresh, Outside, Copied
  <2>1. node[n] = seenNode[n]
    BY DEF Final, RowsFresh
  <2>2. ~Held(n)
    BY PassFacts DEF Copied
  <2> QED
    BY <2>1, <2>2 DEF Outside, ActiveStatus
<1>3. NoneCanceled'
  BY DEF Final, NoneCanceled, Outside, Copied
<1>4. Ends'
  <2> SUFFICES ASSUME ~task'.cancel  PROVE LastWord(node)' /\ (Copied' => LastWord(seenNode)')
    BY DEF Ends
  <2>1. /\ ~task.cancel /\ task'.retries = task.retries
        /\ task'.status \in Terminal => task'.status = task.status
        /\ seenNode' = seenNode /\ (Copied' <=> Copied)
    BY DEF Outside, Copied
  <2>2. LastWord(node) /\ (Copied => LastWord(seenNode))
    BY <2>1 DEF Final, Ends
  <2>3. AllSucceeded(node) => AllSucceeded(node)' /\ gate' = gate
    <3>1. AllSucceeded(node) => \A n \in Nodes : node'[n].status = "SUCCEEDED" /\ ~Held(n)
      BY AllOfThem, FinishedStays, HeldParts
    <3> QED
      BY <3>1, AllOfThem DEF Outside
  <2>4. Copied /\ AllSucceeded(seenNode) => gate' = gate
    <3>1. Copied /\ AllSucceeded(seenNode) => \A n \in Nodes : ~Held(n)
      BY <2>1, Uncanceled, AllOfThem, PassFacts DEF Copied, ActiveStatus
    <3> QED
      BY <3>1 DEF Outside
  <2>5. Doomed(node) => Doomed(node)'
    <3>1. \A n \in Nodes : node[n].status = "FAILED" => node'[n] = node[n]
      BY FinishedStays
    <3> QED
      BY <2>1, <3>1, NodeParts DEF Doomed, Producers
  <2>6. Doomed(seenNode) => Doomed(seenNode)'
    BY <2>1 DEF Doomed
  <2>7. AllSucceeded(seenNode) => AllSucceeded(seenNode)'
    BY <2>1, AllOfThem
  <2> QED
    BY <2>1, <2>2, <2>3, <2>4, <2>5, <2>6, <2>7 DEF LastWord, Exhausted, Terminal
<1> QED
  BY <1>1, <1>2, <1>3, <1>4 DEF Final

-----------------------------------------------------------------------------
(* What a pass finds out.                                                  *)
(* A task without cancellation never ends as blocked: a pass that nobody   *)
(* executes a node for, and that finds no failure, has a node to give out. *)
LEMMA NotBlocked ==
  ASSUME TypeOK, Calm, NoneCanceled, ~task.cancel
  PROVE  ~ScheduleBlocked
<1> SUFFICES ASSUME ScheduleBlocked  PROVE FALSE
  OBVIOUS
<1>1. /\ phase = "loaded" /\ ~HasTerminalFailure(Copy) /\ ~AllSucceeded(Copy)
      /\ Batches(Copy) = {{}} /\ Active(Copy) = {}
  BY DEF ScheduleBlocked, Dispatchable
<1>2. InStatus(Copy, {"READY"}) = {}
  <2> DEFINE ready == InStatus(Copy, {"READY"})
  <2>1. Slots(Copy) = MaxConcurrent /\ MaxConcurrent \in Nat /\ MaxConcurrent # 0
    BY <1>1, FS_EmptySet, BoundsAreNaturals DEF Slots
  <2>2. IsFiniteSet(ready)
    BY PlanIsValid, FS_Subset DEF InStatus
  <2>3. {} \in Batches(Copy)
    BY <1>1
  <2>4. 0 = IF Cardinality(ready) < Slots(Copy) THEN Cardinality(ready) ELSE Slots(Copy)
    BY <2>3, FS_EmptySet DEF Batches
  <2> HIDE DEF ready
  <2>5. Cardinality(ready) = 0
    BY <2>1, <2>4
  <2>6. ready = {}
    BY <2>2, <2>5, FS_EmptySet
  <2> QED
    BY <2>6 DEF ready
<1>3. \A n \in Nodes : Copy[n].status \in {"PENDING", "RETRYING", "SUCCEEDED"}
  <2> SUFFICES ASSUME NEW n \in Nodes  PROVE Copy[n].status \in {"PENDING", "RETRYING", "SUCCEEDED"}
    OBVIOUS
  <2>1. Copy[n].status \in NodeStatus \ {"READY", "QUEUED", "RUNNING", "WAITING"}
    BY <1>1, <1>2, CopyType DEF InStatus, Active, Nodes0, NodeRow
  <2>2. Copy[n].status # "CANCELED"
    BY <1>1, CopyStatus DEF NoneCanceled, Copied
  <2>3. Copy[n].status # "FAILED"
    <3> SUFFICES ASSUME Copy[n].status = "FAILED"  PROVE FALSE
      OBVIOUS
    <3>1. n # Reviewer /\ ~(Copy[n].attempt >= MaxAttempts)
      BY <1>1 DEF HasTerminalFailure, InStatus
    <3>2. n \notin Moved /\ Base[n].status = "FAILED" /\ Base[n].attempt = Copy[n].attempt
      BY CopyStatus
    <3>3. Base[n].attempt \in 0..MaxAttempts
      BY CopyRows DEF Nodes0, NodeRow
    <3> QED
      BY <3>1, <3>2, <3>3 DEF Moved, Retryable, Producers, MaxAttempts
  <2> QED
    BY <2>1, <2>2, <2>3 DEF NodeStatus
<1> DEFINE S == {n \in Nodes : Copy[n].status # "SUCCEEDED"}
<1>4. S # {}
  BY <1>1, AllOfThem
<1>5. PICK p \in S : \A q \in S : q \notin DependsOn[p]
  BY <1>4, Extremes
<1>6. p \in Nodes /\ \A d \in DependsOn[p] : d \in Nodes /\ Copy[d].status = "SUCCEEDED"
  BY <1>5, Dependencies
<1>7. p \notin Moved /\ Base[p].status \in {"PENDING", "RETRYING"}
  BY <1>3, <1>5, CopyStatus
<1>8. \A d \in DependsOn[p] : Base[d].status = "SUCCEEDED"
  BY <1>6, CopyStatus
<1> QED
  BY <1>6, <1>7, <1>8 DEF Moved, Unblocked, InStatus

(* A pass over nodes that all succeeded finds nothing to promote, and one  *)
(* over a doomed task finds the failure again.                             *)
LEMMA CopyOfAll ==
  ASSUME TypeOK, AllSucceeded(seenNode)
  PROVE  AllSucceeded(Copy) /\ ~HasTerminalFailure(Copy)
<1>1. ~Reworks
  BY AllOfThem, NodeParts DEF Reworks, ReworkDue
<1>2. \A n \in Nodes : Copy[n].status = "SUCCEEDED"
  BY <1>1, AllOfThem, CopyStatus
<1> QED
  BY <1>2, AllOfThem DEF HasTerminalFailure, InStatus

LEMMA CopyOfDoomed ==
  ASSUME TypeOK, Calm, PassIsFresh, phase = "loaded", ~seenTask.cancel, Doomed(seenNode)
  PROVE  HasTerminalFailure(Copy) /\ ~AllSucceeded(seenNode)
<1>1. seenTask.retries = task.retries
  BY DEF PassIsFresh
<1>2. CASE seenNode[Reviewer].status = "FAILED"
           /\ ~(seenNode[Reviewer].rework /\ task.retries < MaxReviewRetries)
  <2>1. ~Reworks
    BY <1>1, <1>2 DEF Reworks, ReworkDue
  <2>2. Base = seenNode
    BY <2>1 DEF Base
  <2>3. Reviewer \notin Moved
    BY <1>2, <2>2 DEF Moved, Retryable, Unblocked, Producers, InStatus
  <2>4. Copy[Reviewer].status = "FAILED"
    BY <1>2, <2>2, <2>3, CopyStatus, NodeParts
  <2> QED
    BY <1>2, <2>4, AllOfThem, NodeParts DEF HasTerminalFailure, InStatus
<1>3. ASSUME NEW p \in Producers, seenNode[p].status = "FAILED", seenNode[p].attempt >= MaxAttempts
      PROVE  HasTerminalFailure(Copy) /\ ~AllSucceeded(seenNode)
  <2>1. p \in Nodes /\ p # Reviewer
    BY DEF Producers
  <2>2. Reworks => p \notin DependsOn[Reviewer]
    BY <1>3, PassFacts DEF Reworks, ReworkDue, ReviewInOrder
  <2>3. Base[p].status = "FAILED" /\ Base[p].attempt = seenNode[p].attempt
    BY <1>3, <2>1, <2>2, CopyStatus
  <2>4. p \notin Moved
    <3>1. seenNode[p].attempt \in Nat
      BY <2>1, NodeParts DEF Nodes0, NodeRow, MaxAttempts
    <3> QED
      BY <1>3, <2>3, <3>1 DEF Moved, Retryable, Unblocked, InStatus, MaxAttempts
  <2>5. Copy[p].status = "FAILED" /\ Copy[p].attempt >= MaxAttempts
    BY <1>3, <2>1, <2>3, <2>4, CopyStatus
  <2> QED
    BY <1>3, <2>1, <2>5, AllOfThem DEF HasTerminalFailure, InStatus
<1> QED
  BY <1>2, <1>3 DEF Doomed
-----------------------------------------------------------------------------
(* What the commit of a pass makes of the task, read with PassIsFresh.     *)
LEMMA PassCommits ==
  ASSUME TypeOK, PassIsFresh, phase \in {"loaded", "gating"}, NEW st, NEW k, NEW flushed,
         CommitTask(st, k, flushed)
  PROVE  /\ task'.retries = k /\ task'.cancel = task.cancel
         /\ task'.status \in Terminal => task'.status = st
         /\ flushed => task'.status = st
<1>1. /\ task'.retries = (IF k # seenTask.retries THEN k ELSE task.retries)
      /\ task'.status = (IF flushed \/ st # seenTask.status THEN st ELSE task.status)
      /\ task'.cancel = task.cancel
  BY DEF CommitTask, TypeOK, TaskRow
<1> QED
  BY <1>1 DEF PassIsFresh

(* Of a node that the copy keeps, the row stays as the copy has it.        *)
LEMMA KeptRow ==
  ASSUME TypeOK, RowsFresh, Copied, ~seenTask.cancel, NEW ns, CommitNodes(ns),
         NEW n \in Nodes, ns[n].status = seenNode[n].status, seenNode[n].status \notin ActiveStatus
  PROVE  node'[n] = seenNode[n]
BY DEF RowsFresh, CommitNodes

(* ScheduleFail has found the failure that the rows keep.                  *)
LEMMA FailIsDoom ==
  ASSUME TypeOK, Calm, PassIsFresh, RowsFresh, ~seenTask.cancel, ScheduleFail
  PROVE  Doomed(node)'
<1>1. /\ phase = "loaded" /\ HasTerminalFailure(Copy) /\ CommitNodes(Copy)
      /\ CommitTask("FAILED", CopyRetries, Reworks)
  BY DEF ScheduleFail
<1>2. PICK n \in Nodes : Copy[n].status = "FAILED" /\ (n = Reviewer \/ Copy[n].attempt >= MaxAttempts)
  BY <1>1 DEF HasTerminalFailure, InStatus
<1>3. Base[n].status = "FAILED" /\ Copy[n].attempt = seenNode[n].attempt
  BY <1>2, CopyStatus
<1>4. seenNode[n].status = "FAILED" /\ (Reworks => n # Reviewer)
  BY <1>3, CopyStatus
<1>5. node'[n] = seenNode[n]
  BY <1>1, <1>2, <1>4, KeptRow DEF Copied, ActiveStatus
<1>6. CASE n = Reviewer
  <2>1. ~Reworks /\ CopyRetries = seenTask.retries
    BY <1>4, <1>6 DEF CopyRetries
  <2>2. task'.retries = seenTask.retries
    BY <1>1, <2>1, PassCommits
  <2> QED
    BY <1>4, <1>5, <1>6, <2>1, <2>2 DEF Doomed, Reworks, ReworkDue
<1>7. CASE n # Reviewer
  BY <1>2, <1>3, <1>4, <1>5, <1>7 DEF Doomed, Producers
<1> QED
  BY <1>6, <1>7

LEMMA RowsFreshControl ==
  ASSUME TypeOK, Calm, RowsFresh, Control
  PROVE  RowsFresh'
<1> USE NodeParts DEF rows, OutsideControl, OutsideGate
<1>1. CASE ReadNodes
  BY <1>1 DEF ReadNodes, RowsFresh
<1>2. CASE GateRework
  <2>1. /\ phase = "gating" /\ ~seenTask.cancel
        /\ \A n \in Nodes : seenNode[n].status = "SUCCEEDED"
    BY <1>2, AllOfThem DEF GateRework, Calm, PassInOrder
  <2>2. PICK ns \in {SendBack(seenNode), WithStatus(seenNode, {Reviewer}, "READY")} :
          CommitNodes(ns) /\ seenNode' = ns
    BY <1>2 DEF GateRework
  <2>3. \A n \in Nodes : node[n] = seenNode[n]
    BY <2>1 DEF RowsFresh, Copied, ActiveStatus
  <2>4. \A n \in Nodes : ns[n] \in {seenNode[n]} \cup {Marked(seenNode[n], st) : st \in NodeStatus}
    <3>1. "READY" \in NodeStatus /\ "PENDING" \in NodeStatus
      BY DEF NodeStatus
    <3> QED
      BY <2>2, <3>1, SendBackRow, WithStatusRow
  <2>5. \A n \in Nodes : node'[n] = ns[n]
    <3> SUFFICES ASSUME NEW n \in Nodes  PROVE node'[n] = ns[n]
      OBVIOUS
    <3>1. node'[n] = IF ns[n].status # seenNode[n].status
                     THEN Marked(node[n], ns[n].status) ELSE node[n]
      BY <2>2 DEF CommitNodes, Marked
    <3>2. seenNode[n] \in NodeRow
      BY DEF Nodes0
    <3>3. \A r \in NodeRow, st \in NodeStatus :
            /\ Marked(r, st).status = st
            /\ r.status = st => Marked(r, st) = r
      BY DEF Marked, NodeRow
    <3> QED
      BY <2>3, <2>4, <3>1, <3>2, <3>3
  <2> QED
    BY <2>2, <2>5 DEF RowsFresh
<1>3. CASE ScheduleDelivery
  <2>1. Stale(seenNode) = {}
    BY DEF Stale, Calm, FirstBrief
  <2> QED
    BY <1>3, <2>1 DEF ScheduleDelivery, RowsFresh, Copied, Close
<1>4. CASE \/ RunTask \/ ScheduleCancel \/ ScheduleFail \/ GatePass \/ GateFail \/ ScheduleDispatch
           \/ ScheduleWaiting \/ ScheduleRunning \/ ScheduleBlocked
           \/ \E n \in Nodes : SendExecute(n)
  <2>1. phase' \in {"opened", "idle", "sending"}
    BY <1>4 DEF RunTask, ScheduleCancel, ScheduleFail, GatePass, GateFail, ScheduleDispatch,
                ScheduleWaiting, ScheduleRunning, ScheduleBlocked, SendExecute, Close
  <2> QED
    BY <2>1 DEF RowsFresh, Copied
<1> QED
  BY <1>1, <1>2, <1>3, <1>4 DEF Control

(* A pass that may have promoted, sent back or queued nodes writes no      *)
(* CANCELED; the canceling pass knows of a cancellation.                   *)
LEMMA NoneCanceledControl ==
  ASSUME TypeOK, Calm, NoneCanceled, Control
  PROVE  NoneCanceled'
<1> USE NodeParts DEF rows, OutsideControl, OutsideGate
<1>0. task'.cancel = task.cancel
  BY CommitTaskKeepsCancel
     DEF Control, RunTask, ReadNodes, ScheduleCancel, ScheduleFail, ScheduleDelivery, GatePass,
         GateFail, GateRework, ScheduleDispatch, ScheduleWaiting, ScheduleRunning,
         ScheduleBlocked, SendExecute
<1> SUFFICES ASSUME ~task.cancel
             PROVE  \A n \in Nodes : /\ node'[n].status # "CANCELED"
                                     /\ Copied' => seenNode'[n].status # "CANCELED"
  BY <1>0 DEF NoneCanceled
<1>1. ~seenTask.cancel /\ \A n \in Nodes : node[n].status # "CANCELED"
  BY Uncanceled DEF NoneCanceled
<1>2. ASSUME phase \in {"loaded", "gating"}, NEW ns, CommitNodes(ns),
             \A n \in Nodes : ns[n].status # "CANCELED" \/ ns[n].status = seenNode[n].status,
             ~Copied' \/ (seenNode' = ns)
      PROVE  \A n \in Nodes : /\ node'[n].status # "CANCELED"
                              /\ Copied' => seenNode'[n].status # "CANCELED"
  <2>1. \A n \in Nodes : seenNode[n].status # "CANCELED" /\ ns[n].status # "CANCELED"
    BY <1>2 DEF NoneCanceled, Copied
  <2>2. \A n \in Nodes : node'[n].status \in {node[n].status, ns[n].status}
    BY <1>2 DEF CommitNodes, Nodes0, NodeRow
  <2> QED
    BY <1>1, <1>2, <2>1, <2>2
<1>3. \A n \in Nodes : Copy[n].status # "CANCELED" \/ Copy[n].status = seenNode[n].status
  BY CopyStatus
<1>4. CASE ScheduleFail \/ ScheduleWaiting \/ ScheduleBlocked
  BY <1>2, <1>3, <1>4 DEF ScheduleFail, ScheduleWaiting, ScheduleBlocked, Dispatchable, Close, Copied
<1>5. CASE ScheduleDispatch
  <2>1. PICK B : CommitNodes(WithStatus(Copy, B, "QUEUED"))
    BY <1>5 DEF ScheduleDispatch
  <2>2. \A n \in Nodes : WithStatus(Copy, B, "QUEUED")[n].status \in {Copy[n].status, "QUEUED"}
    BY WithStatusParts, CopyType DEF NodeStatus
  <2>3. phase = "loaded" /\ ~Copied'
    BY <1>5 DEF ScheduleDispatch, Dispatchable, Copied
  <2> QED
    BY <1>2, <1>3, <2>1, <2>2, <2>3
<1>6. CASE GateRework
  <2>1. PICK ns \in {SendBack(seenNode), WithStatus(seenNode, {Reviewer}, "READY")} :
          phase = "gating" /\ CommitNodes(ns) /\ seenNode' = ns
    BY <1>6 DEF GateRework
  <2>2. \A n \in Nodes : ns[n].status \in {seenNode[n].status, "READY", "PENDING"}
    BY <2>1, SendBackParts, WithStatusParts DEF NodeStatus
  <2> QED
    BY <1>2, <2>1, <2>2
<1>7. CASE ScheduleDelivery
  <2>1. Stale(seenNode) = {}
    BY DEF Stale, Calm, FirstBrief
  <2> QED
    BY <1>1, <1>7, <2>1 DEF ScheduleDelivery, Copied, Close, NoneCanceled
<1>8. CASE RunTask \/ ReadNodes \/ GatePass \/ GateFail \/ ScheduleRunning
           \/ \E n \in Nodes : SendExecute(n)
  BY <1>1, <1>8 DEF RunTask, ReadNodes, GatePass, GateFail, ScheduleRunning, SendExecute, Copied, Close
<1>9. ~ScheduleCancel
  BY <1>1 DEF ScheduleCancel
<1> QED
  BY <1>4, <1>5, <1>6, <1>7, <1>8, <1>9 DEF Control

LEMMA PassIsFreshControl ==
  ASSUME TypeOK, Calm, PassIsFresh, Control
  PROVE  PassIsFresh'
<1> USE DEF rows, OutsideControl, OutsideGate
<1>1. CASE RunTask
  BY <1>1 DEF RunTask, PassIsFresh
<1>2. CASE GateRework
  <2>1. /\ phase = "gating" /\ CommitTask("REWORKING", seenTask.retries + 1, FALSE)
        /\ seenTask' = [seenTask EXCEPT !.status = "REWORKING", !.retries = @ + 1]
    BY <1>2 DEF GateRework
  <2>2. task'.retries = seenTask.retries + 1 /\ task'.status \notin Terminal
    <3>1. /\ task'.retries = seenTask.retries + 1
          /\ task'.status \in Terminal => task'.status = "REWORKING"
      BY <2>1, PassCommits
    <3> QED
      BY <3>1 DEF Terminal
  <2>3. seenTask'.retries = seenTask.retries + 1
    BY <2>1 DEF TypeOK, TaskRow
  <2> QED
    BY <2>2, <2>3 DEF PassIsFresh
<1>3. CASE ReadNodes \/ ScheduleDelivery
  <2>1. Stale(seenNode) = {}
    BY DEF Stale, Calm, FirstBrief
  <2> QED
    BY <1>3, <2>1 DEF ReadNodes, ScheduleDelivery, PassIsFresh, Close
<1>4. CASE \/ ScheduleCancel \/ ScheduleFail \/ GatePass \/ GateFail \/ ScheduleDispatch
           \/ ScheduleWaiting \/ ScheduleRunning \/ ScheduleBlocked
           \/ \E n \in Nodes : SendExecute(n)
  <2>1. phase' \in {"idle", "sending"}
    BY <1>4 DEF ScheduleCancel, ScheduleFail, GatePass, GateFail, ScheduleDispatch,
                ScheduleWaiting, ScheduleRunning, ScheduleBlocked, SendExecute, Close
  <2> QED
    BY <2>1 DEF PassIsFresh
<1> QED
  BY <1>1, <1>2, <1>3, <1>4 DEF Control
-----------------------------------------------------------------------------
(* The rows that the gate answered for.                                    *)
LEMMA GatedRows ==
  ASSUME TypeOK, Calm, RowsFresh, phase = "gating"
  PROVE  ~seenTask.cancel /\ AllSucceeded(seenNode) /\ AllSucceeded(node)
<1>1. ~seenTask.cancel /\ \A n \in Nodes : seenNode[n].status = "SUCCEEDED"
  BY AllOfThem DEF Calm, PassInOrder
<1>2. \A n \in Nodes : node[n].status = "SUCCEEDED"
  BY <1>1 DEF RowsFresh, Copied, ActiveStatus
<1> QED
  BY <1>1, <1>2, AllOfThem

LEMMA EndsControl ==
  ASSUME TypeOK, Calm, Final, Control
  PROVE  Ends'
<1> USE NodeParts DEF rows, OutsideControl, OutsideGate, Final
<1>0. task'.cancel = task.cancel
  BY CommitTaskKeepsCancel
     DEF Control, RunTask, ReadNodes, ScheduleCancel, ScheduleFail, ScheduleDelivery, GatePass,
         GateFail, GateRework, ScheduleDispatch, ScheduleWaiting, ScheduleRunning,
         ScheduleBlocked, SendExecute
<1> SUFFICES ASSUME ~task.cancel
             PROVE  LastWord(node)' /\ (Copied' => LastWord(seenNode)')
  BY <1>0 DEF Ends
<1>1. ~seenTask.cancel /\ LastWord(node) /\ (Copied => LastWord(seenNode))
  BY Uncanceled DEF Ends
<1>2. ASSUME UNCHANGED <<task, node, gate>>,
             Copied' => seenNode' = node \/ (Copied /\ seenNode' = seenNode)
      PROVE  LastWord(node)' /\ (Copied' => LastWord(seenNode)')
  BY <1>1, <1>2 DEF LastWord, Doomed, Exhausted, AllSucceeded, InStatus
<1>3. ASSUME task'.status \notin Terminal
      PROVE  LastWord(node)' /\ (Copied' => LastWord(seenNode)')
  BY <1>3 DEF LastWord, Terminal
<1>4. CASE RunTask \/ ReadNodes \/ ScheduleRunning \/ \E n \in Nodes : SendExecute(n)
  BY <1>2, <1>4 DEF RunTask, ReadNodes, ScheduleRunning, SendExecute, Close, Copied
<1>5. CASE ScheduleDelivery
  <2>1. Stale(seenNode) = {}
    BY DEF Stale, Calm, FirstBrief
  <2>2. /\ UNCHANGED <<task, node, gate>>
        /\ Copied' => seenNode' = node \/ (Copied /\ seenNode' = seenNode)
    BY <1>5, <2>1 DEF ScheduleDelivery, Close, Copied
  <2> QED
    BY <1>2, <2>2
<1>6. CASE ScheduleDispatch \/ ScheduleWaiting \/ GateRework
  <2>1. CASE ScheduleDispatch
    <3>1. PICK B : CommitTask(IF B \subseteq {Reviewer} THEN "REVIEWING" ELSE "RUNNING",
                              CopyRetries, Reworks)
      BY <2>1 DEF ScheduleDispatch
    <3>2. phase = "loaded"
      BY <2>1 DEF ScheduleDispatch, Dispatchable
    <3>3. task'.status \in Terminal => task'.status \in {"REVIEWING", "RUNNING"}
      BY <3>1, <3>2, PassCommits
    <3> QED
      BY <1>3, <3>3 DEF Terminal
  <2>2. CASE ScheduleWaiting
    <3>1. phase = "loaded" /\ CommitTask("WAITING_APPROVAL", CopyRetries, Reworks)
      BY <2>2 DEF ScheduleWaiting, Dispatchable
    <3>2. task'.status \in Terminal => task'.status = "WAITING_APPROVAL"
      BY <3>1, PassCommits
    <3> QED
      BY <1>3, <3>2 DEF Terminal
  <2>3. CASE GateRework
    <3>1. phase = "gating" /\ CommitTask("REWORKING", seenTask.retries + 1, FALSE)
      BY <2>3 DEF GateRework
    <3>2. task'.status \in Terminal => task'.status = "REWORKING"
      BY <3>1, PassCommits
    <3> QED
      BY <1>3, <3>2 DEF Terminal
  <2> QED
    BY <1>6, <2>1, <2>2, <2>3
<1>7. CASE ScheduleFail
  <2>1. phase = "loaded" /\ CommitTask("FAILED", CopyRetries, Reworks) /\ ~Copied'
    BY <1>7 DEF ScheduleFail, Close, Copied
  <2>2. task'.status \in Terminal => task'.status = "FAILED"
    BY <2>1, PassCommits
  <2>3. Doomed(node)'
    BY <1>1, <1>7, FailIsDoom
  <2> QED
    BY <2>1, <2>2, <2>3 DEF LastWord, Terminal
<1>8. CASE GatePass
  <2>1. phase = "gating" /\ CommitTask("SUCCEEDED", seenTask.retries, TRUE) /\ gate' = "pass"
        /\ node' = node /\ ~Copied'
    BY <1>8 DEF GatePass, Verdict, Close, Copied
  <2>2. task'.status = "SUCCEEDED"
    BY <2>1, PassCommits
  <2>3. AllSucceeded(node)'
    BY <2>1, GatedRows DEF AllSucceeded, InStatus
  <2> QED
    BY <2>1, <2>2, <2>3 DEF LastWord
<1>9. CASE GateFail
  <2>1. phase = "gating" /\ CommitTask("FAILED", seenTask.retries, FALSE)
        /\ gate' \in {"producer", "reviewer"} /\ seenTask.retries >= MaxReviewRetries
        /\ node' = node /\ ~Copied'
    BY <1>9 DEF GateFail, Verdict, Close, Copied
  <2>2. /\ task'.retries = seenTask.retries
        /\ task'.status \in Terminal => task'.status = "FAILED"
    BY <2>1, PassCommits
  <2>3. AllSucceeded(node)'
    BY <2>1, GatedRows DEF AllSucceeded, InStatus
  <2> QED
    BY <2>1, <2>2, <2>3 DEF LastWord, Exhausted, Terminal
<1>10. ~ScheduleBlocked /\ ~ScheduleCancel
  BY <1>1, NotBlocked DEF ScheduleCancel
<1> QED
  BY <1>4, <1>5, <1>6, <1>7, <1>8, <1>9, <1>10 DEF Control

LEMMA FinalInit == Init => Final
<1> SUFFICES ASSUME Init  PROVE Final
  OBVIOUS
<1>1. phase = "idle" /\ task.status = "PLANNING" /\ \A n \in Nodes : node[n].status # "CANCELED"
  BY DEF Init, InitTask, InitNode
<1> QED
  BY <1>1 DEF Final, PassIsFresh, RowsFresh, NoneCanceled, Ends, LastWord, Copied

Ended == Ordered /\ (Undisturbed => Final)

LEMMA EndedCorrect == Spec => []Ended
<1>1. Init => Ended
  BY OrderedInit, FinalInit DEF Ended
<1>2. Ended /\ [Next]_vars => Ended'
  <2> SUFFICES ASSUME Ended, [Next]_vars, Undisturbed'  PROVE Final'
    BY OrderedNext DEF Ended
  <2>1. TypeOK /\ Calm /\ Final /\ (Control \/ Outside)
    BY CalmSteps DEF Ended, Ordered, Quiet
  <2>2. CASE Outside
    BY <2>1, <2>2, FinalOutside
  <2>3. CASE Control
    <3>1. PassIsFresh' /\ RowsFresh' /\ NoneCanceled' /\ Ends'
      BY <2>1, <2>3, PassIsFreshControl, RowsFreshControl, NoneCanceledControl, EndsControl
         DEF Final
    <3> QED
      BY <3>1 DEF Final
  <2> QED
    BY <2>1, <2>2, <2>3
<1> QED
  BY <1>1, <1>2, PTL DEF Spec

-----------------------------------------------------------------------------
(* A pass over an ended task ends it the same way.                         *)
LEMMA PassOfEnded ==
  ASSUME TypeOK, Calm, Final, task.status \in Terminal, ~task.cancel, Control
  PROVE  task'.status = task.status
<1> USE NodeParts DEF rows, OutsideControl, OutsideGate, Final
<1>1. ~seenTask.cancel /\ LastWord(node) /\ (Copied => LastWord(seenNode))
  BY Uncanceled DEF Ends
<1>2. ~ScheduleBlocked /\ ~ScheduleCancel
  BY <1>1, NotBlocked DEF ScheduleCancel
<1>3. ASSUME phase = "loaded"
      PROVE  /\ AllSucceeded(seenNode) \/ Doomed(seenNode)
             /\ ~Dispatchable
             /\ AllSucceeded(seenNode) => ~ScheduleFail
  <2>1. AllSucceeded(seenNode) \/ Doomed(seenNode)
    BY <1>1, <1>3 DEF LastWord, Exhausted, Terminal, Copied
  <2> QED
    BY <1>1, <1>3, <2>1, CopyOfAll, CopyOfDoomed DEF Dispatchable, ScheduleFail
<1>4. CASE ScheduleFail
  <2>1. phase = "loaded" /\ CommitTask("FAILED", CopyRetries, Reworks) /\ ~AllSucceeded(seenNode)
    BY <1>3, <1>4 DEF ScheduleFail
  <2>2. task.status = "FAILED"
    BY <1>1, <2>1 DEF LastWord, Terminal, Copied
  <2> QED
    BY <2>1, <2>2 DEF CommitTask, TypeOK, TaskRow
<1>5. CASE ScheduleDispatch \/ ScheduleWaiting \/ ScheduleRunning
  BY <1>3, <1>5 DEF ScheduleDispatch, ScheduleWaiting, ScheduleRunning, Dispatchable
<1>6. CASE GatePass \/ GateFail \/ GateRework
  <2>1. phase = "gating" /\ AllSucceeded(seenNode)
    BY <1>6, GatedRows DEF GatePass, GateFail, GateRework
  <2>2. ~Doomed(seenNode)
    BY <2>1, AllOfThem DEF Doomed, Producers
  <2>3. \/ task.status = "SUCCEEDED" /\ gate = "pass"
        \/ /\ task.status = "FAILED" /\ gate \in {"producer", "reviewer"}
           /\ seenTask.retries >= MaxReviewRetries
    BY <1>1, <2>1, <2>2 DEF LastWord, Exhausted, Terminal, Copied, PassIsFresh
  <2>4. ~GateRework
    <3>1. seenTask.retries \in Nat /\ MaxReviewRetries \in Nat
      BY BoundsAreNaturals DEF TypeOK, TaskRow
    <3>2. ASSUME GateRework  PROVE FALSE
      <4>1. seenTask.retries < MaxReviewRetries /\ gate \in {"unknown", "producer", "reviewer"}
        BY <3>2 DEF GateRework, Verdict
      <4>2. seenTask.retries >= MaxReviewRetries
        BY <2>3, <4>1
      <4> QED
        BY <3>1, <4>1, <4>2
    <3> QED
      BY <3>2
  <2>5. \/ task.status = "SUCCEEDED" /\ CommitTask("SUCCEEDED", seenTask.retries, TRUE)
        \/ task.status = "FAILED" /\ CommitTask("FAILED", seenTask.retries, FALSE)
    BY <1>6, <2>3, <2>4 DEF GatePass, GateFail, Verdict
  <2> QED
    BY <2>5 DEF CommitTask, TypeOK, TaskRow
<1>7. CASE ScheduleDelivery
  <2>1. Stale(seenNode) = {}
    BY DEF Stale, Calm, FirstBrief
  <2> QED
    BY <1>7, <2>1 DEF ScheduleDelivery
<1>8. CASE RunTask \/ ReadNodes \/ \E n \in Nodes : SendExecute(n)
  BY <1>8 DEF RunTask, ReadNodes, SendExecute
<1> QED
  BY <1>2, <1>4, <1>5, <1>6, <1>7, <1>8 DEF Control

(* The pass that follows a cancellation knows of it.                       *)
LEMMA PassOfCanceled ==
  ASSUME TypeOK, Calm, Final, task.status \in Terminal, task.cancel, Control
  PROVE  task'.status \in {task.status, "CANCELED"}
<1> USE DEF rows, OutsideControl, OutsideGate
<1>1. phase \in {"opened", "loaded", "gating"} => seenTask.cancel
  BY DEF Final, PassIsFresh
<1>2. phase # "gating"
  BY <1>1 DEF Calm, PassInOrder
<1>3. CASE ScheduleCancel
  BY <1>3 DEF ScheduleCancel, CommitTask, TypeOK, TaskRow
<1>4. CASE RunTask \/ ReadNodes \/ \E n \in Nodes : SendExecute(n)
  BY <1>4 DEF RunTask, ReadNodes, SendExecute
<1> QED
  BY <1>1, <1>2, <1>3, <1>4
     DEF Control, ScheduleFail, ScheduleDelivery, GatePass, GateFail, GateRework,
         ScheduleDispatch, ScheduleWaiting, ScheduleRunning, ScheduleBlocked, Dispatchable

(* A task that ended stays ended, except that a cancellation requested     *)
(* while it was failing or being delivered may still turn it CANCELED, and *)
(* that an approval asked for or answered after the end reopens it         *)
(* (run_task schedules an ended task like any other).                      *)
THEOREM TerminalIsFinalCorrect == Spec => TerminalIsFinal
<1> DEFINE Kept == Undisturbed /\ task.status \in Terminal =>
             \/ task'.status = task.status
             \/ task.cancel /\ task'.status = "CANCELED"
             \/ \E w \in Workers : ExecuteWait(w)
             \/ \E n \in Nodes : DecideApproval(n)
<1>1. Ended /\ [Next]_vars => Kept
  <2> SUFFICES ASSUME Ended, [Next]_vars, Undisturbed, task.status \in Terminal,
                      ~\E w \in Workers : ExecuteWait(w), ~\E n \in Nodes : DecideApproval(n)
               PROVE  task'.status = task.status \/ (task.cancel /\ task'.status = "CANCELED")
    OBVIOUS
  <2> USE DEF rows, Terminal
  <2>1. TypeOK /\ Calm /\ Final
    BY DEF Ended, Ordered, Quiet
  <2>2. CASE Control
    BY <2>1, <2>2, PassOfEnded, PassOfCanceled
  <2>3. CASE \E w \in Workers : Agent(w)
    BY <2>3 DEF Agent, Take, Outcome, ExecuteStart, ExecuteIgnore, ExecuteRound, ExecuteTools,
                ExecuteFail, ExecuteAnswer, ExecuteClose, ExecuteReturn
  <2>4. CASE Supervise
    <3>1. ASSUME NEW affected \in SUBSET Nodes, SuperviseMerge(affected)
          PROVE  task'.status = task.status
      BY <2>1, <3>1 DEF SuperviseMerge, TypeOK, TaskRow
    <3> QED
      BY <2>4, <3>1 DEF Supervise, SuperviseBegin, SuperviseReply
  <2>5. CASE User \/ UNCHANGED vars
    BY <2>5 DEF User, CreateTaskMessage, CancelTask, vars
  <2>6. CASE Faulty
    BY <2>6 DEF Faulty, ControlCrash, SupervisorCrash, SendFails, ExecuteCrash, ExecuteRaise
  <2> QED
    BY <2>2, <2>3, <2>4, <2>5, <2>6 DEF Next
<1>2. []Ended /\ [][Next]_vars => [][Kept]_vars
  BY <1>1, PTL
<1> QED
  BY <1>2, EndedCorrect, PTL DEF Spec, TerminalIsFinal
-----------------------------------------------------------------------------
(***************************************************************************)
(* The implementation of Revision.  A cancellation that comes too late     *)
(* loses nothing of a delivery, and a node that asks its owner rests.      *)
(***************************************************************************)
Delivered ==
  task.status = "SUCCEEDED" => AllSucceeded(node) /\ (Copied => AllSucceeded(seenNode))

AskedWait == \A n \in approvals : node[n].status \in {"WAITING", "CANCELED"} /\ ~Held(n)

LEMMA DeliveredOutside ==
  ASSUME TypeOK, Calm, Delivered, Outside
  PROVE  Delivered'
<1> SUFFICES ASSUME task'.status = "SUCCEEDED"
             PROVE  AllSucceeded(node)' /\ (Copied' => AllSucceeded(seenNode)')
  BY DEF Delivered
<1>1. AllSucceeded(node) /\ (Copied => AllSucceeded(seenNode))
  BY DEF Delivered, Outside, Terminal
<1>2. \A n \in Nodes : node'[n].status = "SUCCEEDED"
  BY <1>1, AllOfThem, FinishedStays
<1>3. AllSucceeded(node')
  BY <1>2, AllOfThem
<1> QED
  BY <1>1, <1>3 DEF Outside, Copied, AllSucceeded, InStatus

(* A canceling pass over nodes that all succeeded changes none.            *)
LEMMA CancelOfAll ==
  ASSUME TypeOK, ScheduleCancel, AllSucceeded(seenNode)
  PROVE  node' = node
<1>1. CommitNodes(WithStatus(seenNode, Nodes \ InStatus(seenNode, {"SUCCEEDED", "FAILED"}), "CANCELED"))
  BY DEF ScheduleCancel
<1>2. Nodes \ InStatus(seenNode, {"SUCCEEDED", "FAILED"}) = {}
  BY AllOfThem DEF InStatus
<1>3. \A n \in Nodes : WithStatus(seenNode, {}, "CANCELED")[n] = seenNode[n]
  BY WithStatusRow
<1> QED
  BY <1>1, <1>2, <1>3, NodeParts DEF CommitNodes, Nodes0

LEMMA DeliveredControl ==
  ASSUME TypeOK, Calm, Final, Delivered, Control, Ends'
  PROVE  Delivered'
<1> USE DEF rows, OutsideControl, OutsideGate
<1>0. task'.cancel = task.cancel
  BY CommitTaskKeepsCancel
     DEF Control, RunTask, ReadNodes, ScheduleCancel, ScheduleFail, ScheduleDelivery, GatePass,
         GateFail, GateRework, ScheduleDispatch, ScheduleWaiting, ScheduleRunning,
         ScheduleBlocked, SendExecute
<1>1. CASE ~task.cancel
  BY <1>0, <1>1 DEF Ends, LastWord, Delivered
<1>2. CASE task.cancel /\ task.status # "SUCCEEDED"
  <2> SUFFICES ASSUME task'.status = "SUCCEEDED"
               PROVE  AllSucceeded(node)' /\ ~Copied'
    BY DEF Delivered
  <2>1. GatePass
    BY <1>2, OnlyGatePassDelivers DEF Delivers, Next
  <2>2. phase = "gating" /\ node' = node /\ ~Copied'
    BY <2>1 DEF GatePass, Close, Copied
  <2> QED
    BY <2>2, GatedRows DEF Final, AllSucceeded, InStatus
<1>3. CASE task.cancel /\ task.status = "SUCCEEDED"
  <2>1. phase \in {"opened", "loaded", "gating"} => seenTask.cancel
    BY <1>3 DEF Final, PassIsFresh, Terminal
  <2>2. AllSucceeded(node) /\ (Copied => AllSucceeded(seenNode))
    BY <1>3 DEF Delivered
  <2>3. phase # "gating"
    BY <2>1 DEF Calm, PassInOrder
  <2>4. CASE ScheduleCancel
    <3>1. node' = node /\ ~Copied'
      BY <2>2, <2>4, CancelOfAll DEF ScheduleCancel, Copied, Close
    <3> QED
      BY <2>2, <3>1 DEF Delivered, AllSucceeded, InStatus
  <2>5. CASE RunTask \/ ReadNodes \/ \E n \in Nodes : SendExecute(n)
    BY <2>2, <2>5 DEF RunTask, ReadNodes, SendExecute, Delivered, Copied, AllSucceeded, InStatus
  <2> QED
    BY <2>1, <2>3, <2>4, <2>5
       DEF Control, ScheduleFail, ScheduleDelivery, GatePass, GateFail, GateRework,
           ScheduleDispatch, ScheduleWaiting, ScheduleRunning, ScheduleBlocked, Dispatchable
<1> QED
  BY <1>1, <1>2, <1>3

LEMMA AskedOutside ==
  ASSUME TypeOK, TypeOK', Calm', AskedWait, Outside
  PROVE  AskedWait'
<1> SUFFICES ASSUME NEW n \in approvals'
             PROVE  node'[n].status \in {"WAITING", "CANCELED"} /\ ~Held(n)'
  BY DEF AskedWait
<1>1. n \in Nodes
  BY BoundsAreNaturals DEF TypeOK
<1>2. CASE n \in approvals
  BY <1>1, <1>2 DEF AskedWait, Outside
<1>3. CASE n \notin approvals
  <2>1. node'[n].status = "WAITING"
    BY <1>1, <1>3 DEF Outside
  <2>2. Held(n)' => node'[n].status \in {"QUEUED", "RUNNING", "CANCELED"}
    BY <1>1 DEF Calm, HeldStatus, OneHolder, Held, Canceling
  <2> QED
    BY <2>1, <2>2
<1> QED
  BY <1>2, <1>3

(* Passes do not touch a node that waits or was canceled.                  *)
LEMMA AskedPass ==
  ASSUME TypeOK, Calm, AskedWait, phase \in {"loaded", "gating"}, ~seenTask.cancel,
         NEW ns, Respects(ns), CommitNodes(ns), UNCHANGED <<agentq, session, approvals>>,
         \A n \in Nodes : seenNode[n].status = "CANCELED" => ns[n].status = "CANCELED",
         \A n \in dispatch' : seenNode[n].status \notin ActiveStatus /\ ns[n].status = "QUEUED"
  PROVE  AskedWait'
<1> SUFFICES ASSUME NEW n \in approvals
             PROVE  node'[n].status \in {"WAITING", "CANCELED"} /\ ~Held(n)'
  BY DEF AskedWait
<1>1. n \in Nodes /\ node[n].status \in {"WAITING", "CANCELED"} /\ ~Held(n)
  BY BoundsAreNaturals DEF TypeOK, AskedWait
<1>2. CASE seenNode[n].status \in ActiveStatus
  <2>1. node'[n].status = node[n].status
    BY <1>1, <1>2, CommitParts
  <2> QED
    BY <1>1, <1>2, <2>1 DEF Held, Queued, OnWorker
<1>3. CASE seenNode[n].status \notin ActiveStatus
  <2>1. node[n].status = seenNode[n].status
    BY <1>1, <1>3, PassFacts
  <2>2. ns[n].status = "CANCELED"
    BY <1>1, <1>3, <2>1 DEF ActiveStatus
  <2>3. node'[n].status = "CANCELED" /\ n \notin dispatch'
    BY <1>1, <1>3, <2>2, CommitParts
  <2> QED
    BY <1>1, <2>3 DEF Held, Queued, OnWorker
<1> QED
  BY <1>2, <1>3
(* The passes that work on: they commit the copy, some of it queued.       *)
WorksOn == ScheduleFail \/ ScheduleWaiting \/ ScheduleBlocked \/ ScheduleDispatch

Queuing(ns) ==
  /\ Respects(ns) /\ CommitNodes(ns)
  /\ \A n \in Nodes :
       ns[n].status = Copy[n].status \/ (Copy[n].status = "READY" /\ ns[n].status = "QUEUED")
  /\ \A n \in dispatch' : seenNode[n].status \notin ActiveStatus /\ ns[n].status = "QUEUED"

LEMMA WorksOnParts ==
  ASSUME TypeOK, Calm, WorksOn
  PROVE  /\ phase = "loaded" /\ ~seenTask.cancel
         /\ UNCHANGED <<agentq, session, approvals, reviewed>>
         /\ \E st \in {"FAILED", "WAITING_APPROVAL", "REVIEWING", "RUNNING"} :
              /\ CommitTask(st, CopyRetries, Reworks)
              /\ st = "FAILED" <=> ScheduleFail \/ ScheduleBlocked
         /\ \E ns : Queuing(ns)
<1> USE DEF OutsideControl, rows
<1>1. phase = "loaded" /\ ~seenTask.cancel /\ UNCHANGED <<agentq, session, approvals, reviewed>>
  BY DEF WorksOn, ScheduleFail, ScheduleWaiting, ScheduleBlocked, ScheduleDispatch, Dispatchable
<1>2. Respects(Copy) /\ \A n \in Nodes : Copy[n].status \in ActiveStatus => seenNode[n].status \in ActiveStatus
  BY <1>1, CopyRespects
<1>3. CASE ScheduleFail \/ ScheduleWaiting \/ ScheduleBlocked
  <2>1. CommitNodes(Copy) /\ dispatch' = {}
    BY <1>3 DEF ScheduleFail, ScheduleWaiting, ScheduleBlocked, Close
  <2>2. Queuing(Copy)
    BY <1>2, <2>1 DEF Queuing
  <2>3. \E st \in {"FAILED", "WAITING_APPROVAL"} :
          /\ CommitTask(st, CopyRetries, Reworks)
          /\ st = "FAILED" <=> ScheduleFail \/ ScheduleBlocked
    <3>1. ScheduleWaiting => ~ScheduleFail /\ ~ScheduleBlocked
      BY DEF ScheduleFail, ScheduleWaiting, ScheduleBlocked, Dispatchable, Active, InStatus
    <3> QED
      BY <1>3, <3>1 DEF ScheduleFail, ScheduleWaiting, ScheduleBlocked
  <2> QED
    BY <1>1, <2>2, <2>3
<1>4. CASE ScheduleDispatch
  <2>1. PICK B \in Batches(Copy) \ {{}} :
          /\ CommitTask(IF B \subseteq {Reviewer} THEN "REVIEWING" ELSE "RUNNING",
                        CopyRetries, Reworks)
          /\ CommitNodes(WithStatus(Copy, B, "QUEUED"))
          /\ dispatch' = B
    BY <1>4 DEF ScheduleDispatch
  <2>2. ~ScheduleFail /\ ~ScheduleBlocked
    BY <1>4, <2>1 DEF ScheduleFail, ScheduleBlocked, ScheduleDispatch, Dispatchable
  <2>3. \A n \in B : n \in Nodes /\ Copy[n].status = "READY"
    BY <2>1 DEF Batches, InStatus
  <2> DEFINE ns == WithStatus(Copy, B, "QUEUED")
  <2>4. /\ ns \in Nodes0
        /\ \A n \in Nodes : /\ ns[n].status = (IF n \in B THEN "QUEUED" ELSE Copy[n].status)
                            /\ ns[n].target = Copy[n].target /\ ns[n].applied = Copy[n].applied
    BY CopyType, WithStatusType, WithStatusParts DEF NodeStatus
  <2>5. CommitNodes(ns)
    BY <2>1
  <2> HIDE DEF ns
  <2>6. ReviewInOrder(ns)
    BY <1>2, <2>3, <2>4, Dependencies, PlanIsValid DEF Respects, ReviewInOrder
  <2>7. Respects(ns)
    BY <1>2, <2>3, <2>4, <2>6 DEF Respects, ActiveStatus
  <2>8. \A n \in B : seenNode[n].status \notin ActiveStatus
    BY <1>2, <2>3 DEF Respects, ActiveStatus
  <2>9. Queuing(ns)
    BY <2>1, <2>3, <2>4, <2>5, <2>7, <2>8 DEF Queuing
  <2>10. \E st \in {"REVIEWING", "RUNNING"} : CommitTask(st, CopyRetries, Reworks)
    BY <2>1
  <2> QED
    BY <1>1, <2>2, <2>9, <2>10
<1> QED
  BY <1>3, <1>4 DEF WorksOn

LEMMA AskedControl ==
  ASSUME TypeOK, Calm, AskedWait, Control
  PROVE  AskedWait'
<1> USE DEF rows, OutsideControl, OutsideGate
<1>0. approvals' = approvals /\ approvals \subseteq Nodes
  BY BoundsAreNaturals
     DEF TypeOK, Control, RunTask, ReadNodes, ScheduleCancel, ScheduleFail, ScheduleDelivery,
         GatePass, GateFail, GateRework, ScheduleDispatch, ScheduleWaiting, ScheduleRunning,
         ScheduleBlocked, SendExecute
<1>1. ASSUME node' = node, UNCHANGED <<agentq, session>>, dispatch' \subseteq dispatch
      PROVE  AskedWait'
  BY <1>0, <1>1 DEF AskedWait, Held, Queued, OnWorker
<1>2. CASE RunTask \/ ReadNodes \/ GatePass \/ GateFail \/ ScheduleRunning
  BY <1>1, <1>2 DEF RunTask, ReadNodes, GatePass, GateFail, ScheduleRunning, Close
<1>3. CASE ScheduleDelivery
  <2>1. Stale(seenNode) = {}
    BY DEF Stale, Calm, FirstBrief
  <2> QED
    BY <1>1, <1>3, <2>1 DEF ScheduleDelivery, Close
<1>4. CASE WorksOn
  <2>1. PICK ns : Queuing(ns)
    BY <1>4, WorksOnParts
  <2>2. /\ phase = "loaded" /\ ~seenTask.cancel
        /\ UNCHANGED <<agentq, session, approvals>>
    BY <1>4, WorksOnParts
  <2>3. ASSUME NEW n \in Nodes, seenNode[n].status = "CANCELED"  PROVE ns[n].status = "CANCELED"
    <3>1. Reworks => n # Reviewer /\ n \notin DependsOn[Reviewer]
      BY <2>2, <2>3, PassFacts DEF Reworks, ReworkDue, ReviewInOrder
    <3>2. Base[n].status = "CANCELED"
      BY <2>3, <3>1, CopyStatus
    <3>3. Copy[n].status = "CANCELED"
      BY <3>2, CopyStatus
    <3> QED
      BY <2>1, <3>3 DEF Queuing
  <2> QED
    BY <2>1, <2>2, <2>3, AskedPass DEF Queuing
<1>5. CASE GateRework
  <2>1. PICK ns \in {SendBack(seenNode), WithStatus(seenNode, {Reviewer}, "READY")} :
           /\ CommitNodes(ns) /\ Respects(ns)
           /\ \A n \in Nodes : seenNode[n].status = "SUCCEEDED"
           /\ ~seenTask.cancel
    BY <1>5, GateReworkParts
  <2>2. phase = "gating" /\ dispatch' = {} /\ UNCHANGED <<agentq, session>>
    BY <1>5 DEF GateRework, Calm, OneHolder
  <2> QED
    BY <1>0, <2>1, <2>2, AskedPass
<1>6. CASE ScheduleCancel
  <2> DEFINE S == Nodes \ InStatus(seenNode, {"SUCCEEDED", "FAILED"})
  <2>1. /\ CommitNodes(WithStatus(seenNode, S, "CANCELED")) /\ dispatch' = {}
        /\ UNCHANGED <<agentq, session>>
    BY <1>6 DEF ScheduleCancel, Close
  <2>2. \A n \in Nodes : WithStatus(seenNode, S, "CANCELED")[n].status
                           = (IF n \in S THEN "CANCELED" ELSE seenNode[n].status)
    BY NodeParts, WithStatusParts DEF NodeStatus
  <2> HIDE DEF S
  <2>3. \A n \in Nodes : node'[n].status \in {node[n].status, "CANCELED"}
    BY <2>1, <2>2, NodeParts DEF CommitNodes, Nodes0, NodeRow
  <2> QED
    BY <1>0, <2>1, <2>3 DEF AskedWait, Held, Queued, OnWorker
<1>7. ASSUME NEW n \in Nodes, SendExecute(n)  PROVE AskedWait'
  <2>1. /\ n \in dispatch /\ dispatch' = dispatch \ {n} /\ UNCHANGED <<node, session>>
        /\ agentq' = [agentq EXCEPT ![<<n, 0>>] = agentq[<<n, 0>>] + 1]
    BY <1>7 DEF SendExecute
  <2>2. \A m \in Nodes : m # n => Queued(m)' = Queued(m)
    <3>1. \A m \in Nodes : <<m, 0>> \in Messages
      BY DEF Messages, MaxExecRetries
    <3> QED
      BY <2>1, <3>1 DEF Queued, TypeOK
  <2>3. \A m \in Nodes : Held(m)' => Held(m)
    BY <2>1, <2>2 DEF Held, OnWorker
  <2> QED
    BY <1>0, <2>1, <2>3 DEF AskedWait
<1> QED
  BY <1>2, <1>3, <1>4, <1>5, <1>6, <1>7 DEF Control, WorksOn
-----------------------------------------------------------------------------
(* Each step of the workers is a step of the revision or changes nothing   *)
(* the owner is promised.                                                  *)
Done(ns) == InStatus(ns, {"SUCCEEDED"})
Lost(ns) == InStatus(ns, {"FAILED"})

PromiseKept == [Promise!Next]_(Promise!vars)

SettledKept == Done(node)' = Done(node) /\ Lost(node)' = Lost(node)

LEMMA Unsettled ==
  ASSUME \A n \in Nodes :
           \/ node'[n].status = node[n].status
           \/ /\ node'[n].status \notin {"SUCCEEDED", "FAILED"}
              /\ node[n].status \notin {"SUCCEEDED", "FAILED"}
  PROVE  SettledKept
BY DEF SettledKept, Done, Lost, InStatus

LEMMA Stutters ==
  ASSUME SettledKept, Ending' = Ending, UNCHANGED <<reviewed>>,
         task'.retries = task.retries, task'.cancel = task.cancel
  PROVE  PromiseKept
BY DEF PromiseKept, SettledKept, Done, Lost, Promise!vars

(* What changes the row of one node.                                       *)
LEMMA OneRow ==
  ASSUME TypeOK, NEW n \in Nodes, NEW st \in NodeStatus,
         \A m \in Nodes : m # n => node'[m] = node[m], node'[n].status = st,
         node[n].status \notin {"SUCCEEDED", "FAILED"}
  PROVE  /\ n \notin Done(node) /\ n \notin Lost(node)
         /\ st \notin {"SUCCEEDED", "FAILED"} => SettledKept
         /\ st = "SUCCEEDED" => Done(node)' = Done(node) \cup {n} /\ Lost(node)' = Lost(node)
         /\ st = "FAILED" => Lost(node)' = Lost(node) \cup {n} /\ Done(node)' = Done(node)
BY DEF Done, Lost, InStatus, SettledKept

LEMMA Reopens ==
  ASSUME TypeOK, Delivered, SettledKept, NEW n \in Nodes,
         node[n].status \notin {"SUCCEEDED", "FAILED"},
         task'.status \notin Terminal, task'.retries = task.retries,
         task'.cancel = task.cancel, UNCHANGED <<reviewed>>
  PROVE  PromiseKept
<1>1. Ending' = "open"
  BY DEF Ending, Terminal
<1>2. CASE task.status \notin Terminal
  <2>1. Ending = "open"
    BY <1>2 DEF Ending, Terminal
  <2> QED
    BY <1>1, <2>1, Stutters
<1>3. CASE task.status \in Terminal
  <2>1. task.status # "SUCCEEDED"
    BY AllOfThem DEF Delivered
  <2>2. Ending \in {"failed", "canceled"}
    BY <1>3, <2>1 DEF Ending, Terminal
  <2>3. Done(node) \cup Lost(node) # Nodes
    BY DEF Done, Lost, InStatus
  <2>4. Promise!Reopen
    BY <1>1, <2>2, <2>3 DEF Promise!Reopen, Promise!Settled, Done, Lost, SettledKept
  <2> QED
    BY <2>4 DEF PromiseKept, Promise!Next
<1> QED
  BY <1>2, <1>3

LEMMA StartPromised ==
  ASSUME TypeOK, Calm, Order, NEW w \in Workers, NEW n \in Nodes, NEW r \in 0..MaxExecRetries,
         ExecuteStart(w, n, r)
  PROVE  PromiseKept
<1>1. Acting(n) /\ node[n].status \in Startable
  BY TakeOutside DEF Acting, ExecuteStart
<1>2. /\ \A m \in Nodes : m # n => node'[m] = node[m]
      /\ node'[n].status = "RUNNING"
  BY NodeParts DEF ExecuteStart, Nodes0, NodeRow
<1>3. n \notin Done(node) /\ n \notin Lost(node) /\ SettledKept
  BY <1>1, <1>2, OneRow DEF Startable, NodeStatus
<1>4. \A d \in DependsOn[n] :
        d \in Done(node) \/ (task.retries > 0 /\ n # Reviewer /\ d \in DependsOn[Reviewer])
  BY <1>1, Dependencies DEF Order, SentBack, Done, InStatus
<1>5. /\ reviewed' = IF n = Reviewer THEN Done(node) ELSE reviewed \ {n}
      /\ task' = task
  BY DEF ExecuteStart, Done
<1>6. Ending' = Ending
  BY <1>5 DEF Ending
<1>7. Promise!Start(n)
  BY <1>3, <1>4, <1>5, <1>6 DEF Promise!Start, Promise!Settled, Done, Lost, SettledKept
<1> QED
  BY <1>7 DEF PromiseKept, Promise!Next

LEMMA AgentPromised ==
  ASSUME TypeOK, Calm, Order, Delivered, NEW w \in Workers, Agent(w)
  PROVE  PromiseKept
<1> USE NodeParts DEF Untouched, rows
<1> DEFINE n == session[w].node
<1>1. ASSUME session[w].step \in {"round", "calling", "closing"}
      PROVE  n \in Nodes /\ node[n].status \notin {"SUCCEEDED", "FAILED"}
  <2>1. n \in Nodes /\ Held(n)
    BY <1>1 DEF Held, OnWorker
  <2> HIDE DEF n
  <2> QED
    BY <2>1, HeldParts
<1>2. ASSUME n \in Nodes, NEW st, NEW b,
             \/ node' = [node EXCEPT ![n].status = st]
             \/ node' = [node EXCEPT ![n].status = st, ![n].rework = b]
      PROVE  node'[n].status = st /\ \A m \in Nodes : m # n => node'[m] = node[m]
  <2> HIDE DEF n
  <2> QED
    BY <1>2 DEF Nodes0, NodeRow
<1>3. ASSUME n \in Nodes, node' = Applied(n)
       PROVE  \A m \in Nodes : node'[m].status = node[m].status
  <2> HIDE DEF n
  <2> QED
    BY <1>3 DEF Nodes0, NodeRow, Applied
<1>4. ASSUME task' = task  PROVE Ending' = Ending
  BY <1>4 DEF Ending
<1>5. ASSUME UNCHANGED <<task, reviewed>>, \A m \in Nodes : node'[m].status = node[m].status
      PROVE  PromiseKept
  BY <1>4, <1>5, Unsettled, Stutters
<1>6. ASSUME UNCHANGED <<task, reviewed>>, n \in Nodes, node[n].status \notin {"SUCCEEDED", "FAILED"},
             NEW st \in {"SUCCEEDED", "FAILED"}, node'[n].status = st,
             \A m \in Nodes : m # n => node'[m] = node[m]
      PROVE  PromiseKept
  <2> HIDE DEF n
  <2>1. /\ n \notin Done(node) /\ n \notin Lost(node)
        /\ \/ Done(node)' = Done(node) \cup {n} /\ Lost(node)' = Lost(node)
           \/ Lost(node)' = Lost(node) \cup {n} /\ Done(node)' = Done(node)
    BY <1>6, OneRow DEF NodeStatus
  <2>2. Promise!Settle(n)
    BY <1>4, <1>6, <2>1 DEF Promise!Settle, Promise!Settled, Done, Lost
  <2> QED
    BY <1>6, <2>2 DEF PromiseKept, Promise!Next
<1>7. CASE Take(w)
  <2>1. ASSUME NEW m \in Nodes, NEW r \in 0..MaxExecRetries, ExecuteIgnore(w, m, r)
        PROVE  PromiseKept
    BY <1>5, <2>1 DEF ExecuteIgnore
  <2> QED
    BY <1>7, <2>1, StartPromised DEF Take
<1>8. CASE ExecuteRound(w)
  <2>1. session[w].step = "round" /\ UNCHANGED <<task, reviewed>>
    BY <1>8 DEF ExecuteRound, Executing
  <2>2. CASE node' = [node EXCEPT ![n].status = "CANCELED"]
    <3>1. /\ n \in Nodes /\ node[n].status \notin {"SUCCEEDED", "FAILED"}
          /\ node'[n].status = "CANCELED" /\ \A m \in Nodes : m # n => node'[m] = node[m]
      BY <1>1, <1>2, <2>1, <2>2
    <3> HIDE DEF n
    <3> QED
      BY <1>4, <2>1, <3>1, Unsettled, Stutters
  <2>3. CASE node' = Applied(n)
    BY <1>1, <1>3, <1>5, <2>1, <2>3
  <2> QED
    BY <1>8, <2>2, <2>3 DEF ExecuteRound
<1>9. CASE ExecuteTools(w) \/ ExecuteReturn(w)
  BY <1>5, <1>9 DEF ExecuteTools, ExecuteReturn
<1>10. CASE ExecuteFail(w)
  <2>1. /\ session[w].step = "calling" /\ UNCHANGED <<task, reviewed>>
        /\ node' = [node EXCEPT ![n].status = "FAILED", ![n].rework = FALSE]
    BY <1>10 DEF ExecuteFail, Executing, SetStatus
  <2>2. node'[n].status = "FAILED" /\ \A m \in Nodes : m # n => node'[m] = node[m]
    BY <1>1, <1>2, <2>1
  <2> QED
    BY <1>1, <1>6, <2>1, <2>2
<1>11. CASE ExecuteAnswer(w)
  <2>1. session[w].step = "calling" /\ UNCHANGED <<task, reviewed>> /\ node' = Applied(n)
    BY <1>11 DEF ExecuteAnswer, Executing
  <2> QED
    BY <1>1, <1>3, <1>5, <2>1
<1>12. CASE ExecuteClose(w)
  <2>1. session[w].step = "closing" /\ UNCHANGED <<task, reviewed>>
    BY <1>12 DEF ExecuteClose, Executing
  <2>2. PICK st \in {"SUCCEEDED", "FAILED"} :
          \E b : node' = [node EXCEPT ![n].status = st, ![n].rework = b]
    BY <1>12 DEF ExecuteClose, SetStatus
  <2>3. node'[n].status = st /\ \A m \in Nodes : m # n => node'[m] = node[m]
    BY <1>1, <1>2, <2>1, <2>2
  <2> QED
    BY <1>1, <1>6, <2>1, <2>3
<1>13. CASE ExecuteWait(w)
  <2>1. /\ session[w].step = "calling" /\ UNCHANGED <<reviewed>>
        /\ node' = [node EXCEPT ![n].status = "WAITING"]
        /\ task' = task \/ task' = [task EXCEPT !.status = "WAITING_APPROVAL"]
    BY <1>13 DEF ExecuteWait, Executing
  <2>2. /\ n \in Nodes /\ node[n].status \notin {"SUCCEEDED", "FAILED"}
        /\ node'[n].status = "WAITING" /\ \A m \in Nodes : m # n => node'[m] = node[m]
    BY <1>1, <1>2, <2>1
  <2> HIDE DEF n
  <2>3. SettledKept
    BY <2>2, Unsettled
  <2>4. CASE task' = task
    BY <1>4, <2>1, <2>3, <2>4, Stutters
  <2>5. CASE task' = [task EXCEPT !.status = "WAITING_APPROVAL"]
    <3>1. /\ task'.status \notin Terminal /\ task'.retries = task.retries
          /\ task'.cancel = task.cancel
      BY <2>5 DEF TypeOK, TaskRow, Terminal
    <3> QED
      BY <2>1, <2>2, <2>3, <3>1, Reopens
  <2> QED
    BY <2>1, <2>4, <2>5
<1> QED
  BY <1>7, <1>8, <1>9, <1>10, <1>11, <1>12, <1>13 DEF Agent, Outcome

LEMMA UserPromised ==
  ASSUME TypeOK, Calm, Delivered, AskedWait, User
  PROVE  PromiseKept
<1> USE NodeParts DEF rows, OutsideSupervisor
<1>1. CASE \E d \in Directives : CreateTaskMessage(d)
  <2>1. UNCHANGED <<task, node, reviewed>>
    BY <1>1 DEF CreateTaskMessage
  <2> QED
    BY <2>1, Unsettled, Stutters DEF Ending
<1>2. CASE CancelTask
  <2>1. /\ UNCHANGED <<node, reviewed>> /\ task.status \notin Terminal
        /\ task'.status = "CANCELING" /\ task'.cancel = TRUE /\ task'.retries = task.retries
    BY <1>2 DEF CancelTask, TypeOK, TaskRow
  <2>2. Ending = "open" /\ Ending' = "open"
    BY <2>1 DEF Ending, Terminal
  <2>3. Promise!Ask
    BY <2>1, <2>2 DEF Promise!Ask, InStatus
  <2> QED
    BY <2>3 DEF PromiseKept, Promise!Next
<1>3. ASSUME NEW n \in Nodes, DecideApproval(n)  PROVE PromiseKept
  <2>1. n \in approvals /\ node[n].status \in {"WAITING", "CANCELED"}
    BY <1>3 DEF DecideApproval, AskedWait
  <2>2. \A m \in Nodes : \/ node'[m] = node[m]
                         \/ node[m].status = "WAITING" /\ node'[m].status = "READY"
    BY <1>3 DEF DecideApproval, Nodes0, NodeRow
  <2>3. SettledKept
    BY <2>2, Unsettled
  <2>4. /\ task'.status \notin Terminal /\ task'.retries = task.retries
        /\ task'.cancel = task.cancel /\ UNCHANGED <<reviewed>>
    BY <1>3 DEF DecideApproval, TypeOK, TaskRow, Terminal
  <2> QED
    BY <2>1, <2>3, <2>4, Reopens
<1> QED
  BY <1>1, <1>2, <1>3 DEF User
(* The rows after a pass that works on: it takes back what a rework sends  *)
(* back, and of the rest only failed nodes.                                *)
LEMMA WorksOnRows ==
  ASSUME TypeOK, Calm, WorksOn
  PROVE  /\ Done(node)' = Done(node) \ (IF Reworks THEN DependsOn[Reviewer] ELSE {})
         /\ Lost(node)' \subseteq Lost(node)
         /\ Reviewer \in Lost(node) \ Lost(node)' <=> Reworks
<1>1. PICK ns : Queuing(ns)
  BY WorksOnParts
<1>2. /\ phase = "loaded" /\ ~seenTask.cancel
      /\ Respects(ns) /\ CommitNodes(ns) /\ Respects(seenNode)
      /\ Reviewer \in Nodes /\ DependsOn[Reviewer] \subseteq Nodes /\ Reviewer \notin DependsOn[Reviewer]
  <2>1. Reviewer \in Nodes /\ DependsOn[Reviewer] \subseteq Nodes /\ Reviewer \notin DependsOn[Reviewer]
    BY NodeParts, Dependencies
  <2> QED
    BY <1>1, <2>1, WorksOnParts, PassFacts DEF Queuing
<1>3. Reworks => /\ seenNode[Reviewer].status = "FAILED"
                 /\ \A d \in DependsOn[Reviewer] : seenNode[d].status = "SUCCEEDED"
  BY <1>2 DEF Reworks, ReworkDue, Respects, ReviewInOrder
<1>4. ASSUME NEW n \in Nodes
      PROVE  /\ seenNode[n].status \in ActiveStatus => node'[n].status = node[n].status
             /\ seenNode[n].status \notin ActiveStatus =>
                  node'[n].status = ns[n].status /\ node[n].status = seenNode[n].status
             /\ ns[n].status \in {"SUCCEEDED", "FAILED"} => ns[n].status = seenNode[n].status
             /\ ns[n].status \in {"SUCCEEDED", "FAILED"} => ns[n].status = Base[n].status
             /\ Base[n].status = "SUCCEEDED" => ns[n].status = "SUCCEEDED"
  <2>1. ns[n].status = Copy[n].status \/ (Copy[n].status = "READY" /\ ns[n].status = "QUEUED")
    BY <1>1 DEF Queuing
  <2>2. /\ ns[n].status \in {"SUCCEEDED", "FAILED"} => ns[n].status = Base[n].status
        /\ Base[n].status = "SUCCEEDED" => ns[n].status = "SUCCEEDED"
        /\ Base[n].status \in {"SUCCEEDED", "FAILED"} => Base[n].status = seenNode[n].status
    BY <2>1, CopyStatus
  <2>3. /\ seenNode[n].status \in ActiveStatus => node'[n].status = node[n].status
        /\ seenNode[n].status \notin ActiveStatus =>
             node'[n].status = ns[n].status /\ node[n].status = seenNode[n].status
    BY <1>2, CommitParts, PassFacts
  <2> QED
    BY <2>2, <2>3
<1>5. ASSUME NEW n \in Nodes
      PROVE  Base[n].status = "SUCCEEDED" <=>
               seenNode[n].status = "SUCCEEDED" /\ (Reworks => n \notin DependsOn[Reviewer])
  BY <1>2, <1>3, CopyStatus
<1>6. ASSUME NEW n \in Nodes
      PROVE  node'[n].status = "SUCCEEDED" <=>
               node[n].status = "SUCCEEDED" /\ (Reworks => n \notin DependsOn[Reviewer])
  <2>1. CASE seenNode[n].status \in ActiveStatus
    BY <1>3, <1>4, <2>1 DEF ActiveStatus
  <2>2. CASE seenNode[n].status \notin ActiveStatus
    BY <1>4, <1>5, <2>2
  <2> QED
    BY <2>1, <2>2
<1>7. Done(node)' = Done(node) \ (IF Reworks THEN DependsOn[Reviewer] ELSE {})
  BY <1>6 DEF Done, InStatus
<1>8. Lost(node)' \subseteq Lost(node)
  BY <1>4 DEF Lost, InStatus
<1>9. ASSUME Reworks  PROVE Reviewer \in Lost(node) \ Lost(node)'
  <2>1. Base[Reviewer].status = "PENDING"
    BY <1>2, <1>9, CopyStatus
  <2>2. node[Reviewer].status = "FAILED" /\ node'[Reviewer].status # "FAILED"
    BY <1>2, <1>3, <1>4, <1>9, <2>1 DEF ActiveStatus
  <2> QED
    BY <1>2, <2>2 DEF Lost, InStatus
<1>10. ASSUME ~Reworks, Reviewer \in Lost(node)  PROVE Reviewer \in Lost(node)'
  <2>1. CASE seenNode[Reviewer].status \in ActiveStatus
    BY <1>2, <1>4, <1>10, <2>1 DEF Lost, InStatus
  <2>2. CASE seenNode[Reviewer].status \notin ActiveStatus
    <3>1. seenNode[Reviewer].status = "FAILED"
      BY <1>2, <1>4, <1>10, <2>2 DEF Lost, InStatus
    <3>2. Base[Reviewer].status = "FAILED" /\ Base = seenNode
      BY <1>2, <1>10, <3>1 DEF Base
    <3>3. Reviewer \notin Moved
      BY <3>2 DEF Moved, Retryable, Unblocked, Producers, InStatus
    <3>4. ns[Reviewer].status = "FAILED"
      BY <1>1, <1>2, <3>2, <3>3, CopyStatus DEF Queuing
    <3> QED
      BY <1>2, <1>4, <2>2, <3>4 DEF Lost, InStatus
  <2> QED
    BY <2>1, <2>2
<1> QED
  BY <1>7, <1>8, <1>9, <1>10

(* A pass that goes on knows of no cancellation of a task that ended, so   *)
(* it leaves the task as it is.                                            *)
LEMMA PassKeepsEnding ==
  ASSUME TypeOK, Calm, Final, Control, phase \in {"loaded", "gating"}, ~seenTask.cancel,
         task.status \in Terminal
  PROVE  task'.status = task.status
<1>1. ~task.cancel
  BY DEF Final, PassIsFresh
<1> QED
  BY <1>1, PassOfEnded

LEMMA WorksOnPromised ==
  ASSUME TypeOK, Calm, Final, Delivered, WorksOn
  PROVE  PromiseKept
<1> DEFINE again == Lost(node) \ Lost(node)'
<1>1. PICK st \in {"FAILED", "WAITING_APPROVAL", "REVIEWING", "RUNNING"} :
        /\ CommitTask(st, CopyRetries, Reworks)
        /\ st = "FAILED" <=> ScheduleFail \/ ScheduleBlocked
  BY WorksOnParts
<1>2. phase = "loaded" /\ ~seenTask.cancel /\ reviewed' = reviewed
  BY WorksOnParts
<1>3. /\ task'.retries = CopyRetries /\ task'.cancel = task.cancel
      /\ task'.status \in Terminal => task'.status = st
  BY <1>1, <1>2, PassCommits DEF Final
<1>4. CopyRetries = (IF Reworks THEN task.retries + 1 ELSE task.retries)
      /\ (Reworks => task.retries < MaxReviewRetries)
  BY <1>2 DEF CopyRetries, Final, PassIsFresh, Reworks, ReworkDue
<1>5. /\ Done(node)' = Done(node) \ (IF Reworks THEN DependsOn[Reviewer] ELSE {})
      /\ again \subseteq Lost(node) /\ Lost(node)' = Lost(node) \ again
      /\ Reviewer \in again <=> Reworks
  BY WorksOnRows
<1>6. Ending # "delivered"
  <2> SUFFICES ASSUME task.status = "SUCCEEDED"  PROVE FALSE
    BY DEF Ending
  <2>1. AllSucceeded(Copy) /\ ~HasTerminalFailure(Copy)
    BY <1>2, CopyOfAll DEF Delivered, Copied
  <2> QED
    BY <2>1 DEF WorksOn, ScheduleFail, ScheduleWaiting, ScheduleBlocked, ScheduleDispatch, Dispatchable
<1>7. \/ Ending' = Ending
      \/ Ending = "open" /\ (task.cancel \/ Lost(node)' # {}) /\ Ending' = "failed"
  <2>1. CASE task.status \in Terminal
    <3>1. task'.status = task.status
      BY <1>2, <2>1, PassKeepsEnding DEF Control, WorksOn
    <3> QED
      BY <3>1 DEF Ending
  <2>2. CASE task.status \notin Terminal /\ task'.status \notin Terminal
    BY <2>2 DEF Ending, Terminal
  <2>3. CASE task.status \notin Terminal /\ task'.status \in Terminal
    <3>1. task'.status = "FAILED" /\ (ScheduleFail \/ ScheduleBlocked)
      BY <1>1, <1>3, <2>3 DEF Terminal
    <3>2. Ending = "open" /\ Ending' = "failed"
      BY <2>3, <3>1 DEF Ending, Terminal
    <3>3. ScheduleBlocked => task.cancel
      BY NotBlocked DEF Final
    <3>4. ScheduleFail => Lost(node)' # {}
      <4>1. ScheduleFail => Doomed(node)'
        BY <1>2, FailIsDoom DEF Final
      <4> QED
        BY <4>1, NodeParts DEF Doomed, Lost, InStatus, Producers
    <3> QED
      BY <3>1, <3>2, <3>3, <3>4
  <2> QED
    BY <2>1, <2>2, <2>3
<1> HIDE DEF again
<1>8. Promise!TryAgain(again)
  BY <1>2, <1>3, <1>4, <1>5, <1>6, <1>7 DEF Promise!TryAgain, Done, Lost
<1>9. again \in SUBSET Lost(node)
  BY <1>5
<1> QED
  BY <1>8, <1>9 DEF PromiseKept, Promise!Next, Lost

LEMMA CancelPromised ==
  ASSUME TypeOK, Calm, Delivered, ScheduleCancel
  PROVE  PromiseKept
<1> USE DEF OutsideControl
<1> DEFINE S == Nodes \ InStatus(seenNode, {"SUCCEEDED", "FAILED"})
<1>1. /\ phase = "loaded" /\ seenTask.cancel /\ reviewed' = reviewed
      /\ CommitTask("CANCELED", seenTask.retries, FALSE)
      /\ CommitNodes(WithStatus(seenNode, S, "CANCELED"))
  BY DEF ScheduleCancel
<1>2. task.cancel
  BY <1>1 DEF Calm, PassInOrder
<1>3. /\ task'.cancel = task.cancel /\ task'.retries = task.retries
      /\ task'.status \in {task.status, "CANCELED"}
  BY <1>1 DEF CommitTask, TypeOK, TaskRow
<1>4. Ending' \in {Ending, "canceled"}
  BY <1>3 DEF Ending
<1>5. Done(node)' \subseteq Done(node) /\ Lost(node)' \subseteq Lost(node)
  <2>1. \A n \in Nodes : WithStatus(seenNode, S, "CANCELED")[n].status
                           = (IF n \in S THEN "CANCELED" ELSE seenNode[n].status)
    BY NodeParts, WithStatusParts DEF NodeStatus
  <2> HIDE DEF S
  <2>2. \A n \in Nodes : node'[n].status \in {node[n].status, "CANCELED"}
    BY <1>1, <2>1, NodeParts DEF CommitNodes, Nodes0, NodeRow
  <2> QED
    BY <2>2 DEF Done, Lost, InStatus
<1>6. Ending = "delivered" => node' = node
  <2>1. Ending = "delivered" => task.status = "SUCCEEDED"
    BY DEF Ending
  <2> QED
    BY <1>1, <2>1, CancelOfAll DEF Delivered, Copied
<1>7. Promise!Cancel
  BY <1>1, <1>2, <1>3, <1>4, <1>5, <1>6 DEF Promise!Cancel, Done, Lost, InStatus
<1> QED
  BY <1>7 DEF PromiseKept, Promise!Next

LEMMA GatePromised ==
  ASSUME TypeOK, Calm, Final, ReviewIsCurrent, GatePass \/ GateFail \/ GateRework
  PROVE  PromiseKept
<1> USE DEF OutsideGate
<1>1. phase = "gating" /\ ~seenTask.cancel /\ reviewed' = reviewed
  BY GatedRows DEF Final, GatePass, GateFail, GateRework
<1>2. \A n \in Nodes : node[n].status = "SUCCEEDED" /\ seenNode[n].status = "SUCCEEDED"
  BY <1>1, GatedRows, AllOfThem DEF Final
<1>3. Done(node) = Nodes
  BY <1>2 DEF Done, InStatus
<1>4. seenTask.retries = task.retries
  BY <1>1 DEF Final, PassIsFresh
<1>5. task.status \in Terminal => task'.status = task.status
  BY <1>1, PassKeepsEnding DEF Control
<1>6. CASE GatePass
  <2>1. CommitTask("SUCCEEDED", seenTask.retries, TRUE) /\ node' = node
    BY <1>6 DEF GatePass
  <2>2. task'.retries = task.retries /\ task'.cancel = task.cancel /\ task'.status = "SUCCEEDED"
    BY <1>1, <1>4, <2>1, PassCommits DEF Final
  <2>3. SettledKept
    BY <2>1, Unsettled
  <2>4. CASE task.status \in Terminal
    BY <1>1, <1>5, <2>2, <2>3, <2>4, Stutters DEF Ending
  <2>5. CASE task.status \notin Terminal
    <3>1. Ending = "open" /\ Ending' = "delivered"
      BY <2>2, <2>5 DEF Ending, Terminal
    <3>2. Producers \subseteq reviewed
      BY <1>2, NodeParts DEF ReviewIsCurrent
    <3>3. Promise!Deliver
      BY <1>1, <1>3, <2>2, <2>3, <3>1, <3>2
         DEF Promise!Deliver, Promise!Complete, Done, Lost, SettledKept, Producers
    <3> QED
      BY <3>3 DEF PromiseKept, Promise!Next
  <2> QED
    BY <2>4, <2>5
<1>7. CASE GateFail
  <2>1. /\ CommitTask("FAILED", seenTask.retries, FALSE) /\ node' = node
        /\ seenTask.retries >= MaxReviewRetries
    BY <1>7 DEF GateFail
  <2>2. /\ task'.retries = task.retries /\ task'.cancel = task.cancel
        /\ task'.status \in Terminal => task'.status = "FAILED"
    BY <1>1, <1>4, <2>1, PassCommits DEF Final
  <2>3. SettledKept
    BY <2>1, Unsettled
  <2>4. CASE task.status \in Terminal
    BY <1>1, <1>5, <2>2, <2>3, <2>4, Stutters DEF Ending
  <2>5. CASE task.status \notin Terminal /\ task'.status \notin Terminal
    BY <1>1, <2>2, <2>3, <2>5, Stutters DEF Ending, Terminal
  <2>6. CASE task.status \notin Terminal /\ task'.status \in Terminal
    <3>1. Ending = "open" /\ Ending' = "failed"
      BY <2>2, <2>6 DEF Ending, Terminal
    <3>2. task.retries = MaxReviewRetries
      <4>1. task.retries \in 0..MaxReviewRetries /\ MaxReviewRetries \in Nat
        BY BoundsAreNaturals DEF TypeOK, TaskRow
      <4>2. task.retries >= MaxReviewRetries
        BY <1>4, <2>1
      <4> QED
        BY <4>1, <4>2
    <3>3. Promise!Refuse
      BY <1>1, <1>3, <2>2, <2>3, <3>1, <3>2
         DEF Promise!Refuse, Promise!Complete, Done, Lost, SettledKept
    <3> QED
      BY <3>3 DEF PromiseKept, Promise!Next
  <2> QED
    BY <2>4, <2>5, <2>6
<1>8. CASE GateRework
  <2>1. /\ CommitTask("REWORKING", seenTask.retries + 1, FALSE)
        /\ seenTask.retries < MaxReviewRetries
    BY <1>8 DEF GateRework
  <2>2. /\ task'.retries = task.retries + 1 /\ task'.cancel = task.cancel
        /\ task'.status \in Terminal => task'.status = "REWORKING"
    BY <1>1, <1>4, <2>1, PassCommits DEF Final
  <2>3. task'.status \notin Terminal /\ task.status \notin Terminal
    BY <1>5, <2>2 DEF Terminal
  <2>4. Ending = "open" /\ Ending' = "open"
    BY <2>3 DEF Ending, Terminal
  <2>5. PICK ns \in {SendBack(seenNode), WithStatus(seenNode, {Reviewer}, "READY")} :
          CommitNodes(ns) /\ Respects(ns)
    BY <1>8, GateReworkParts
  <2>6. \A n \in Nodes : node'[n].status = ns[n].status
    BY <1>1, <1>2, <2>5, CommitParts DEF ActiveStatus
  <2>7. PICK back \in {{}, DependsOn[Reviewer]} :
          \A n \in Nodes : /\ n \notin back \cup {Reviewer} => ns[n].status = "SUCCEEDED"
                           /\ n \in back \cup {Reviewer} => ns[n].status \in {"READY", "PENDING"}
    <3>1. CASE ns = SendBack(seenNode)
      <4>1. \A n \in Nodes : ns[n].status = (IF n = Reviewer THEN "PENDING"
                                      ELSE IF n \in DependsOn[Reviewer] THEN "READY"
                                      ELSE seenNode[n].status)
        BY <3>1, SendBackParts, NodeParts
      <4> WITNESS DependsOn[Reviewer] \in {{}, DependsOn[Reviewer]}
      <4> QED
        BY <1>2, <4>1
    <3>2. CASE ns = WithStatus(seenNode, {Reviewer}, "READY")
      <4>1. \A n \in Nodes : ns[n].status = (IF n \in {Reviewer} THEN "READY" ELSE seenNode[n].status)
        BY <3>2, WithStatusParts, NodeParts DEF NodeStatus
      <4> WITNESS {} \in {{}, DependsOn[Reviewer]}
      <4> QED
        BY <1>2, <4>1
    <3> QED
      BY <2>5, <3>1, <3>2
  <2>8. Done(node)' = Done(node) \ (back \cup {Reviewer}) /\ Lost(node)' = Lost(node)
    BY <1>2, <2>6, <2>7 DEF Done, Lost, InStatus
  <2>9. Promise!SendBack(back)
    BY <1>1, <1>3, <1>4, <2>1, <2>2, <2>4, <2>8
       DEF Promise!SendBack, Promise!Complete, Done, Lost
  <2> QED
    BY <2>9 DEF PromiseKept, Promise!Next
<1> QED
  BY <1>6, <1>7, <1>8

LEMMA ControlPromised ==
  ASSUME TypeOK, Calm, Final, Delivered, ReviewIsCurrent, Control
  PROVE  PromiseKept
<1> USE DEF rows, OutsideControl
<1>1. ASSUME UNCHANGED <<task, node, reviewed>>  PROVE PromiseKept
  BY <1>1, Unsettled, Stutters DEF Ending
<1>2. CASE RunTask \/ ReadNodes \/ ScheduleRunning \/ \E n \in Nodes : SendExecute(n)
  BY <1>1, <1>2 DEF RunTask, ReadNodes, ScheduleRunning, SendExecute
<1>3. CASE ScheduleDelivery
  <2>1. Stale(seenNode) = {}
    BY DEF Stale, Calm, FirstBrief
  <2> QED
    BY <1>1, <1>3, <2>1 DEF ScheduleDelivery
<1> QED
  BY <1>2, <1>3, WorksOnPromised, CancelPromised, GatePromised DEF Control, WorksOn
LEMMA RevisionNext ==
  ASSUME TypeOK, Undisturbed => Calm, Order, Final, Delivered, AskedWait, ReviewIsCurrent,
         [Next]_vars, Undisturbed'
  PROVE  PromiseKept
<1>1. /\ Calm /\ ~Faulty
      /\ ~\E affected \in SUBSET Nodes : SuperviseMerge(affected)
  BY WasUndisturbed
<1>2. CASE \E w \in Workers : Agent(w)
  BY <1>1, <1>2, AgentPromised
<1>3. CASE Supervise \/ UNCHANGED vars
  <2>1. UNCHANGED <<task, node, reviewed>>
    BY <1>1, <1>3 DEF Supervise, SuperviseBegin, SuperviseReply, vars, rows, OutsideSupervisor
  <2> QED
    BY <2>1, Unsettled, Stutters DEF Ending
<1> QED
  BY <1>1, <1>2, <1>3, ControlPromised, UserPromised DEF Next

LEMMA RevisionInit == Init => Promise!Init
<1> SUFFICES ASSUME Init  PROVE Promise!Init
  OBVIOUS
<1>1. \A n \in Nodes : node[n].status \in {"READY", "PENDING"}
  BY DEF Init, InitNode
<1>2. InStatus(node, {"SUCCEEDED"}) = {} /\ InStatus(node, {"FAILED"}) = {}
  BY <1>1 DEF InStatus
<1>3. task.status = "PLANNING" /\ task.cancel = FALSE /\ task.retries = 0 /\ reviewed = {}
  BY DEF Init, InitTask
<1> QED
  BY <1>2, <1>3 DEF Promise!Init, Ending

(* What holds while nothing disturbed the task.                            *)
Carried ==
  /\ Ended
  /\ Undisturbed => ReviewIsCurrent /\ Delivered /\ AskedWait

LEMMA CarriedCorrect == Spec => []Carried
<1> DEFINE Rest == Undisturbed => Delivered /\ AskedWait
<1>1. Init => Rest
  BY DEF Init, InitTask, Delivered, AskedWait
<1>2. Ended /\ Ended' /\ Rest /\ [Next]_vars => Rest'
  <2> SUFFICES ASSUME Ended, Ended', Rest, [Next]_vars, Undisturbed'
               PROVE  Delivered' /\ AskedWait'
    OBVIOUS
  <2>1. TypeOK /\ Calm /\ Final /\ Delivered /\ AskedWait /\ (Control \/ Outside)
    BY CalmSteps DEF Ended, Ordered, Quiet
  <2>2. TypeOK' /\ Calm' /\ Ends'
    BY DEF Ended, Ordered, Quiet, Final
  <2>3. CASE Outside
    BY <2>1, <2>2, <2>3, DeliveredOutside, AskedOutside
  <2>4. CASE Control
    BY <2>1, <2>2, <2>4, DeliveredControl, AskedControl
  <2> QED
    BY <2>1, <2>3, <2>4
<1>3. Spec => []Rest
  BY <1>1, <1>2, EndedCorrect, PTL DEF Spec
<1>4. Ended /\ Reviewing /\ Rest => Carried
  BY DEF Reviewing, Carried
<1> QED
  BY <1>3, <1>4, EndedCorrect, ReviewCorrect, PTL

(* As long as no process failed and no brief update was merged, the        *)
(* workers carry a revision out as module Revision promises, for every     *)
(* plan and any number of workers and slots: nodes start in order, the     *)
(* task is delivered complete and reviewed, sent back at most              *)
(* MaxReviewRetries times, given up only for a reason, and never reopened  *)
(* after a delivery (_schedule_plan, execute_node, cancel_task and         *)
(* decide_approval together).                                              *)
THEOREM RevisionCorrect == Spec /\ []Undisturbed => RevisionAsPromised
<1>1. Init => Promise!Init
  BY RevisionInit
<1>2. Carried /\ Undisturbed /\ Undisturbed' /\ [Next]_vars => PromiseKept
  BY RevisionNext DEF Carried, Ended, Ordered, Quiet
<1>3. []Carried /\ []Undisturbed /\ [][Next]_vars => [][Promise!Next]_(Promise!vars)
  BY <1>2, PTL DEF PromiseKept
<1> QED
  BY <1>1, <1>3, CarriedCorrect, PTL DEF Spec, RevisionAsPromised, Promise!Spec

(* Without messages and faults nothing does disturb it.                    *)
LEMMA NothingDisturbs ==
  ASSUME Directives = {}, MaxFaults = 0
  PROVE  Spec => []Undisturbed
<1>1. Init => Undisturbed
  BY DEF Init, InitTask, Undisturbed
<1>2. TypeOK /\ TypeOK' /\ Undisturbed /\ [Next]_vars => Undisturbed'
  <2> SUFFICES ASSUME TypeOK, TypeOK', Undisturbed, [Next]_vars  PROVE Undisturbed'
    OBVIOUS
  <2> USE DEF rows, TypeOK, TaskRow
  <2>1. faults' = 0 /\ ~Faulty /\ ~Supervise
    <3>1. faults = 0 /\ faults' = 0 /\ supervisor = NoDirective
      BY DEF Undisturbed
    <3>2. ~Faulty
      BY <3>1 DEF Faulty, ControlCrash, SupervisorCrash, SendFails, ExecuteCrash, ExecuteRaise, Fault
    <3>3. ~Supervise
      BY <3>1 DEF Supervise, SuperviseBegin, SuperviseReply, SuperviseMerge
    <3> QED
      BY <3>1, <3>2, <3>3
  <2>2. task'.brief = task.brief
    <3>1. CASE UNCHANGED vars
      BY <3>1 DEF vars
    <3>2. CASE Control
      BY <3>2 DEF Control, RunTask, ReadNodes, ScheduleCancel, ScheduleFail, ScheduleDelivery,
                  ScheduleDispatch, ScheduleWaiting, ScheduleRunning, ScheduleBlocked, GatePass,
                  GateFail, GateRework, SendExecute, CommitTask
    <3>3. CASE \E w \in Workers : Agent(w)
      BY <3>3 DEF Agent, Take, Outcome, ExecuteStart, ExecuteIgnore, ExecuteRound, ExecuteTools,
                  ExecuteFail, ExecuteWait, ExecuteAnswer, ExecuteClose, ExecuteReturn
    <3>4. CASE User
      BY <3>4 DEF User, CreateTaskMessage, CancelTask, DecideApproval
    <3> QED
      BY <2>1, <3>1, <3>2, <3>3, <3>4 DEF Next
  <2> QED
    BY <2>1, <2>2 DEF Undisturbed
<1> QED
  BY <1>1, <1>2, TypeCorrect, PTL DEF Spec

(* A task whose owner sends no messages and whose processes do not fail is *)
(* carried out as module Revision promises.                                *)
THEOREM QuietRevisionCorrect ==
  ASSUME Directives = {}, MaxFaults = 0
  PROVE  Spec => RevisionAsPromised
BY RevisionCorrect, NothingDisturbs, PTL
=============================================================================
