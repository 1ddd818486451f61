----------------------------- MODULE Lifecycle -----------------------------
(***************************************************************************)
(* What happens to a task as a whole: it is created, started, planned,     *)
(* scheduled, canceled, retried, revised, archived and restored            *)
(* (api/tasks.py, worker/tasks.py run_task, plan_task, _persist_plan).     *)
(*                                                                         *)
(* Every handler reads the row of the task when it begins and writes, when *)
(* it ends, the columns whose value differs from what it read; nothing     *)
(* locks the row in between.  A message of run_task is for a task, not for *)
(* a revision of it.                                                       *)
(*                                                                         *)
(* The nodes of one revision are one unit of work here: planned or not,    *)
(* with something to dispatch, with an Agent, or waiting for an approval.  *)
(* How a pass moves single nodes along is the subject of module Scheduler. *)
(***************************************************************************)
EXTENDS Naturals, FiniteSets

CONSTANTS
  Tasks,           \* the rows of tasks
  Users,           \* the members of their project
  Requests,        \* HTTP requests that may be in flight at once
  MaxActive,       \* max_active_tasks_per_user
  MaxActiveGlobal, \* max_active_tasks
  MaxRevision,     \* bound: revisions of a task
  MaxActs,         \* bound: requests per behaviour
  NoTask, NoUser

ASSUME NamesAreDistinct == NoTask \notin Tasks /\ NoUser \notin Users

ASSUME BoundsAreNaturals ==
  /\ MaxActive \in Nat /\ MaxActiveGlobal \in Nat
  /\ MaxRevision \in Nat /\ MaxActs \in Nat

Revisions == 0..MaxRevision
Ended == {"SUCCEEDED", "FAILED", "CANCELED"}
(* RUNNING also stands for REVIEWING, REWORKING and PACKAGING. *)
ActiveStatuses ==
  {"CREATED", "QUEUED", "PLANNING", "RUNNING", "WAITING_APPROVAL", "CANCELING"}
Supervised == {"QUEUED", "PLANNING", "RUNNING", "WAITING_APPROVAL"}

VARIABLES
  row,        \* rows tasks: status, cancel_requested, current_revision, ...
  work,       \* task, revision -> the state of its rows task_nodes
  plans,      \* task, revision -> how often a plan was persisted for it
  asked,      \* task -> the revisions with a PENDING approval
  agent,      \* task, revision -> its execute_node: sent, started, running; status read
  control,    \* task -> messages run_task
  planq,      \* task -> messages plan_task
  directives, \* task -> messages supervise_message
  session,    \* the control worker: the task, where it is, what it read
  planner,    \* the planner worker: the task, the row it read
  request,    \* the requests the API is handling
  acts        \* number of requests made so far

vars == <<row, work, plans, asked, agent, control, planq, directives, session,
          planner, request, acts>>
queues == <<control, planq, directives>>
workers == <<session, planner>>

NoRow == [status |-> "ABSENT", cancel |-> FALSE, revision |-> 0, chat |-> FALSE,
          archived |-> FALSE, owner |-> NoUser]
NoPass == [task |-> NoTask, step |-> "idle", seen |-> NoRow, work |-> "none"]
NoPlan == [task |-> NoTask, seen |-> NoRow]
NoAgent == [step |-> "none", status |-> "ABSENT"]
Sent == [step |-> "sent", status |-> "ABSENT"]
Started == [step |-> "started", status |-> "ABSENT"]
NoRequest == [op |-> "none", step |-> "none", task |-> NoTask, user |-> NoUser,
              seen |-> NoRow, revision |-> 0, work |-> "none"]

Init ==
  /\ row = [t \in Tasks |-> NoRow]
  /\ work = [t \in Tasks |-> [r \in Revisions |-> "none"]]
  /\ plans = [t \in Tasks |-> [r \in Revisions |-> 0]]
  /\ asked = [t \in Tasks |-> {}]
  /\ agent = [t \in Tasks |-> [r \in Revisions |-> NoAgent]]
  /\ control = [t \in Tasks |-> 0]
  /\ planq = [t \in Tasks |-> 0]
  /\ directives = [t \in Tasks |-> 0]
  /\ session = NoPass
  /\ planner = NoPlan
  /\ request = [q \in Requests |-> NoRequest]
  /\ acts = 0

Send(queue, t) == [queue EXCEPT ![t] = @ + 1]
Take(queue, t) == [queue EXCEPT ![t] = @ - 1]

(* The flush of a session: only the columns that differ from what was read *)
(* are written.                                                            *)
Column(seen, new, now) == IF new = seen THEN now ELSE new

Flush(t, seen, new) ==
  row' = [row EXCEPT ![t] =
    [status |-> Column(seen.status, new.status, row[t].status),
     cancel |-> Column(seen.cancel, new.cancel, row[t].cancel),
     revision |-> Column(seen.revision, new.revision, row[t].revision),
     chat |-> Column(seen.chat, new.chat, row[t].chat),
     archived |-> Column(seen.archived, new.archived, row[t].archived),
     owner |-> Column(seen.owner, new.owner, row[t].owner)]]
-----------------------------------------------------------------------------
(***************************************************************************)
(* The API.  Admission counts the active tasks of the user who asks and of *)
(* the system; a conversation without execution does not count.            *)
(***************************************************************************)
Active == {t \in Tasks : ~row[t].chat /\ row[t].status \in ActiveStatuses}

HasRoom(u) ==
  /\ Cardinality({t \in Active : row[t].owner = u}) < MaxActive
  /\ Cardinality(Active) < MaxActiveGlobal

Receive(q, u, t, op, step) ==
  /\ request[q] = NoRequest
  /\ acts < MaxActs
  /\ acts' = acts + 1
  /\ request' = [request EXCEPT ![q] =
       [op |-> op, step |-> step, task |-> t, user |-> u, seen |-> row[t],
        revision |-> 0, work |-> "none"]]
  /\ UNCHANGED <<row, work, plans, asked, agent, queues, workers>>

Exists(t) == row[t].status # "ABSENT"
Visible(t) == Exists(t) /\ ~row[t].archived

CreateBegin(q, u, t, op) ==
  /\ op \in {"create chat", "create draft", "create and start"}
  /\ ~Exists(t)
  /\ \A p \in Requests : request[p].task # t  \* the new row gets a new id
  /\ op # "create chat" => HasRoom(u)
  /\ Receive(q, u, t, op, "admitted")

(* The guards of start_task, cancel_task, retry_task, archive and restore. *)
Allowed(t, op) ==
  \/ op = "start" /\ Visible(t) /\ row[t].status = "CREATED"
  \/ op = "cancel" /\ Visible(t) /\ row[t].status \notin Ended
  \/ op = "retry" /\ Visible(t) /\ row[t].status \in {"FAILED", "CANCELED"}
  \/ op = "archive" /\ Exists(t)
  \/ op = "restore" /\ Exists(t) /\ row[t].archived

ChangeBegin(q, u, t, op) == Allowed(t, op) /\ Receive(q, u, t, op, "admitted")

(* create_task_message: what it does is decided on the row it read, if need *)
(* be by a model; only then the active tasks are counted.                   *)
MessageBegin(q, u, t, op) ==
  /\ Visible(t)
  /\ \/ op = "revise" /\ row[t].status \in Ended /\ Receive(q, u, t, op, "routed")
     \/ op = "upgrade" /\ row[t].status = "CREATED" /\ Receive(q, u, t, op, "routed")
     \/ op = "direct" /\ row[t].status \in Supervised /\ ~row[t].chat
                      /\ Receive(q, u, t, op, "admitted")

Admit(q) ==
  /\ request[q].step = "routed"
  /\ request' = [request EXCEPT ![q] =
       IF HasRoom(@.user) THEN [@ EXCEPT !.step = "admitted"] ELSE NoRequest]
  /\ UNCHANGED <<row, work, plans, asked, agent, queues, workers, acts>>

DecideBegin(q, u, t, r) ==
  /\ Visible(t) /\ r \in asked[t]
  /\ request[q] = NoRequest
  /\ acts < MaxActs
  /\ acts' = acts + 1
  /\ request' = [request EXCEPT ![q] =
       [op |-> "decide", step |-> "admitted", task |-> t, user |-> u, seen |-> row[t],
        revision |-> r, work |-> work[t][r]]]
  /\ UNCHANGED <<row, work, plans, asked, agent, queues, workers>>

Restarted(seen) ==
  [seen EXCEPT !.status = "QUEUED", !.revision = @ + 1, !.cancel = FALSE]

(* Mutant of Archived: being archived becomes a status. *)
ArchivedAsStatus(seen) == [seen EXCEPT !.archived = TRUE, !.status = "ARCHIVED"]

(* _archive_task *)
Archived(seen) ==
  IF seen.archived THEN seen
  ELSE IF seen.status \in Ended THEN [seen EXCEPT !.archived = TRUE]
  ELSE [seen EXCEPT !.archived = TRUE, !.cancel = TRUE, !.status = "CANCELED"]

(* The row as each handler leaves its copy. *)
Changed(op, seen, u) ==
  CASE op \in {"create chat", "create draft"} ->
         [seen EXCEPT !.status = "CREATED", !.owner = u, !.chat = op = "create chat"]
    [] op = "create and start" -> [seen EXCEPT !.status = "QUEUED", !.owner = u]
    [] op = "start" -> [seen EXCEPT !.status = "QUEUED"]
    [] op = "upgrade" -> [seen EXCEPT !.status = "QUEUED", !.chat = FALSE]
    [] op = "retry" -> Restarted(seen)
    [] op = "revise" -> [Restarted(seen) EXCEPT !.chat = FALSE]
    [] op = "cancel" -> [seen EXCEPT !.status = "CANCELING", !.cancel = TRUE]
    [] op = "archive" -> Archived(seen)
    [] op = "restore" -> [seen EXCEPT !.archived = FALSE]
    [] op = "decide" -> [seen EXCEPT !.status = "QUEUED"]
    [] op = "direct" -> seen

(* Mutant of SendsRunTask: a retry waits for somebody else's message. *)
SendsRunTaskButForRetry ==
  {"create and start", "start", "upgrade", "revise", "decide"}

SendsRunTask == {"create and start", "start", "upgrade", "revise", "retry", "decide"}

(* The commit and the message that follows it. *)
Commit(q) ==
  LET x == request[q]
      t == x.task
  IN /\ x.step = "admitted"
     /\ x.op \in {"retry", "revise"} => x.seen.revision < MaxRevision
     /\ Flush(t, x.seen, Changed(x.op, x.seen, x.user))
     /\ control' = IF x.op \in SendsRunTask THEN Send(control, t) ELSE control
     /\ directives' = IF x.op = "direct" THEN Send(directives, t) ELSE directives
     /\ work' = IF x.op = "decide" /\ x.work = "waiting"
                THEN [work EXCEPT ![t][x.revision] = "ready"] ELSE work
     /\ asked' = IF x.op = "decide" THEN [asked EXCEPT ![t] = @ \ {x.revision}] ELSE asked
     /\ request' = [request EXCEPT ![q] = NoRequest]
     /\ UNCHANGED <<plans, agent, planq, workers, acts>>

(* supervise_message: a merged requirement reopens what is finished, and a *)
(* pass has to see it; other messages change nothing here.                 *)
Supervise(t) ==
  LET r == row[t].revision
  IN /\ directives[t] > 0
     /\ directives' = Take(directives, t)
     /\ \/ /\ work' = IF work[t][r] \in {"done", "failed"}
                     THEN [work EXCEPT ![t][r] = "ready"] ELSE work
           /\ control' = Send(control, t)
        \/ UNCHANGED <<work, control>>
     /\ UNCHANGED <<row, plans, asked, agent, planq, workers, request, acts>>
-----------------------------------------------------------------------------
(***************************************************************************)
(* The control worker: run_task.                                           *)
(***************************************************************************)
Rest == session' = NoPass

(* The row and the number of nodes of its revision. *)
RunTask(t) ==
  /\ session = NoPass
  /\ control[t] > 0
  /\ control' = Take(control, t)
  /\ session' = [task |-> t, step |-> "begun", seen |-> row[t],
                 work |-> work[t][row[t].revision]]
  /\ UNCHANGED <<row, work, plans, asked, agent, planq, directives, planner, request, acts>>

AlreadyPlanning(seen) == seen.status = "PLANNING"

StartPlanning ==
  LET t == session.task
  IN /\ session.step = "begun" /\ session.work = "none"
     /\ IF AlreadyPlanning(session.seen)
        THEN UNCHANGED <<row, planq>>
        ELSE /\ Flush(t, session.seen, [session.seen EXCEPT !.status = "PLANNING"])
             /\ planq' = Send(planq, t)
     /\ Rest
     /\ UNCHANGED <<work, plans, asked, agent, control, directives, planner, request, acts>>

(* _schedule_plan reads everything again. *)
PassRead ==
  LET t == session.task
  IN /\ session.step = "begun" /\ session.work # "none"
     /\ session' = [task |-> t, step |-> "pass", seen |-> row[t],
                    work |-> work[t][row[t].revision]]
     /\ UNCHANGED <<row, work, plans, asked, agent, queues, planner, request, acts>>

Pass(w) == session.step = "pass" /\ session.work \in w
PassWrites(st) ==
  Flush(session.task, session.seen, [session.seen EXCEPT !.status = st])

PassCancels ==
  /\ session.step = "pass" /\ session.seen.cancel
  /\ PassWrites("CANCELED")
  /\ work' = IF session.work \in {"ready", "busy", "waiting"}
             THEN [work EXCEPT ![session.task][session.seen.revision] = "closed"] ELSE work
  /\ Rest
  /\ UNCHANGED <<plans, asked, agent, queues, planner, request, acts>>

(* All nodes succeeded and the gate passed; or it did not, a node failed   *)
(* for good, or nothing can go on.                                         *)
PassEnds ==
  /\ ~session.seen.cancel
  /\ \/ Pass({"done"}) /\ PassWrites("SUCCEEDED")
     \/ Pass({"done", "failed", "none", "closed"}) /\ PassWrites("FAILED")
  /\ Rest
  /\ UNCHANGED <<work, plans, asked, agent, queues, planner, request, acts>>

(* Nodes are READY, or the gate sends the work back. *)
PassDispatches ==
  LET t == session.task
      r == session.seen.revision
  IN /\ Pass({"ready", "done"}) /\ ~session.seen.cancel
     /\ PassWrites("RUNNING")
     /\ work' = [work EXCEPT ![t][r] = "busy"]
     /\ agent' = [agent EXCEPT ![t][r] = Sent]
     /\ Rest
     /\ UNCHANGED <<plans, asked, queues, planner, request, acts>>

PassWaits ==
  /\ ~session.seen.cancel
  /\ \/ Pass({"waiting"}) /\ PassWrites("WAITING_APPROVAL")
     \/ Pass({"busy"}) /\ UNCHANGED row
  /\ Rest
  /\ UNCHANGED <<work, plans, asked, agent, queues, planner, request, acts>>
-----------------------------------------------------------------------------
(***************************************************************************)
(* The planner worker: plan_task.  The model plans, then the plan is       *)
(* persisted for whatever revision the task has by then.                   *)
(***************************************************************************)
PlanRead(t) ==
  /\ planner = NoPlan
  /\ planq[t] > 0
  /\ planq' = Take(planq, t)
  /\ planner' = [task |-> t, seen |-> row[t]]
  /\ UNCHANGED <<row, work, plans, asked, agent, control, directives, session, request, acts>>

(* Mutant of PlanPersist: the scheduler is not told. *)
PlanPersistOnly ==
  LET t == planner.task
      r == planner.seen.revision
  IN /\ planner # NoPlan
     /\ plans' = [plans EXCEPT ![t][r] = @ + 1]
     /\ work' = [work EXCEPT ![t][r] = IF @ \in {"busy", "waiting"} THEN @ ELSE "ready"]
     /\ planner' = NoPlan
     /\ UNCHANGED <<row, asked, agent, queues, session, request, acts>>

PlanPersist ==
  LET t == planner.task
      r == planner.seen.revision
  IN /\ planner # NoPlan
     /\ plans' = [plans EXCEPT ![t][r] = @ + 1]
     /\ work' = [work EXCEPT ![t][r] = IF @ \in {"busy", "waiting"} THEN @ ELSE "ready"]
     /\ control' = Send(control, t)
     /\ planner' = NoPlan
     /\ UNCHANGED <<row, asked, agent, planq, directives, session, request, acts>>

(* The model could not be reached. *)
PlanFails ==
  /\ planner # NoPlan
  /\ Flush(planner.task, planner.seen, [planner.seen EXCEPT !.status = "FAILED"])
  /\ planner' = NoPlan
  /\ UNCHANGED <<work, plans, asked, agent, queues, session, request, acts>>
-----------------------------------------------------------------------------
(***************************************************************************)
(* The Agents: execute_node of a node of revision r.                       *)
(***************************************************************************)
At(t, r, step) == agent[t][r].step = step
Leave(t, r) == agent' = [agent EXCEPT ![t][r] = NoAgent]

AgentStart(t, r) ==
  /\ At(t, r, "sent")
  /\ IF work[t][r] = "busy"
     THEN agent' = [agent EXCEPT ![t][r] = Started] ELSE Leave(t, r)
  /\ UNCHANGED <<row, work, plans, asked, queues, workers, request, acts>>

(* A round begins by reading the row again.                                *)
AgentRound(t, r) ==
  /\ agent[t][r].step \in {"started", "running"} /\ ~row[t].cancel
  /\ agent' = [agent EXCEPT ![t][r] = [step |-> "running", status |-> row[t].status]]
  /\ UNCHANGED <<row, work, plans, asked, queues, workers, request, acts>>

AgentNoticesCancel(t, r) ==
  /\ agent[t][r].step \in {"started", "running"} /\ row[t].cancel
  /\ work' = [work EXCEPT ![t][r] = "closed"]
  /\ Leave(t, r)
  /\ control' = Send(control, t)
  /\ UNCHANGED <<row, plans, asked, planq, directives, workers, request, acts>>

(* Mutant of AgentEnds: the pass after it is not sent. *)
AgentEndsSilently(t, r) ==
  /\ At(t, r, "running")
  /\ \E w \in {"ready", "done", "failed"} : work' = [work EXCEPT ![t][r] = w]
  /\ Leave(t, r)
  /\ UNCHANGED <<row, plans, asked, queues, workers, request, acts>>

(* There may be more nodes to dispatch. *)
AgentEnds(t, r) ==
  /\ At(t, r, "running")
  /\ \E w \in {"ready", "done", "failed"} : work' = [work EXCEPT ![t][r] = w]
  /\ Leave(t, r)
  /\ control' = Send(control, t)
  /\ UNCHANGED <<row, plans, asked, planq, directives, workers, request, acts>>

(* request_approval; the round may have begun before a cancellation.       *)
AgentAsks(t, r) ==
  /\ At(t, r, "running") /\ r \notin asked[t]
  /\ work' = [work EXCEPT ![t][r] = "waiting"]
  /\ asked' = [asked EXCEPT ![t] = @ \cup {r}]
  /\ row' = IF agent[t][r].status = "WAITING_APPROVAL" THEN row
            ELSE [row EXCEPT ![t].status = "WAITING_APPROVAL"]
  /\ Leave(t, r)
  /\ UNCHANGED <<plans, queues, workers, request, acts>>
-----------------------------------------------------------------------------
Control ==
  \/ \E t \in Tasks : RunTask(t)
  \/ StartPlanning \/ PassRead \/ PassCancels \/ PassEnds \/ PassDispatches \/ PassWaits
Planner == (\E t \in Tasks : PlanRead(t)) \/ PlanPersist \/ PlanFails
Agent(t, r) ==
  AgentStart(t, r) \/ AgentRound(t, r) \/ AgentEnds(t, r) \/ AgentNoticesCancel(t, r) \/ AgentAsks(t, r)
Handle(q) == Admit(q) \/ Commit(q)

Operations ==
  {"create chat", "create draft", "create and start", "start", "cancel", "retry",
   "archive", "restore", "revise", "upgrade", "direct"}

User(q, u, t) ==
  \/ \E op \in Operations :
       CreateBegin(q, u, t, op) \/ ChangeBegin(q, u, t, op) \/ MessageBegin(q, u, t, op)
  \/ \E r \in Revisions : DecideBegin(q, u, t, r)

Next ==
  \/ \E q \in Requests, u \in Users, t \in Tasks : User(q, u, t)
  \/ \E q \in Requests : Handle(q)
  \/ \E t \in Tasks : Supervise(t)
  \/ Control \/ Planner
  \/ \E t \in Tasks, r \in Revisions : Agent(t, r)

Spec == Init /\ [][Next]_vars

Fairness ==
  /\ WF_vars(Control) /\ WF_vars(Planner)
  /\ \A q \in Requests : WF_vars(Handle(q))
  /\ \A t \in Tasks, r \in Revisions : WF_vars(Agent(t, r))

FairSpec == Spec /\ Fairness
-----------------------------------------------------------------------------
Statuses == {"ABSENT"} \cup ActiveStatuses \cup Ended
WorkStates == {"none", "ready", "busy", "waiting", "done", "failed", "closed"}
Row == [status : Statuses, cancel : BOOLEAN, revision : Revisions, chat : BOOLEAN,
        archived : BOOLEAN, owner : Users \cup {NoUser}]

(* Every variable keeps its type; whoever is busy is busy with some task.  *)
TypeOK ==
  /\ row \in [Tasks -> Row]
  /\ work \in [Tasks -> [Revisions -> WorkStates]]
  /\ plans \in [Tasks -> [Revisions -> Nat]]
  /\ asked \in [Tasks -> SUBSET Revisions]
  /\ agent \in [Tasks -> [Revisions -> [step : {"none", "sent", "started", "running"}, status : Statuses]]]
  /\ control \in [Tasks -> Nat] /\ planq \in [Tasks -> Nat] /\ directives \in [Tasks -> Nat]
  /\ session \in [task : Tasks \cup {NoTask}, step : {"idle", "begun", "pass"},
                  seen : Row, work : WorkStates]
  /\ planner \in [task : Tasks \cup {NoTask}, seen : Row]
  /\ request \in [Requests ->
       [op : Operations \cup {"decide", "none"}, step : {"none", "routed", "admitted"},
        task : Tasks \cup {NoTask}, user : Users \cup {NoUser}, seen : Row,
        revision : Revisions, work : WorkStates]]
  /\ acts \in Nat
  /\ session.step # "idle" => session.task \in Tasks
  /\ planner # NoPlan => planner.task \in Tasks
  /\ \A q \in Requests : request[q].step # "none" =>
       request[q].task \in Tasks /\ request[q].op # "none" /\ request[q].user \in Users

(* Something will look at the task again: a message, a worker, an Agent.   *)
InHand(t) ==
  \/ control[t] > 0 \/ session.task = t
  \/ planq[t] > 0 \/ planner.task = t
  \/ \E r \in Revisions : agent[t][r] # NoAgent

(* The owner is asked about the current revision. *)
OwnerIsAsked(t) == row[t].revision \in asked[t] /\ work[t][row[t].revision] = "waiting"

(* A task that claims to be queued, planned or executed is in somebody's   *)
(* hand, or its owner is asked.  Nothing sweeps for forgotten tasks, so    *)
(* that every reset, early return and overwritten status must leave a      *)
(* message behind.                                                         *)
NobodyIsForgotten ==
  \A t \in Tasks :
    row[t].status \in {"QUEUED", "PLANNING", "RUNNING"} => InHand(t) \/ OwnerIsAsked(t)

(* Planning does not last for ever, whatever the owner does meanwhile.     *)
PlanningEnds == \A t \in Tasks : row[t].status = "PLANNING" ~> row[t].status # "PLANNING"

(* The plan of the current revision exists, and an Agent works on it or a  *)
(* pass is due.                                                            *)
Proceeds(t) ==
  LET r == row[t].revision
  IN  work[t][r] # "none" /\ (control[t] > 0 \/ agent[t][r].step \in {"started", "running"})

(* A cancellation of a task that proceeds is carried out: it ends, unless  *)
(* the owner takes the cancellation back by a new round, or an Agent that  *)
(* has not noticed it asks the owner first.                                *)
CancelIsCarriedOut ==
  \A t \in Tasks :
    (row[t].cancel /\ Proceeds(t)) ~>
      (row[t].status \in Ended \/ ~row[t].cancel \/ OwnerIsAsked(t))

(* A user has at most one active task (docs/1panel-deployment.md:577).     *)
OneActiveTask ==
  \A u \in Users : Cardinality({t \in Active : row[t].owner = u}) <= MaxActive

(* A revision is planned once (docs/architecture.md:65).                   *)
OnePlanPerRevision == \A t \in Tasks, r \in Revisions : plans[t][r] <= 1
=============================================================================
