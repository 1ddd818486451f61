--------------------------- MODULE LifecycleProofs ---------------------------
(***************************************************************************)
(* Proofs about Lifecycle for any number of tasks, users, requests in      *)
(* flight, revisions and limits.                                           *)
(*                                                                         *)
(* NobodyIsForgotten is not inductive: a message may be taken by a session *)
(* that will do nothing, and an Agent of an old revision may leave without *)
(* a word.  ClaimKept says who it is that certainly looks at the task again. *)
(***************************************************************************)
EXTENDS Lifecycle, TLAPS

Claims == {"QUEUED", "PLANNING", "RUNNING"}

(* An Agent that will work on the current revision. *)
Works(t) ==
  LET r == row[t].revision
  IN  \/ agent[t][r].step \in {"started", "running"}
      \/ agent[t][r].step = "sent" /\ work[t][r] = "busy"

(* The session read that the task is being planned or executed. *)
Returns ==
  \/ session.step = "begun" /\ session.work = "none" /\ session.seen.status = "PLANNING"
  \/ session.step = "pass" /\ session.work = "busy" /\ ~session.seen.cancel

Acts(t) ==
  \/ control[t] > 0 \/ planq[t] > 0
  \/ planner.task = t /\ planner.seen.status # "FAILED"
  \/ session.task = t /\ ~Returns
  \/ Works(t)

ClaimKept(t) == row[t].status \in Claims => Acts(t) \/ OwnerIsAsked(t)

(* A task in planning without a plan has one coming for its revision. *)
PlanComes(t) ==
  row[t].status = "PLANNING" /\ work[t][row[t].revision] = "none" =>
    \/ planq[t] > 0
    \/ /\ planner.task = t /\ planner.seen.status # "FAILED"
       /\ planner.seen.revision = row[t].revision

BusyHasAgent(t) == \A r \in Revisions : work[t][r] = "busy" => agent[t][r].step # "none"

(* What a session read is still so, or a message came after it. *)
FreshRead(t) ==
  session.task = t =>
    \/ control[t] > 0
    \/ /\ row[t].revision = session.seen.revision
       /\ row[t].status \in Claims => row[t].status = session.seen.status

TaskInv(t) == ClaimKept(t) /\ PlanComes(t) /\ BusyHasAgent(t) /\ FreshRead(t)

NewRoundsFollowEnds ==
  \A q \in Requests : request[q].op \in {"retry", "revise"} => request[q].seen.status \in Ended

IInv == TypeOK /\ (\A t \in Tasks : TaskInv(t)) /\ NewRoundsFollowEnds

(***************************************************************************)
(* Type correctness.                                                       *)
(***************************************************************************)
Requested ==
  [op : Operations \cup {"decide", "none"}, step : {"none", "routed", "admitted"},
   task : Tasks \cup {NoTask}, user : Users \cup {NoUser}, seen : Row,
   revision : Revisions, work : WorkStates]

(* A flush changes one row, column by column. *)
LEMMA FlushWrites ==
  ASSUME row \in [Tasks -> Row], NEW t \in Tasks, NEW seen \in Row, NEW new \in Row,
         Flush(t, seen, new)
  PROVE  /\ row' \in [Tasks -> Row]
         /\ row'[t].status = Column(seen.status, new.status, row[t].status)
         /\ row'[t].cancel = Column(seen.cancel, new.cancel, row[t].cancel)
         /\ row'[t].revision = Column(seen.revision, new.revision, row[t].revision)
         /\ \A s \in Tasks \ {t} : row'[s] = row[s]
<1> DEFINE n == [status |-> Column(seen.status, new.status, row[t].status),
     cancel |-> Column(seen.cancel, new.cancel, row[t].cancel),
     revision |-> Column(seen.revision, new.revision, row[t].revision),
     chat |-> Column(seen.chat, new.chat, row[t].chat),
     archived |-> Column(seen.archived, new.archived, row[t].archived),
     owner |-> Column(seen.owner, new.owner, row[t].owner)]
<1>1. row' = [row EXCEPT ![t] = n]
  BY DEF Flush
<1>2. n \in Row
  BY DEF Row, Column
<1>3. row' = [s \in Tasks |-> IF s = t THEN n ELSE row[s]]
  BY <1>1
<1>4. row'[t] = n /\ \A s \in Tasks \ {t} : row'[s] = row[s]
  BY <1>3
<1> QED
  BY <1>2, <1>3, <1>4

LEMMA Messages ==
  ASSUME NEW queue \in [Tasks -> Nat], NEW t \in Tasks
  PROVE  /\ Send(queue, t) \in [Tasks -> Nat]
         /\ Send(queue, t)[t] > 0
         /\ \A s \in Tasks : queue[s] > 0 => Send(queue, t)[s] > 0
         /\ queue[t] > 0 => Take(queue, t) \in [Tasks -> Nat]
         /\ \A s \in Tasks \ {t} : Take(queue, t)[s] = queue[s]
<1>1. Send(queue, t) = [s \in Tasks |-> IF s = t THEN queue[t] + 1 ELSE queue[s]]
  BY DEF Send
<1>2. Take(queue, t) = [s \in Tasks |-> IF s = t THEN queue[t] - 1 ELSE queue[s]]
  BY DEF Take
<1> QED
  BY <1>1, <1>2

LEMMA WorkWrites ==
  ASSUME work \in [Tasks -> [Revisions -> WorkStates]],
         NEW t \in Tasks, NEW r \in Revisions, NEW w \in WorkStates
  PROVE  /\ [work EXCEPT ![t][r] = w] \in [Tasks -> [Revisions -> WorkStates]]
         /\ \A s \in Tasks, k \in Revisions :
              [work EXCEPT ![t][r] = w][s][k] = IF s = t /\ k = r THEN w ELSE work[s][k]
  OBVIOUS

AgentState == [step : {"none", "sent", "started", "running"}, status : Statuses]

LEMMA AgentWrites ==
  ASSUME agent \in [Tasks -> [Revisions -> AgentState]],
         NEW t \in Tasks, NEW r \in Revisions, NEW a \in AgentState
  PROVE  /\ [agent EXCEPT ![t][r] = a] \in [Tasks -> [Revisions -> AgentState]]
         /\ \A s \in Tasks, k \in Revisions :
              [agent EXCEPT ![t][r] = a][s][k] = IF s = t /\ k = r THEN a ELSE agent[s][k]
  OBVIOUS

LEMMA ChangedIsRow ==
  ASSUME NEW op \in Operations \cup {"decide"}, NEW seen \in Row, NEW u \in Users,
         op \in {"retry", "revise"} => seen.revision < MaxRevision
  PROVE  Changed(op, seen, u) \in Row
<1>1. \A b \in BOOLEAN, s \in Statuses : /\ [seen EXCEPT !.status = s] \in Row
          /\ [seen EXCEPT !.archived = b] \in Row
          /\ [seen EXCEPT !.status = s, !.cancel = b] \in Row
          /\ [seen EXCEPT !.status = s, !.chat = b] \in Row
          /\ [seen EXCEPT !.status = s, !.owner = u] \in Row
          /\ [seen EXCEPT !.status = s, !.owner = u, !.chat = b] \in Row
          /\ [seen EXCEPT !.archived = b, !.cancel = b, !.status = s] \in Row
  BY DEF Row
<1>2. {"CREATED", "QUEUED", "CANCELING", "CANCELED"} \subseteq Statuses
  BY DEF Statuses, ActiveStatuses, Ended
<1>3. CASE op \in {"retry", "revise"}
  <2>1. seen.revision + 1 \in Revisions
    BY <1>3, BoundsAreNaturals DEF Row, Revisions
  <2>2. Restarted(seen) \in Row /\ [Restarted(seen) EXCEPT !.chat = FALSE] \in Row
    BY <2>1, <1>2 DEF Row, Restarted
  <2> QED
    BY <2>2, <1>3 DEF Changed
<1>4. CASE op \notin {"retry", "revise"}
  <2>1. Archived(seen) \in Row
    BY <1>1, <1>2 DEF Archived
  <2> QED
    BY <1>1, <1>2, <1>4, <2>1 DEF Changed, Operations
<1> QED
  BY <1>3, <1>4

(* The parts of TypeOK, one by one. *)
LEMMA TypeParts ==
  ASSUME TypeOK
  PROVE  /\ row \in [Tasks -> Row]
         /\ work \in [Tasks -> [Revisions -> WorkStates]]
         /\ plans \in [Tasks -> [Revisions -> Nat]]
         /\ asked \in [Tasks -> SUBSET Revisions]
         /\ agent \in [Tasks -> [Revisions -> AgentState]]
         /\ control \in [Tasks -> Nat] /\ planq \in [Tasks -> Nat]
         /\ directives \in [Tasks -> Nat]
         /\ request \in [Requests -> Requested]
         /\ session.seen \in Row /\ session.seen.revision \in Revisions
         /\ planner.seen \in Row /\ planner.seen.revision \in Revisions
         /\ session.step # "idle" => session.task \in Tasks
         /\ planner # NoPlan => planner.task \in Tasks
         /\ \A t \in Tasks : row[t] \in Row /\ row[t].revision \in Revisions
  BY DEF TypeOK, Requested, AgentState, Row

LEMMA TypeInit == Init => TypeOK
<1> SUFFICES ASSUME Init PROVE TypeOK
  OBVIOUS
<1>1. 0 \in Revisions
  BY BoundsAreNaturals DEF Revisions
<1>2. NoRow \in Row
  BY <1>1 DEF NoRow, Row, Statuses
<1> QED
  BY <1>1, <1>2 DEF Init, TypeOK, NoPass, NoPlan, NoAgent, NoRequest, WorkStates, Statuses,
     ActiveStatuses

(* Whoever asks has read a row. *)
LEMMA TypeUser ==
  ASSUME TypeOK, NEW q \in Requests, NEW u \in Users, NEW t \in Tasks, User(q, u, t)
  PROVE  TypeOK'
<1> USE DEF TypeOK
<1>1. ASSUME NEW op \in Operations, NEW step \in {"routed", "admitted"},
             Receive(q, u, t, op, step)
      PROVE  TypeOK'
  <2> DEFINE x == [op |-> op, step |-> step, task |-> t, user |-> u, seen |-> row[t],
                   revision |-> 0, work |-> "none"]
  <2>0. "none" \notin Operations
    BY ONLY DEF Operations
  <2>3. 0 \in Revisions /\ "none" \in WorkStates
    BY ONLY BoundsAreNaturals DEF WorkStates, Revisions
  <2>4. row[t] \in Row
    BY TypeParts
  <2>1. x \in Requested /\ op # "none"
    BY <2>0, <2>3, <2>4 DEF Requested
  <2>2. request' = [request EXCEPT ![q] = x]
    BY <1>1 DEF Receive
  <2>5. request' \in [Requests -> Requested]
    BY <2>1, <2>2 DEF Requested
  <2>6. \A p \in Requests : request'[p].step # "none" =>
          request'[p].task \in Tasks /\ request'[p].op # "none" /\ request'[p].user \in Users
    BY <2>1, <2>2
  <2> QED
    BY <1>1, <2>5, <2>6 DEF Receive, queues, workers, Requested
<1>2. ASSUME NEW r \in Revisions, DecideBegin(q, u, t, r) PROVE TypeOK'
  <2> DEFINE x == [op |-> "decide", step |-> "admitted", task |-> t, user |-> u,
                   seen |-> row[t], revision |-> r, work |-> work[t][r]]
  <2>1. x \in Requested
    BY DEF Requested
  <2>2. request' = [request EXCEPT ![q] = x]
    BY <1>2 DEF DecideBegin
  <2>3. request' \in [Requests -> Requested]
    BY <2>1, <2>2 DEF Requested
  <2>4. \A p \in Requests : request'[p].step # "none" =>
          request'[p].task \in Tasks /\ request'[p].op # "none" /\ request'[p].user \in Users
    BY <2>1, <2>2
  <2> QED
    BY <1>2, <2>3, <2>4 DEF DecideBegin, queues, workers, Requested
<1> QED
  BY <1>1, <1>2 DEF User, CreateBegin, ChangeBegin, MessageBegin

LEMMA TypeHandle ==
  ASSUME TypeOK, NEW q \in Requests, Handle(q)
  PROVE  TypeOK'
<1> USE DEF TypeOK
<1>1. NoRequest \in Requested
  BY BoundsAreNaturals DEF Requested, NoRequest, NoRow, Row, Statuses, WorkStates, Revisions
<1>2. CASE Admit(q)
  <2>0. request \in [Requests -> Requested]
    BY DEF Requested
  <2>3. [request[q] EXCEPT !.step = "admitted"] \in Requested
    BY <2>0 DEF Requested
  <2>1. request' \in [Requests -> Requested]
    BY <1>1, <1>2, <2>0, <2>3 DEF Admit
  <2>2. \A p \in Requests : request'[p].step # "none" =>
          request'[p].task \in Tasks /\ request'[p].op # "none" /\ request'[p].user \in Users
    BY <1>2 DEF Admit, NoRequest
  <2> QED
    BY <1>2, <2>1, <2>2 DEF Admit, queues, workers, Requested
<1>3. CASE Commit(q)
  <2> DEFINE x == request[q]
             t == x.task
  <2>1. /\ t \in Tasks /\ x.seen \in Row /\ x.user \in Users
        /\ x.op \in Operations \cup {"decide"}
    BY <1>3 DEF Commit
  <2>2. Changed(x.op, x.seen, x.user) \in Row
    BY <1>3, <2>1, ChangedIsRow DEF Commit
  <2>3. row' \in [Tasks -> Row]
    BY <1>3, <2>1, <2>2, FlushWrites DEF Commit
  <2>4. request' \in [Requests -> Requested]
    BY <1>1, <1>3 DEF Commit, Requested
  <2>5. \A p \in Requests : request'[p].step # "none" =>
          request'[p].task \in Tasks /\ request'[p].op # "none" /\ request'[p].user \in Users
    BY <1>3 DEF Commit, NoRequest
  <2>6. control' \in [Tasks -> Nat] /\ directives' \in [Tasks -> Nat]
    BY <1>3, <2>1 DEF Commit, Send
  <2>7. work' \in [Tasks -> [Revisions -> WorkStates]]
    BY <1>3, <2>1 DEF Commit, WorkStates
  <2>8. asked' \in [Tasks -> SUBSET Revisions]
    BY <1>3, <2>1 DEF Commit
  <2> QED
    BY <1>3, <2>3, <2>4, <2>5, <2>6, <2>7, <2>8 DEF Commit, workers, Requested
<1> QED
  BY <1>2, <1>3 DEF Handle

LEMMA TypeSupervise ==
  ASSUME TypeOK, NEW t \in Tasks, Supervise(t)
  PROVE  TypeOK'
<1>0. /\ control \in [Tasks -> Nat] /\ directives \in [Tasks -> Nat]
      /\ work \in [Tasks -> [Revisions -> WorkStates]] /\ row[t].revision \in Revisions
  BY TypeParts
<1>1. directives' \in [Tasks -> Nat]
  BY <1>0, Messages DEF Supervise
<1>2. control' \in [Tasks -> Nat]
  BY <1>0, Messages DEF Supervise
<1>3. work' \in [Tasks -> [Revisions -> WorkStates]]
  <2>1. "ready" \in WorkStates
    BY DEF WorkStates
  <2>2. [work EXCEPT ![t][row[t].revision] = "ready"] \in [Tasks -> [Revisions -> WorkStates]]
    BY <1>0, <2>1, WorkWrites
  <2> QED
    BY <1>0, <2>2 DEF Supervise
<1> QED
  BY <1>1, <1>2, <1>3 DEF TypeOK, Supervise, workers

LEMMA TypeControl ==
  ASSUME TypeOK, Control
  PROVE  TypeOK'
<1>1. NoRow \in Row /\ "none" \in WorkStates
  BY TypeParts, BoundsAreNaturals DEF NoRow, Row, Statuses, WorkStates, Revisions
<1>2. ASSUME session.step # "idle",
             NEW st \in {"PLANNING", "CANCELED", "SUCCEEDED", "FAILED", "RUNNING", "WAITING_APPROVAL"},
             Flush(session.task, session.seen, [session.seen EXCEPT !.status = st])
      PROVE  row' \in [Tasks -> Row]
  <2>1. [session.seen EXCEPT !.status = st] \in Row
    BY TypeParts DEF Row, Statuses, ActiveStatuses, Ended
  <2> QED
    BY TypeParts, <1>2, <2>1, FlushWrites
<1>3. session.seen.revision \in Revisions
  BY TypeParts DEF Row
<1>4. ASSUME NEW t \in Tasks, RunTask(t) PROVE TypeOK'
  <2>1. row[t].revision \in Revisions /\ control' \in [Tasks -> Nat]
    BY TypeParts, <1>4 DEF RunTask, Take, Row
  <2> QED
    BY <1>4, <2>1 DEF TypeOK, RunTask, workers, queues
<1>5. CASE StartPlanning
  <2>1. row' \in [Tasks -> Row]
    BY TypeParts, <1>5, <1>2 DEF StartPlanning
  <2>2. planq' \in [Tasks -> Nat]
    BY TypeParts, <1>5, Messages DEF StartPlanning
  <2> QED
    BY <1>1, <1>5, <2>1, <2>2 DEF TypeOK, StartPlanning, Rest, NoPass, workers, queues
<1>6. CASE PassRead
  <2>1. session.task \in Tasks /\ row[session.task].revision \in Revisions
    BY TypeParts, <1>6 DEF PassRead, Row
  <2> QED
    BY <1>6, <2>1 DEF TypeOK, PassRead, workers, queues
<1>7. CASE PassCancels
  <2>1. row' \in [Tasks -> Row]
    BY TypeParts, <1>7, <1>2 DEF PassCancels, PassWrites
  <2>2. work' \in [Tasks -> [Revisions -> WorkStates]]
    BY TypeParts, <1>7, <1>3 DEF PassCancels, WorkStates
  <2> QED
    BY <1>1, <1>7, <2>1, <2>2 DEF TypeOK, PassCancels, Rest, NoPass, workers, queues
<1>8. CASE PassEnds
  <2>1. row' \in [Tasks -> Row]
    BY TypeParts, <1>8, <1>2 DEF PassEnds, PassWrites, Pass
  <2> QED
    BY <1>1, <1>8, <2>1 DEF TypeOK, PassEnds, Rest, NoPass, workers, queues
<1>9. CASE PassDispatches
  <2>1. row' \in [Tasks -> Row]
    BY TypeParts, <1>9, <1>2 DEF PassDispatches, PassWrites, Pass
  <2>2. work' \in [Tasks -> [Revisions -> WorkStates]]
    BY TypeParts, <1>9, <1>3 DEF PassDispatches, WorkStates
  <2>3. session.task \in Tasks
    BY TypeParts, <1>9 DEF PassDispatches, Pass
  <2>4. agent' \in [Tasks -> [Revisions -> AgentState]]
    <3>1. Sent \in AgentState
      BY DEF Sent, AgentState, Statuses
    <3> QED
      BY TypeParts, <1>9, <2>3, <3>1, AgentWrites DEF PassDispatches
  <2> QED
    BY <1>1, <1>9, <2>1, <2>2, <2>4 DEF TypeOK, PassDispatches, AgentState, Rest, NoPass, workers, queues
<1>10. CASE PassWaits
  <2>1. row' \in [Tasks -> Row]
    BY TypeParts, <1>10, <1>2 DEF PassWaits, PassWrites, Pass
  <2> QED
    BY <1>1, <1>10, <2>1 DEF TypeOK, PassWaits, Rest, NoPass, workers, queues
<1> QED
  BY <1>4, <1>5, <1>6, <1>7, <1>8, <1>9, <1>10 DEF Control

LEMMA TypePlanner ==
  ASSUME TypeOK, Planner
  PROVE  TypeOK'
<1>1. NoPlan \in [task : Tasks \cup {NoTask}, seen : Row]
  BY TypeParts, BoundsAreNaturals DEF NoPlan, NoRow, Row, Statuses, Revisions
<1>2. ASSUME NEW t \in Tasks, PlanRead(t) PROVE TypeOK'
  <2>1. planq' \in [Tasks -> Nat]
    BY TypeParts, <1>2 DEF PlanRead, Take
  <2> QED
    BY <1>2, <2>1 DEF TypeOK, PlanRead
<1>3. CASE PlanPersist
  <2>1. planner.task \in Tasks /\ planner.seen.revision \in Revisions
    BY TypeParts, <1>3 DEF PlanPersist, Row
  <2>2. plans' \in [Tasks -> [Revisions -> Nat]]
    BY TypeParts, <1>3, <2>1 DEF PlanPersist
  <2>3. work' \in [Tasks -> [Revisions -> WorkStates]]
    BY TypeParts, <1>3, <2>1 DEF PlanPersist, WorkStates
  <2>4. control' \in [Tasks -> Nat]
    BY TypeParts, <1>3, <2>1 DEF PlanPersist, Send
  <2> QED
    BY <1>1, <1>3, <2>2, <2>3, <2>4 DEF TypeOK, PlanPersist
<1>4. CASE PlanFails
  <2>1. planner.task \in Tasks /\ [planner.seen EXCEPT !.status = "FAILED"] \in Row
    BY TypeParts, <1>4 DEF PlanFails, Row, Statuses, Ended
  <2>2. row' \in [Tasks -> Row]
    BY TypeParts, <1>4, <2>1, FlushWrites DEF PlanFails
  <2> QED
    BY <1>1, <1>4, <2>2 DEF TypeOK, PlanFails, queues
<1> QED
  BY <1>2, <1>3, <1>4 DEF Planner

LEMMA TypeAgent ==
  ASSUME TypeOK, NEW t \in Tasks, NEW r \in Revisions, Agent(t, r)
  PROVE  TypeOK'
<1>1. ASSUME NEW a \in AgentState, agent' = [agent EXCEPT ![t][r] = a]
      PROVE  agent' \in [Tasks -> [Revisions -> AgentState]]
  BY TypeParts, <1>1 DEF AgentState
<1>2. NoAgent \in AgentState
  BY TypeParts DEF NoAgent, AgentState, Statuses
<1>3. CASE AgentStart(t, r)
  <2>1. agent' \in [Tasks -> [Revisions -> AgentState]]
    <3>1. Started \in AgentState
      BY DEF Started, AgentState, Statuses
    <3> QED
      BY <1>1, <1>2, <1>3, <3>1 DEF AgentStart, Leave
  <2> QED
    BY <1>3, <2>1 DEF TypeOK, AgentStart, workers, queues, AgentState
<1>4. CASE AgentRound(t, r)
  <2>1. agent' \in [Tasks -> [Revisions -> AgentState]]
    BY TypeParts, <1>1, <1>4 DEF AgentRound, AgentState, Row
  <2> QED
    BY <1>4, <2>1 DEF TypeOK, AgentRound, workers, queues, AgentState
<1>5. CASE AgentEnds(t, r) \/ AgentNoticesCancel(t, r)
  <2>1. agent' \in [Tasks -> [Revisions -> AgentState]]
    BY TypeParts, <1>1, <1>2, <1>5 DEF AgentEnds, AgentNoticesCancel, Leave
  <2>2. work' \in [Tasks -> [Revisions -> WorkStates]] /\ control' \in [Tasks -> Nat]
    <3>1. {"ready", "done", "failed", "closed"} \subseteq WorkStates
      BY TypeParts DEF WorkStates
    <3>0. work \in [Tasks -> [Revisions -> WorkStates]] /\ control \in [Tasks -> Nat]
      BY TypeParts
    <3>2. work' \in [Tasks -> [Revisions -> WorkStates]]
      <4>1. PICK w \in WorkStates : work' = [work EXCEPT ![t][r] = w]
        BY <1>5, <3>1 DEF AgentEnds, AgentNoticesCancel
      <4> QED
        BY <3>0, <4>1, WorkWrites
    <3>3. control' \in [Tasks -> Nat]
      <4>1. control' = Send(control, t)
        BY <1>5 DEF AgentEnds, AgentNoticesCancel
      <4> QED
        BY <3>0, <4>1, Messages
    <3> QED
      BY <3>2, <3>3
  <2> QED
    BY <1>5, <2>1, <2>2 DEF TypeOK, AgentEnds, AgentNoticesCancel, workers, AgentState
<1>6. CASE AgentAsks(t, r)
  <2>1. agent' \in [Tasks -> [Revisions -> AgentState]]
    BY TypeParts, <1>1, <1>2, <1>6 DEF AgentAsks, Leave
  <2>2. work' \in [Tasks -> [Revisions -> WorkStates]] /\ asked' \in [Tasks -> SUBSET Revisions]
    BY TypeParts, <1>6 DEF AgentAsks, WorkStates
  <2>3. row' \in [Tasks -> Row]
    BY TypeParts, <1>6 DEF AgentAsks, Row, Statuses, ActiveStatuses
  <2> QED
    BY <1>6, <2>1, <2>2, <2>3 DEF TypeOK, AgentAsks, workers, queues, AgentState
<1> QED
  BY <1>3, <1>4, <1>5, <1>6 DEF Agent

LEMMA TypeStep == TypeOK /\ [Next]_vars => TypeOK'
<1> SUFFICES ASSUME TypeOK, [Next]_vars PROVE TypeOK'
  OBVIOUS
<1>1. CASE UNCHANGED vars
  BY <1>1 DEF TypeOK, vars, queues, workers
<1> QED
  BY <1>1, TypeUser, TypeHandle, TypeSupervise, TypeControl, TypePlanner, TypeAgent DEF Next

(* Every row, message, session and request keeps its type (TypeOK), however *)
(* the handlers' partial writes overlap.                                   *)
THEOREM LifecycleTypes == Spec => []TypeOK
<1> QED
  BY TypeInit, TypeStep, PTL DEF Spec

(***************************************************************************)
(* Nobody is forgotten.                                                    *)
(***************************************************************************)

(* A step that is about another task, or only sends messages. *)
LEMMA OtherTasks ==
  ASSUME TypeOK, NEW s \in Tasks, TaskInv(s),
         row'[s] = row[s], work'[s] = work[s], agent'[s] = agent[s],
         asked[s] \subseteq asked'[s],
         control[s] > 0 => control'[s] > 0, planq[s] > 0 => planq'[s] > 0,
         planner.task = s => planner' = planner,
         session.task = s => session' = session,
         session'.task = s => session.task = s
  PROVE  TaskInv(s)'
<1>1. ClaimKept(s)'
  BY DEF TaskInv, ClaimKept, Acts, Works, Returns, OwnerIsAsked
<1>2. PlanComes(s)'
  BY DEF TaskInv, PlanComes
<1>3. BusyHasAgent(s)'
  BY DEF TaskInv, BusyHasAgent
<1>4. FreshRead(s)'
  BY DEF TaskInv, FreshRead
<1> QED
  BY <1>1, <1>2, <1>3, <1>4 DEF TaskInv

LEMMA ForgetInit == Init => IInv
<1> SUFFICES ASSUME Init PROVE IInv
  OBVIOUS
<1>1. 0 \in Revisions
  BY BoundsAreNaturals DEF Revisions
<1>2. ASSUME NEW t \in Tasks PROVE TaskInv(t)
  BY <1>1, NamesAreDistinct DEF Init, TaskInv, ClaimKept, PlanComes, BusyHasAgent, FreshRead, Claims,
     NoRow, NoPass
<1>3. NewRoundsFollowEnds
  BY DEF Init, NewRoundsFollowEnds, NoRequest
<1> QED
  BY <1>2, <1>3, TypeInit DEF IInv

(* A retry or a revision is asked for when the round before it has ended. *)
LEMMA RoundsStep ==
  ASSUME IInv, [Next]_vars
  PROVE  NewRoundsFollowEnds'
<1>1. request \in [Requests -> Requested] /\ NewRoundsFollowEnds
  BY TypeParts DEF IInv
<1>2. CASE request' = request
  BY <1>1, <1>2 DEF NewRoundsFollowEnds
<1>3. ASSUME NEW q \in Requests, NEW x,
             x.op \in {"retry", "revise"} => x.seen.status \in Ended,
             request' = [request EXCEPT ![q] = x]
      PROVE  NewRoundsFollowEnds'
  BY <1>1, <1>3 DEF NewRoundsFollowEnds
<1>4. NoRequest.op \notin {"retry", "revise"}
  BY DEF NoRequest
<1>5. ASSUME NEW q \in Requests, Admit(q) PROVE NewRoundsFollowEnds'
  <2>1. /\ [request[q] EXCEPT !.step = "admitted"].op = request[q].op
        /\ [request[q] EXCEPT !.step = "admitted"].seen = request[q].seen
    BY <1>1 DEF Requested
  <2> QED
    BY <1>1, <1>3, <1>4, <1>5, <2>1 DEF Admit, NewRoundsFollowEnds
<1>6. ASSUME NEW q \in Requests, Commit(q) PROVE NewRoundsFollowEnds'
  BY <1>3, <1>4, <1>6 DEF Commit
<1>7. ASSUME NEW q \in Requests, NEW u \in Users, NEW t \in Tasks, User(q, u, t)
      PROVE  NewRoundsFollowEnds'
  <2>1. ASSUME NEW op, NEW step, Receive(q, u, t, op, step),
               op \in {"retry", "revise"} => row[t].status \in Ended
        PROVE  NewRoundsFollowEnds'
    BY <1>3, <2>1 DEF Receive
  <2>2. ASSUME NEW r \in Revisions, DecideBegin(q, u, t, r) PROVE NewRoundsFollowEnds'
    BY <1>3, <2>2 DEF DecideBegin
  <2> QED
    BY <1>7, <2>1, <2>2 DEF User, CreateBegin, ChangeBegin, Allowed, MessageBegin, Ended
<1> QED
  BY <1>2, <1>5, <1>6, <1>7 DEF Next, vars, Handle, Control, Planner, Agent, Supervise, RunTask,
     StartPlanning, PassRead, PassCancels, PassEnds, PassDispatches, PassWaits, PlanRead,
     PlanPersist, PlanFails, AgentStart, AgentRound, AgentEnds, AgentNoticesCancel, AgentAsks, workers

(* The row as a handler leaves it, where it still claims to be in work: it *)
(* was so before, or the handler sends run_task.                           *)
LEMMA ChangedClaims ==
  ASSUME NEW op \in Operations \cup {"decide"}, NEW seen \in Row, NEW u \in Users,
         op \in {"retry", "revise"} => seen.status \in Ended
  PROVE  LET new == Changed(op, seen, u)
         IN  /\ op \notin {"retry", "revise"} => new.revision = seen.revision
             /\ op \in {"retry", "revise"} => new.status # seen.status /\ new.status = "QUEUED"
             /\ op \in SendsRunTask => new.status = "QUEUED"
             /\ op \notin SendsRunTask => new.status = seen.status \/ new.status \notin Claims
<1>1. \A b \in BOOLEAN, s \in Statuses :
          /\ [seen EXCEPT !.status = s].status = s
          /\ [seen EXCEPT !.status = s].revision = seen.revision
          /\ [seen EXCEPT !.archived = b].status = seen.status
          /\ [seen EXCEPT !.archived = b].revision = seen.revision
          /\ [seen EXCEPT !.status = s, !.cancel = b].status = s
          /\ [seen EXCEPT !.status = s, !.cancel = b].revision = seen.revision
          /\ [seen EXCEPT !.status = s, !.chat = b].status = s
          /\ [seen EXCEPT !.status = s, !.chat = b].revision = seen.revision
          /\ [seen EXCEPT !.status = s, !.owner = u].status = s
          /\ [seen EXCEPT !.status = s, !.owner = u].revision = seen.revision
          /\ [seen EXCEPT !.status = s, !.owner = u, !.chat = b].status = s
          /\ [seen EXCEPT !.status = s, !.owner = u, !.chat = b].revision = seen.revision
          /\ [seen EXCEPT !.archived = b, !.cancel = b, !.status = s].status = s
          /\ [seen EXCEPT !.archived = b, !.cancel = b, !.status = s].revision = seen.revision
  BY DEF Row
<1>2. {"CREATED", "QUEUED", "CANCELING", "CANCELED"} \subseteq Statuses
  BY DEF Statuses, ActiveStatuses, Ended
<1>3. CASE op \in {"retry", "revise"}
  <2>1. /\ Restarted(seen).status = "QUEUED"
        /\ [Restarted(seen) EXCEPT !.chat = FALSE].status = "QUEUED"
    BY DEF Row, Restarted
  <2> QED
    BY <2>1, <1>3 DEF Changed, SendsRunTask, Ended
<1>4. CASE op \notin {"retry", "revise"}
  <2>1. /\ Archived(seen).revision = seen.revision
        /\ Archived(seen).status = seen.status \/ Archived(seen).status \notin Claims
    BY <1>1, <1>2 DEF Archived, Claims
  <2>2. CASE op \in {"create chat", "create draft", "cancel"}
    <3>1. CASE op = "create chat"
      <4>1. Changed(op, seen, u) = [seen EXCEPT !.status = "CREATED", !.owner = u, !.chat = TRUE]
        BY <3>1 DEF Changed
      <4>2. Changed(op, seen, u).status = "CREATED" /\ Changed(op, seen, u).revision = seen.revision
        BY <4>1 DEF Row
      <4> QED
        BY <3>1, <4>2 DEF SendsRunTask, Claims
    <3>2. CASE op = "create draft"
      <4>1. Changed(op, seen, u) = [seen EXCEPT !.status = "CREATED", !.owner = u, !.chat = FALSE]
        BY <3>2 DEF Changed
      <4>2. Changed(op, seen, u).status = "CREATED" /\ Changed(op, seen, u).revision = seen.revision
        BY <4>1 DEF Row
      <4> QED
        BY <3>2, <4>2 DEF SendsRunTask, Claims
    <3>3. CASE op = "cancel"
      <4>1. Changed(op, seen, u) = [seen EXCEPT !.status = "CANCELING", !.cancel = TRUE]
        BY <3>3 DEF Changed
      <4>2. Changed(op, seen, u).status = "CANCELING" /\ Changed(op, seen, u).revision = seen.revision
        BY <4>1 DEF Row
      <4> QED
        BY <3>3, <4>2 DEF SendsRunTask, Claims
    <3> QED
      BY <2>2, <3>1, <3>2, <3>3
  <2>3. CASE op \in {"create and start", "start", "upgrade", "decide"}
    BY <1>1, <1>2, <2>3 DEF Changed, SendsRunTask, Claims
  <2>4. CASE op \in {"archive", "restore", "direct"}
    BY <1>1, <1>2, <2>1, <2>4 DEF Changed, SendsRunTask, Claims
  <2> QED
    BY <1>4, <2>2, <2>3, <2>4 DEF Operations
<1> QED
  BY <1>3, <1>4

LEMMA ForgetHandle ==
  ASSUME IInv, NEW q \in Requests, Commit(q), NEW s \in Tasks
  PROVE  TaskInv(s)'
<1>0. PICK x, t : x = request[q] /\ t = x.task
  OBVIOUS
<1> DEFINE new == Changed(x.op, x.seen, x.user)
<1>1. /\ row \in [Tasks -> Row] /\ work \in [Tasks -> [Revisions -> WorkStates]]
      /\ control \in [Tasks -> Nat] /\ request \in [Requests -> Requested]
      /\ asked \in [Tasks -> SUBSET Revisions]
  BY TypeParts DEF IInv
<1>2. /\ t \in Tasks /\ x.seen \in Row /\ x.user \in Users
      /\ x.op \in Operations \cup {"decide"} /\ x.revision \in Revisions
  BY <1>0 DEF IInv, TypeOK, Commit
<1>3. new \in Row
  BY <1>0, <1>2, ChangedIsRow DEF Commit
<1>4. x.op \in {"retry", "revise"} => x.seen.status \in Ended
  BY <1>0 DEF IInv, NewRoundsFollowEnds
<1>5. /\ row' \in [Tasks -> Row]
      /\ row'[t].status = Column(x.seen.status, new.status, row[t].status)
      /\ row'[t].revision = Column(x.seen.revision, new.revision, row[t].revision)
      /\ \A p \in Tasks \ {t} : row'[p] = row[p]
  BY <1>0, <1>1, <1>2, <1>3, FlushWrites DEF Commit
<1>6. /\ x.op \notin {"retry", "revise"} => new.revision = x.seen.revision
      /\ x.op \in {"retry", "revise"} => new.status # x.seen.status /\ new.status = "QUEUED"
      /\ x.op \in SendsRunTask => new.status = "QUEUED"
      /\ x.op \notin SendsRunTask => new.status = x.seen.status \/ new.status \notin Claims
  BY <1>2, <1>4, ChangedClaims
<1>7. /\ control' = IF x.op \in SendsRunTask THEN Send(control, t) ELSE control
      /\ agent' = agent /\ planq' = planq /\ planner' = planner /\ session' = session
  BY <1>0 DEF Commit, workers
<1>8. /\ x.op \in SendsRunTask => control'[t] > 0
      /\ \A p \in Tasks : control[p] > 0 => control'[p] > 0
  <2>1. /\ Send(control, t) \in [Tasks -> Nat] /\ Send(control, t)[t] > 0
        /\ \A p \in Tasks : control[p] > 0 => Send(control, t)[p] > 0
    BY <1>1, <1>2, Messages
  <2> QED
    BY <1>1, <1>7, <2>1
<1>9. /\ \A p \in Tasks \ {t} : work'[p] = work[p] /\ asked'[p] = asked[p]
      /\ \A r \in Revisions : work'[t][r] \in {"none", "busy"} => work'[t][r] = work[t][r]
      /\ x.op \notin SendsRunTask => work' = work /\ asked' = asked
  BY <1>0, <1>1, <1>2 DEF Commit, SendsRunTask
<1>10. CASE s # t
  BY <1>5, <1>7, <1>8, <1>9, <1>10, OtherTasks DEF IInv
<1>11. CASE s = t
  <2>1. row[t].revision \in Revisions /\ row'[t].revision \in Revisions
    BY <1>1, <1>2, <1>5 DEF Row
  <2>2. ASSUME row'[t].status \in Claims, row'[t].status # "QUEUED" \/ x.op \notin SendsRunTask
        PROVE  row'[t].status = row[t].status /\ row'[t].revision = row[t].revision
    BY <2>2, <1>5, <1>6 DEF Column, Claims, SendsRunTask
  <2>3. x.op \notin SendsRunTask => row'[t].revision = row[t].revision
    BY <1>5, <1>6 DEF Column, SendsRunTask
  <2>4. TaskInv(t)
    BY <1>2 DEF IInv
  <2>5. ClaimKept(t)'
    <3>1. CASE x.op \in SendsRunTask
      BY <3>1, <1>8 DEF ClaimKept, Acts
    <3>2. CASE x.op \notin SendsRunTask
      BY <3>2, <1>7, <1>9, <2>2, <2>3, <2>4
         DEF TaskInv, ClaimKept, Acts, Works, Returns, OwnerIsAsked
    <3> QED
      BY <3>1, <3>2
  <2>6. PlanComes(t)'
    BY <1>7, <1>9, <2>1, <2>2, <2>4 DEF TaskInv, PlanComes, Claims
  <2>7. BusyHasAgent(t)'
    BY <1>7, <1>9, <2>4 DEF TaskInv, BusyHasAgent
  <2>8. FreshRead(t)'
    BY <1>7, <1>8, <2>2, <2>3, <2>4 DEF TaskInv, FreshRead
  <2> QED
    BY <1>11, <2>5, <2>6, <2>7, <2>8 DEF TaskInv
<1> QED
  BY <1>10, <1>11

LEMMA ForgetSupervise ==
  ASSUME IInv, NEW t \in Tasks, Supervise(t), NEW s \in Tasks
  PROVE  TaskInv(s)'
<1>1. /\ control \in [Tasks -> Nat] /\ work \in [Tasks -> [Revisions -> WorkStates]]
      /\ row[t].revision \in Revisions
  BY TypeParts DEF IInv
<1>2. TaskInv(t) /\ TaskInv(s) /\ TypeOK
  BY DEF IInv
<1>3. /\ row' = row /\ asked' = asked /\ agent' = agent /\ planq' = planq
      /\ planner' = planner /\ session' = session
  BY DEF Supervise, workers
<1>4. \/ control' = control /\ work' = work
      \/ /\ control'[t] > 0
         /\ \A p \in Tasks : control[p] > 0 => control'[p] > 0
         /\ \A p \in Tasks \ {t} : work'[p] = work[p]
         /\ \A r \in Revisions : work'[t][r] \in {"none", "busy"} => work'[t][r] = work[t][r]
  BY <1>1, Messages DEF Supervise
<1>5. CASE s # t
  BY <1>2, <1>3, <1>4, <1>5, OtherTasks
<1>6. CASE s = t
  <2>1. ClaimKept(t)'
    BY <1>2, <1>3, <1>4 DEF TaskInv, ClaimKept, Acts, Works, Returns, OwnerIsAsked
  <2>2. PlanComes(t)'
    BY <1>1, <1>2, <1>3, <1>4 DEF TaskInv, PlanComes
  <2>3. BusyHasAgent(t)'
    BY <1>2, <1>3, <1>4 DEF TaskInv, BusyHasAgent
  <2>4. FreshRead(t)'
    BY <1>2, <1>3, <1>4 DEF TaskInv, FreshRead
  <2> QED
    BY <1>6, <2>1, <2>2, <2>3, <2>4 DEF TaskInv
<1> QED
  BY <1>5, <1>6

(* The writes of a pass: the revision stays; a claim is an old one or the   *)
(* status it writes.                                                       *)
LEMMA StatusWrites ==
  ASSUME row \in [Tasks -> Row], NEW t \in Tasks, NEW seen \in Row, NEW st \in Statuses,
         Flush(t, seen, [seen EXCEPT !.status = st])
  PROVE  /\ \A s \in Tasks \ {t} : row'[s] = row[s]
         /\ row'[t].revision = row[t].revision
         /\ row'[t].status = IF seen.status = st THEN row[t].status ELSE st
<1> DEFINE new == [seen EXCEPT !.status = st]
<1>1. new \in Row /\ new.status = st /\ new.revision = seen.revision
  BY DEF Row
<1> HIDE DEF new
<1>2. /\ row'[t].status = Column(seen.status, new.status, row[t].status)
      /\ row'[t].revision = Column(seen.revision, new.revision, row[t].revision)
      /\ \A s \in Tasks \ {t} : row'[s] = row[s]
  BY <1>1, FlushWrites DEF new
<1> QED
  BY <1>1, <1>2 DEF Column

LEMMA ForgetControl ==
  ASSUME IInv, Control, NEW s \in Tasks
  PROVE  TaskInv(s)'
<1>1. /\ row \in [Tasks -> Row] /\ work \in [Tasks -> [Revisions -> WorkStates]]
      /\ control \in [Tasks -> Nat] /\ planq \in [Tasks -> Nat]
      /\ agent \in [Tasks -> [Revisions -> AgentState]]
      /\ session.seen \in Row /\ session.seen.revision \in Revisions
      /\ \A p \in Tasks : row[p].revision \in Revisions
  BY TypeParts DEF IInv
<1>2. TypeOK /\ (\A p \in Tasks : TaskInv(p)) /\ NoTask \notin Tasks
  BY NamesAreDistinct DEF IInv
<1>3. {"PLANNING", "CANCELED", "SUCCEEDED", "FAILED", "RUNNING", "WAITING_APPROVAL"}
        \subseteq Statuses
  BY DEF Statuses, ActiveStatuses, Ended
<1>4. ASSUME NEW t \in Tasks, RunTask(t) PROVE TaskInv(s)'
  <2>1. /\ UNCHANGED <<row, work, asked, agent, planq, planner>>
        /\ session.task = NoTask
        /\ session'.task = t /\ session'.step = "begun" /\ session'.seen = row[t]
        /\ session'.work = work[t][row[t].revision]
        /\ \A p \in Tasks \ {t} : control'[p] = control[p]
    BY <1>1, <1>4, Messages DEF RunTask, NoPass
  <2>2. CASE s # t
    BY <1>2, <2>1, <2>2, OtherTasks
  <2>3. CASE s = t
    <3>1. ClaimKept(t)'
      BY <1>2, <2>1 DEF TaskInv, ClaimKept, PlanComes, Acts, Returns
    <3>2. PlanComes(t)' /\ BusyHasAgent(t)'
      BY <1>2, <2>1 DEF TaskInv, PlanComes, BusyHasAgent
    <3>3. FreshRead(t)'
      BY <2>1 DEF FreshRead
    <3> QED
      BY <2>3, <3>1, <3>2, <3>3 DEF TaskInv
  <2> QED
    BY <2>2, <2>3
<1>6. ASSUME NEW t \in Tasks, session.task = t,
             StartPlanning \/ PassRead \/ PassCancels \/ PassEnds \/ PassDispatches \/ PassWaits
      PROVE  TaskInv(s)'
  <2>1. /\ UNCHANGED <<asked, control, planner>>
        /\ session'.task = t \/ session' = NoPass
    BY <1>6 DEF StartPlanning, PassRead, PassCancels, PassEnds, PassDispatches, PassWaits, Rest,
       queues
  <2>2. NoPass.task = NoTask
    BY DEF NoPass
  <2>3. session' = NoPass => FreshRead(t)'
    BY <1>2, <2>2 DEF FreshRead
  <2>4. ASSUME NEW st \in Statuses, PassWrites(st)
        PROVE  /\ \A p \in Tasks \ {t} : row'[p] = row[p]
               /\ row'[t].revision = row[t].revision
               /\ row'[t].status = IF session.seen.status = st THEN row[t].status ELSE st
    BY <1>1, <1>6, <2>4, StatusWrites DEF PassWrites
  <2>5. ASSUME UNCHANGED row \/ \A p \in Tasks \ {t} : row'[p] = row[p],
               \A p \in Tasks \ {t} : /\ work'[p] = work[p] /\ agent'[p] = agent[p]
                                      /\ planq[p] > 0 => planq'[p] > 0,
               s # t
        PROVE  TaskInv(s)'
    BY <1>2, <1>6, <2>1, <2>2, <2>5, OtherTasks
  <2>6. CASE StartPlanning
    <3>1. session' = NoPass /\ UNCHANGED <<work, agent>>
      BY <2>6 DEF StartPlanning, Rest
    <3>2. CASE AlreadyPlanning(session.seen)
      <4>1. UNCHANGED <<row, planq>> /\ Returns
        BY <2>6, <3>2 DEF StartPlanning, AlreadyPlanning, Returns
      <4>2. ClaimKept(t)'
        BY <1>2, <2>1, <2>2, <3>1, <4>1 DEF TaskInv, ClaimKept, Acts, Works, OwnerIsAsked
      <4>3. PlanComes(t)' /\ BusyHasAgent(t)'
        BY <1>2, <2>1, <3>1, <4>1 DEF TaskInv, PlanComes, BusyHasAgent
      <4> QED
        BY <2>3, <2>5, <3>1, <4>1, <4>2, <4>3 DEF TaskInv
    <3>3. CASE ~AlreadyPlanning(session.seen)
      <4>1. /\ planq' = Send(planq, t)
            /\ PassWrites("PLANNING")
        BY <1>6, <2>6, <3>3 DEF StartPlanning, PassWrites
      <4>2. /\ planq'[t] > 0
            /\ \A p \in Tasks : planq[p] > 0 => planq'[p] > 0
        <5>1. /\ Send(planq, t)[t] > 0
              /\ Send(planq, t) \in [Tasks -> Nat]
              /\ \A p \in Tasks : planq[p] > 0 => Send(planq, t)[p] > 0
          BY <1>1, Messages
        <5> QED
          BY <1>1, <4>1, <5>1
      <4>3. ClaimKept(t)' /\ PlanComes(t)'
        BY <4>2 DEF ClaimKept, PlanComes, Acts
      <4>4. BusyHasAgent(t)'
        BY <1>2, <3>1 DEF TaskInv, BusyHasAgent
      <4>5. \A p \in Tasks \ {t} : row'[p] = row[p]
        BY <1>3, <2>4, <4>1
      <4> QED
        BY <2>3, <2>5, <3>1, <4>2, <4>3, <4>4, <4>5 DEF TaskInv
    <3> QED
      BY <3>2, <3>3
  <2>7. CASE PassRead
    <3>1. /\ UNCHANGED <<row, work, agent, planq>>
          /\ session'.task = t /\ session'.step = "pass" /\ session'.seen = row[t]
          /\ session'.work = work[t][row[t].revision]
      BY <1>6, <2>7 DEF PassRead, queues
    <3>2. ASSUME Returns' PROVE ClaimKept(t)'
      <4>1. work[t][row[t].revision] = "busy"
        BY <3>1, <3>2 DEF Returns
      <4>2. agent[t][row[t].revision].step # "none"
        BY <1>1, <1>2, <4>1 DEF TaskInv, BusyHasAgent
      <4>3. agent[t][row[t].revision].step \in {"none", "sent", "started", "running"}
        BY <1>1 DEF AgentState
      <4> QED
        BY <3>1, <4>1, <4>2, <4>3 DEF ClaimKept, Acts, Works
    <3>3. ClaimKept(t)'
      BY <3>1, <3>2 DEF ClaimKept, Acts
    <3>4. PlanComes(t)' /\ BusyHasAgent(t)' /\ FreshRead(t)'
      BY <1>2, <2>1, <3>1 DEF TaskInv, PlanComes, BusyHasAgent, FreshRead
    <3> QED
      BY <2>5, <3>1, <3>3, <3>4 DEF TaskInv
  <2>8. ASSUME session' = NoPass, UNCHANGED <<agent, planq>>,
               NEW st \in Statuses \ Claims, PassWrites(st),
               \A p \in Tasks \ {t} : work'[p] = work[p],
               \A r \in Revisions : work'[t][r] \in {"none", "busy"} => work'[t][r] = work[t][r]
        PROVE  TaskInv(s)'
    <3>1. /\ \A p \in Tasks \ {t} : row'[p] = row[p]
          /\ row'[t].revision = row[t].revision
          /\ row'[t].status = IF session.seen.status = st THEN row[t].status ELSE st
      BY <2>4, <2>8
    <3>2. row'[t].status \in Claims => control[t] > 0
      BY <1>2, <1>6, <2>8, <3>1 DEF TaskInv, FreshRead
    <3>3. ClaimKept(t)'
      BY <2>1, <3>2 DEF ClaimKept, Acts
    <3>4. PlanComes(t)'
      BY <1>1, <1>2, <2>1, <2>8, <3>1 DEF TaskInv, PlanComes, Claims
    <3>5. BusyHasAgent(t)'
      BY <1>2, <2>8 DEF TaskInv, BusyHasAgent
    <3> QED
      BY <2>3, <2>5, <2>8, <3>1, <3>3, <3>4, <3>5 DEF TaskInv
  <2>9. CASE PassCancels
    <3>1. /\ session' = NoPass /\ UNCHANGED <<agent, planq>> /\ PassWrites("CANCELED")
          /\ \A p \in Tasks \ {t} : work'[p] = work[p]
          /\ \A r \in Revisions : work'[t][r] \in {"none", "busy"} => work'[t][r] = work[t][r]
      BY <1>1, <1>6, <2>9 DEF PassCancels, Rest, queues
    <3> QED
      BY <1>3, <2>8, <3>1 DEF Claims
  <2>10. CASE PassEnds
    <3>1. /\ session' = NoPass /\ UNCHANGED <<agent, planq, work>>
          /\ PassWrites("SUCCEEDED") \/ PassWrites("FAILED")
      BY <2>10 DEF PassEnds, Rest, queues
    <3> QED
      BY <1>3, <2>8, <3>1 DEF Claims
  <2>11. CASE PassDispatches
    <3> DEFINE r == session.seen.revision
    <3>1. /\ session' = NoPass /\ planq' = planq /\ PassWrites("RUNNING")
          /\ work' = [work EXCEPT ![t][r] = "busy"]
          /\ agent' = [agent EXCEPT ![t][r] = Sent]
      BY <1>6, <2>11 DEF PassDispatches, Rest, queues
    <3>2. /\ \A p \in Tasks \ {t} : work'[p] = work[p] /\ agent'[p] = agent[p]
          /\ \A k \in Revisions : k # r => work'[t][k] = work[t][k] /\ agent'[t][k] = agent[t][k]
          /\ work'[t][r] = "busy" /\ agent'[t][r].step = "sent"
      BY <1>1, <3>1 DEF Sent
    <3>3. /\ \A p \in Tasks \ {t} : row'[p] = row[p]
          /\ row'[t].revision = row[t].revision
          /\ row'[t].status = IF session.seen.status = "RUNNING" THEN row[t].status ELSE "RUNNING"
      BY <1>3, <2>4, <3>1
    <3>4. ClaimKept(t)'
      <4>1. CASE control[t] > 0
        BY <2>1, <4>1 DEF ClaimKept, Acts
      <4>2. CASE row[t].revision = r
        BY <3>2, <3>3, <4>2 DEF ClaimKept, Acts, Works
      <4> QED
        BY <1>2, <1>6, <4>1, <4>2 DEF TaskInv, FreshRead
    <3>5. PlanComes(t)'
      BY <1>1, <1>2, <2>1, <3>1, <3>2, <3>3 DEF TaskInv, PlanComes
    <3>6. BusyHasAgent(t)'
      BY <1>1, <1>2, <3>2 DEF TaskInv, BusyHasAgent
    <3> QED
      BY <2>3, <2>5, <3>1, <3>2, <3>3, <3>4, <3>5, <3>6 DEF TaskInv
  <2>12. CASE PassWaits
    <3>1. session' = NoPass /\ UNCHANGED <<agent, planq, work>>
      BY <2>12 DEF PassWaits, Rest, queues
    <3>2. CASE PassWrites("WAITING_APPROVAL")
      BY <1>3, <2>8, <3>1, <3>2 DEF Claims
    <3>3. CASE Pass({"busy"}) /\ UNCHANGED row
      <4>1. Returns
        BY <2>12, <3>3 DEF PassWaits, Pass, Returns
      <4>2. ClaimKept(t)'
        BY <1>2, <2>1, <2>2, <3>1, <3>3, <4>1 DEF TaskInv, ClaimKept, Acts, Works, OwnerIsAsked
      <4>3. PlanComes(t)' /\ BusyHasAgent(t)'
        BY <1>2, <2>1, <3>1, <3>3 DEF TaskInv, PlanComes, BusyHasAgent
      <4> QED
        BY <2>3, <2>5, <3>1, <3>3, <4>2, <4>3 DEF TaskInv
    <3> QED
      BY <2>12, <3>2, <3>3 DEF PassWaits
  <2> QED
    BY <1>6, <2>6, <2>7, <2>9, <2>10, <2>11, <2>12
<1>7. CASE StartPlanning \/ PassRead \/ PassCancels \/ PassEnds \/ PassDispatches \/ PassWaits
  <2>1. session.step # "idle"
    BY <1>7 DEF StartPlanning, PassRead, PassCancels, PassEnds, PassDispatches, PassWaits, Pass
  <2>2. session.task \in Tasks
    BY <1>2, <2>1 DEF TypeOK
  <2> QED
    BY <1>6, <1>7, <2>2
<1> QED
  BY <1>4, <1>7 DEF Control

LEMMA ForgetPlanner ==
  ASSUME IInv, Planner, NEW s \in Tasks
  PROVE  TaskInv(s)'
<1>1. /\ row \in [Tasks -> Row] /\ work \in [Tasks -> [Revisions -> WorkStates]]
      /\ control \in [Tasks -> Nat] /\ planq \in [Tasks -> Nat]
      /\ planner.seen \in Row /\ planner.seen.revision \in Revisions
      /\ planner # NoPlan => planner.task \in Tasks
      /\ \A p \in Tasks : row[p].revision \in Revisions
  BY TypeParts DEF IInv
<1>2. TypeOK /\ (\A p \in Tasks : TaskInv(p)) /\ NoTask \notin Tasks
  BY NamesAreDistinct DEF IInv
<1>3. NoPlan.task = NoTask
  BY DEF NoPlan
<1>4. ASSUME NEW t \in Tasks, PlanRead(t) PROVE TaskInv(s)'
  <2>1. /\ UNCHANGED <<row, work, asked, agent, control, session>>
        /\ planner = NoPlan /\ planner'.task = t /\ planner'.seen = row[t]
        /\ planq' = Take(planq, t)
    BY <1>4 DEF PlanRead
  <2>2. \A p \in Tasks \ {t} : planq'[p] = planq[p]
    BY <1>1, <2>1, Messages
  <2>3. CASE s # t
    BY <1>2, <1>3, <2>1, <2>2, <2>3, OtherTasks
  <2>4. CASE s = t
    <3>1. ClaimKept(t)'
      BY <2>1 DEF ClaimKept, Acts, Claims
    <3>2. PlanComes(t)'
      BY <2>1 DEF PlanComes
    <3>3. BusyHasAgent(t)' /\ FreshRead(t)'
      BY <1>2, <2>1 DEF TaskInv, BusyHasAgent, FreshRead
    <3> QED
      BY <2>4, <3>1, <3>2, <3>3 DEF TaskInv
  <2> QED
    BY <2>3, <2>4
<1>5. CASE PlanPersist
  <2>1. PICK t, r : t = planner.task /\ r = planner.seen.revision
    OBVIOUS
  <2>2. t \in Tasks /\ r \in Revisions
    BY <1>1, <1>5, <2>1 DEF PlanPersist
  <2>3. /\ UNCHANGED <<row, asked, agent, planq, session>> /\ planner' = NoPlan
        /\ control' = Send(control, t)
        /\ work' = [work EXCEPT ![t][r] = IF @ \in {"busy", "waiting"} THEN @ ELSE "ready"]
    BY <1>5, <2>1 DEF PlanPersist
  <2>4. /\ control'[t] > 0
        /\ \A p \in Tasks : control[p] > 0 => control'[p] > 0
    <3>1. /\ Send(control, t)[t] > 0 /\ Send(control, t) \in [Tasks -> Nat]
          /\ \A p \in Tasks : control[p] > 0 => Send(control, t)[p] > 0
      BY <1>1, <2>2, Messages
    <3> QED
      BY <1>1, <2>3, <3>1
  <2>5. /\ \A p \in Tasks \ {t} : work'[p] = work[p]
        /\ \A k \in Revisions : work'[t][k] \in {"none", "busy"} => work'[t][k] = work[t][k]
        /\ work'[t][r] # "none"
    BY <1>1, <2>2, <2>3
  <2>6. CASE s # t
    BY <1>2, <1>3, <2>1, <2>3, <2>4, <2>5, <2>6, OtherTasks
  <2>7. CASE s = t
    <3>1. ClaimKept(t)' /\ FreshRead(t)'
      BY <2>4 DEF ClaimKept, FreshRead, Acts
    <3>2. PlanComes(t)'
      BY <1>1, <1>2, <2>1, <2>2, <2>3, <2>5 DEF TaskInv, PlanComes
    <3>3. BusyHasAgent(t)'
      BY <1>2, <2>2, <2>3, <2>5 DEF TaskInv, BusyHasAgent
    <3> QED
      BY <2>7, <3>1, <3>2, <3>3 DEF TaskInv
  <2> QED
    BY <2>6, <2>7
<1>6. CASE PlanFails
  <2>1. PICK t : t = planner.task
    OBVIOUS
  <2>2. t \in Tasks
    BY <1>1, <1>6, <2>1 DEF PlanFails
  <2>3. /\ UNCHANGED <<work, asked, agent, control, planq, session>> /\ planner' = NoPlan
        /\ Flush(t, planner.seen, [planner.seen EXCEPT !.status = "FAILED"])
    BY <1>6, <2>1 DEF PlanFails, queues
  <2>4. "FAILED" \in Statuses
    BY DEF Statuses, Ended
  <2>5. /\ \A p \in Tasks \ {t} : row'[p] = row[p]
        /\ row'[t].revision = row[t].revision
        /\ row'[t].status = IF planner.seen.status = "FAILED" THEN row[t].status ELSE "FAILED"
    BY <1>1, <2>2, <2>3, <2>4, StatusWrites
  <2>6. CASE s # t
    BY <1>2, <1>3, <2>1, <2>3, <2>5, <2>6, OtherTasks
  <2>7. CASE s = t
    <3>1. row'[t].status \in Claims =>
            planner.seen.status = "FAILED" /\ row'[t].status = row[t].status
      BY <2>5 DEF Claims
    <3>2. ClaimKept(t)'
      BY <1>2, <2>2, <2>3, <2>5, <3>1
         DEF TaskInv, ClaimKept, Acts, Works, Returns, OwnerIsAsked
    <3>3. PlanComes(t)'
      BY <1>2, <2>2, <2>3, <2>5, <3>1 DEF TaskInv, PlanComes, Claims
    <3>4. BusyHasAgent(t)' /\ FreshRead(t)'
      BY <1>2, <2>2, <2>3, <2>5, <3>1 DEF TaskInv, BusyHasAgent, FreshRead
    <3> QED
      BY <2>7, <3>2, <3>3, <3>4 DEF TaskInv
  <2> QED
    BY <2>6, <2>7
<1> QED
  BY <1>4, <1>5, <1>6 DEF Planner

LEMMA ForgetAgent ==
  ASSUME IInv, NEW t \in Tasks, NEW r \in Revisions, Agent(t, r), NEW s \in Tasks
  PROVE  TaskInv(s)'
<1>1. /\ row \in [Tasks -> Row] /\ work \in [Tasks -> [Revisions -> WorkStates]]
      /\ control \in [Tasks -> Nat] /\ asked \in [Tasks -> SUBSET Revisions]
      /\ agent \in [Tasks -> [Revisions -> AgentState]]
      /\ row[t].revision \in Revisions
  BY TypeParts DEF IInv
<1>2. TypeOK /\ TaskInv(s) /\ TaskInv(t)
  BY DEF IInv
<1>3. UNCHANGED <<planq, planner, session>>
  BY DEF Agent, AgentStart, AgentRound, AgentEnds, AgentNoticesCancel, AgentAsks, queues, workers
<1>4. ASSUME NEW a, agent' = [agent EXCEPT ![t][r] = a]
      PROVE  /\ \A p \in Tasks \ {t} : agent'[p] = agent[p]
             /\ \A k \in Revisions : agent'[t][k] = IF k = r THEN a ELSE agent[t][k]
  BY <1>1, <1>4
<1>5. ASSUME NEW w, work' = [work EXCEPT ![t][r] = w]
      PROVE  /\ \A p \in Tasks \ {t} : work'[p] = work[p]
             /\ \A k \in Revisions : work'[t][k] = IF k = r THEN w ELSE work[t][k]
  BY <1>1, <1>5
<1>6. CASE AgentStart(t, r)
  <2>1. UNCHANGED <<row, work, asked, control>> /\ agent[t][r].step = "sent"
    BY <1>6 DEF AgentStart, At, queues
  <2>2. CASE work[t][r] = "busy"
    <3>1. agent' = [agent EXCEPT ![t][r] = Started] /\ Started.step = "started"
      BY <1>6, <2>2 DEF AgentStart, Started
    <3>2. CASE s # t
      BY <1>2, <1>3, <1>4, <2>1, <3>1, <3>2, OtherTasks
    <3>3. CASE s = t
      <4>1. ClaimKept(t)'
        BY <1>1, <1>2, <1>3, <1>4, <2>1, <3>1
           DEF TaskInv, ClaimKept, Acts, Works, Returns, OwnerIsAsked
      <4>2. PlanComes(t)' /\ BusyHasAgent(t)' /\ FreshRead(t)'
        BY <1>2, <1>3, <1>4, <2>1, <3>1 DEF TaskInv, PlanComes, BusyHasAgent, FreshRead
      <4> QED
        BY <3>3, <4>1, <4>2 DEF TaskInv
    <3> QED
      BY <3>2, <3>3
  <2>3. CASE work[t][r] # "busy"
    <3>1. agent' = [agent EXCEPT ![t][r] = NoAgent]
      BY <1>6, <2>3 DEF AgentStart, Leave
    <3>2. CASE s # t
      BY <1>2, <1>3, <1>4, <2>1, <3>1, <3>2, OtherTasks
    <3>3. CASE s = t
      <4>1. ClaimKept(t)'
        BY <1>1, <1>2, <1>3, <1>4, <2>1, <2>3, <3>1
           DEF TaskInv, ClaimKept, Acts, Works, Returns, OwnerIsAsked
      <4>2. PlanComes(t)' /\ BusyHasAgent(t)' /\ FreshRead(t)'
        BY <1>2, <1>3, <1>4, <2>1, <2>3, <3>1 DEF TaskInv, PlanComes, BusyHasAgent, FreshRead
      <4> QED
        BY <3>3, <4>1, <4>2 DEF TaskInv
    <3> QED
      BY <3>2, <3>3
  <2> QED
    BY <2>2, <2>3
<1>7. CASE AgentRound(t, r)
  <2>1. UNCHANGED <<row, work, asked, control>>
    BY <1>7 DEF AgentRound, queues
  <2>2. PICK a : a.step = "running" /\ agent' = [agent EXCEPT ![t][r] = a]
    BY <1>7 DEF AgentRound
  <2>3. CASE s # t
    BY <1>2, <1>3, <1>4, <2>1, <2>2, <2>3, OtherTasks
  <2>4. CASE s = t
    <3>1. ClaimKept(t)'
      BY <1>1, <1>2, <1>3, <1>4, <2>1, <2>2
         DEF TaskInv, ClaimKept, Acts, Works, Returns, OwnerIsAsked
    <3>2. PlanComes(t)' /\ BusyHasAgent(t)' /\ FreshRead(t)'
      BY <1>2, <1>3, <1>4, <2>1, <2>2 DEF TaskInv, PlanComes, BusyHasAgent, FreshRead
    <3> QED
      BY <2>4, <3>1, <3>2 DEF TaskInv
  <2> QED
    BY <2>3, <2>4
<1>8. CASE AgentEnds(t, r) \/ AgentNoticesCancel(t, r)
  <2>1. /\ UNCHANGED <<row, asked>> /\ control' = Send(control, t)
        /\ agent' = [agent EXCEPT ![t][r] = NoAgent]
    BY <1>8 DEF AgentEnds, AgentNoticesCancel, Leave
  <2>2. PICK w \in {"ready", "done", "failed", "closed"} : work' = [work EXCEPT ![t][r] = w]
    BY <1>8 DEF AgentEnds, AgentNoticesCancel
  <2>3. /\ control'[t] > 0
        /\ \A p \in Tasks : control[p] > 0 => control'[p] > 0
    <3>1. /\ Send(control, t)[t] > 0 /\ Send(control, t) \in [Tasks -> Nat]
          /\ \A p \in Tasks : control[p] > 0 => Send(control, t)[p] > 0
      BY <1>1, Messages
    <3> QED
      BY <1>1, <2>1, <3>1
  <2>4. CASE s # t
    BY <1>2, <1>3, <1>4, <1>5, <2>1, <2>2, <2>3, <2>4, OtherTasks
  <2>5. CASE s = t
    <3>1. ClaimKept(t)' /\ FreshRead(t)'
      BY <2>3 DEF ClaimKept, Acts, FreshRead
    <3>2. PlanComes(t)'
      BY <1>1, <1>2, <1>3, <1>5, <2>1, <2>2 DEF TaskInv, PlanComes
    <3>3. BusyHasAgent(t)'
      <4>1. work'[t][r] # "busy"
        BY <1>5, <2>2
      <4>2. \A k \in Revisions \ {r} : work'[t][k] = work[t][k] /\ agent'[t][k] = agent[t][k]
        BY <1>4, <1>5, <2>1, <2>2
      <4> QED
        BY <1>2, <4>1, <4>2 DEF TaskInv, BusyHasAgent
    <3> QED
      BY <2>5, <3>1, <3>2, <3>3 DEF TaskInv
  <2> QED
    BY <2>4, <2>5
<1>9. CASE AgentAsks(t, r)
  <2>1. /\ UNCHANGED control
        /\ agent' = [agent EXCEPT ![t][r] = NoAgent]
        /\ work' = [work EXCEPT ![t][r] = "waiting"]
        /\ asked' = [asked EXCEPT ![t] = @ \cup {r}]
    BY <1>9 DEF AgentAsks, Leave, queues
  <2>2. /\ \A p \in Tasks \ {t} : row'[p] = row[p]
        /\ row'[t].revision = row[t].revision
        /\ row'[t].status = row[t].status \/ row'[t].status = "WAITING_APPROVAL"
    BY <1>1, <1>9 DEF AgentAsks, Row
  <2>3. /\ \A p \in Tasks \ {t} : asked'[p] = asked[p]
        /\ asked'[t] = asked[t] \cup {r}
    BY <1>1, <2>1
  <2>4. CASE s # t
    BY <1>2, <1>3, <1>4, <1>5, <2>1, <2>2, <2>3, <2>4, OtherTasks
  <2>5. CASE s = t
    <3>1. ClaimKept(t)'
      <4>1. CASE row[t].revision = r
        <5>1. work'[t][r] = "waiting"
          BY <1>5, <2>1
        <5> QED
          BY <2>2, <2>3, <4>1, <5>1 DEF ClaimKept, OwnerIsAsked
      <4>2. CASE row[t].revision # r
        BY <1>1, <1>2, <1>3, <1>4, <1>5, <2>1, <2>2, <2>3, <4>2
           DEF TaskInv, ClaimKept, Acts, Works, Returns, OwnerIsAsked, Claims
      <4> QED
        BY <4>1, <4>2
    <3>2. PlanComes(t)'
      BY <1>1, <1>2, <1>3, <1>5, <2>1, <2>2 DEF TaskInv, PlanComes
    <3>3. BusyHasAgent(t)'
      <4>1. work'[t][r] = "waiting"
        BY <1>5, <2>1
      <4>2. \A k \in Revisions \ {r} : work'[t][k] = work[t][k] /\ agent'[t][k] = agent[t][k]
        BY <1>4, <1>5, <2>1
      <4> QED
        BY <1>2, <4>1, <4>2 DEF TaskInv, BusyHasAgent
    <3>4. FreshRead(t)'
      BY <1>2, <1>3, <2>1, <2>2 DEF TaskInv, FreshRead, Claims
    <3> QED
      BY <2>5, <3>1, <3>2, <3>3, <3>4 DEF TaskInv
  <2> QED
    BY <2>4, <2>5
<1> QED
  BY <1>6, <1>7, <1>8, <1>9 DEF Agent

LEMMA ForgetStep == IInv /\ [Next]_vars => IInv'
<1> SUFFICES ASSUME IInv, [Next]_vars PROVE IInv'
  OBVIOUS
<1>1. TypeOK' /\ NewRoundsFollowEnds'
  BY TypeStep, RoundsStep DEF IInv
<1>2. ASSUME NEW s \in Tasks,
             UNCHANGED <<row, work, plans, asked, agent, queues, workers>>
      PROVE  TaskInv(s)'
  BY <1>2, OtherTasks DEF IInv, queues, workers
<1>3. ASSUME NEW s \in Tasks PROVE TaskInv(s)'
  <2>1. ASSUME NEW q \in Requests, NEW u \in Users, NEW t \in Tasks, User(q, u, t)
        PROVE  TaskInv(s)'
    BY <1>2, <2>1 DEF User, CreateBegin, ChangeBegin, MessageBegin, DecideBegin, Receive
  <2>2. ASSUME NEW q \in Requests, Admit(q) PROVE TaskInv(s)'
    BY <1>2, <2>2 DEF Admit
  <2>3. CASE UNCHANGED vars
    BY <1>2, <2>3 DEF vars, queues, workers
  <2> QED
    BY <2>1, <2>2, <2>3, ForgetHandle, ForgetSupervise, ForgetControl, ForgetPlanner, ForgetAgent
       DEF Next, Handle
<1> QED
  BY <1>1, <1>3 DEF IInv

LEMMA ActingIsInHand ==
  ASSUME IInv
  PROVE  NobodyIsForgotten
<1>1. ASSUME NEW t \in Tasks, Acts(t) PROVE InHand(t)
  BY <1>1, TypeParts DEF IInv, Acts, Works, InHand, NoAgent
<1> QED
  BY <1>1 DEF IInv, TaskInv, ClaimKept, Claims, NobodyIsForgotten

(* A task that claims to be queued, planned or executed is in somebody's    *)
(* hand, or its owner is asked (NobodyIsForgotten): no early return, stale *)
(* write or lost race of the handlers strands it.                          *)
THEOREM NobodyIsForgottenCorrect == Spec => []NobodyIsForgotten
<1> QED
  BY ForgetInit, ForgetStep, ActingIsInHand, PTL DEF Spec
=============================================================================
