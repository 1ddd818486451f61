--------------------------- MODULE ApprovalsProofs ---------------------------
(* Proofs about Approvals for any number of Agents, workers and calls, and *)
(* any budget.                                                             *)
EXTENDS Approvals, FiniteSetTheorems, WellFoundedInduction, SequenceTheorems, TLAPS

ApprovalRow == [call : Calls, owner : Nodes, status : ApprovalStatus, consumed : BOOLEAN]

(* A non-empty set of positions of a sequence has a last one. *)
LEMMA LastPosition ==
  ASSUME NEW k \in Nat, NEW S, S \subseteq 1..k, S # {}
  PROVE  \E i \in S : \A j \in S : j <= i
<1> DEFINE T == {k - i : i \in S}
<1>1. T \subseteq Nat /\ T # {}
  <2>1. \A i \in S : i \in 1..k /\ k - i \in Nat
    OBVIOUS
  <2> QED
    BY <2>1
<1>2. PICK x \in T : \A y \in T : ~(<<y, x>> \in OpToRel(<, Nat))
  BY <1>1, NatLessThanWellFounded, WFMin, Zenon
<1>3. \A y \in T : ~(y < x)
  BY <1>1, <1>2 DEF OpToRel
<1> HIDE DEF T
<1>4. PICK i \in S : x = k - i
  BY <1>2 DEF T
<1>5. \A j \in S : k - j \in T
  BY DEF T
<1> QED
  BY <1>3, <1>4, <1>5

(* What ApprovalState takes its answer from is an approval that speaks of the call. *)
LEMMA NewestSpeaks ==
  ASSUME NEW c, approvals \in Seq(ApprovalRow), Speaking(c) # {}
  PROVE  Newest(c) \in Speaking(c) /\ Newest(c) \in 1..Len(approvals)
<1>1. Speaking(c) \subseteq 1..Len(approvals) /\ Len(approvals) \in Nat
  BY DEF Speaking
<1>2. \E i \in Speaking(c) : \A j \in Speaking(c) : j <= i
  BY <1>1, LastPosition
<1> QED
  BY <1>1, <1>2 DEF Newest

(* Changing one field of one row keeps the sequence of rows. *)
LEMMA Consumed ==
  ASSUME NEW D, NEW s \in [D -> ApprovalRow], NEW i \in D
  PROVE  [s EXCEPT ![i].consumed = TRUE] \in [D -> ApprovalRow]
BY DEF ApprovalRow

LEMMA Answered ==
  ASSUME NEW D, NEW s \in [D -> ApprovalRow], NEW i \in D, NEW st \in ApprovalStatus
  PROVE  [s EXCEPT ![i].status = st] \in [D -> ApprovalRow]
BY DEF ApprovalRow

LEMMA SameLength ==
  ASSUME NEW S, NEW s \in Seq(S), NEW t \in [DOMAIN s -> S]
  PROVE  t \in Seq(S) /\ Len(t) = Len(s)
OBVIOUS
-----------------------------------------------------------------------------
(* The type invariant. *)
LEMMA TypeInit == Init => TypeOK
<1> SUFFICES ASSUME Init PROVE TypeOK
  OBVIOUS
<1>1. approvals = <<>> /\ uses = <<>> /\ Len(approvals) = 0 /\ Len(uses) = 0
  BY DEF Init
<1>2. Free \in SessionRow /\ Free.step = "free" /\ Free.approval = 0
  BY DEF Free, SessionRow
<1>3. \A w \in Workers : session[w] = Free
  BY DEF Init
<1>4. session \in [Workers -> SessionRow]
  BY <1>2 DEF Init
<1>5. \A q \in Requests : request[q] = NoRequest /\ NoRequest.approval = 0
  BY DEF Init, NoRequest
<1>6. request \in [Requests -> [approval : Nat, decision : Decisions, waiting : BOOLEAN]]
  BY DEF Init, NoRequest, Decisions
<1>7. node \in [Nodes -> NodeStatus] /\ waitsFor \in [Nodes -> 0..Len(approvals)]
  BY <1>1 DEF Init, NodeStatus
<1>8. \A n \in Nodes : node[n] = "READY"
  BY DEF Init
<1>9. toolCalls \in Nat
  BY DEF Init
<1> QED
  BY <1>1, <1>2, <1>3, <1>4, <1>5, <1>6, <1>7, <1>8, <1>9 DEF TypeOK, ApprovalStatus

(* The part of TypeOK that speaks of one worker. *)
WorkerOK(s, len) ==
  /\ s \in SessionRow
  /\ s.step # "free" => s.node \in Nodes
  /\ s.step \in {"counted", "decided", "running"} => s.call \in Calls
  /\ s.approval \in 0..len
  /\ s.step = "decided" /\ s.state \in ApprovalStatus => s.approval # 0

RequestOK(r, len) ==
  /\ r \in [approval : Nat, decision : Decisions, waiting : BOOLEAN]
  /\ r.approval \in 0..len
  /\ r # NoRequest => r.approval # 0

RowsOK ==
  /\ approvals \in Seq(ApprovalRow) /\ uses \in Seq(Nat) /\ Len(uses) = Len(approvals)
  /\ node \in [Nodes -> NodeStatus]
  /\ waitsFor \in [Nodes -> 0..Len(approvals)]
  /\ \A n \in Nodes : node[n] = "WAITING" => waitsFor[n] # 0
  /\ toolCalls \in Nat

PartsOK ==
  /\ RowsOK
  /\ session = [w \in Workers |-> session[w]]
  /\ \A w \in Workers : WorkerOK(session[w], Len(approvals))
  /\ request = [q \in Requests |-> request[q]]
  /\ \A q \in Requests : RequestOK(request[q], Len(approvals))

LEMMA TypeParts == TypeOK <=> PartsOK
<1>1. TypeOK => PartsOK
  BY DEF PartsOK, TypeOK, RowsOK, WorkerOK, RequestOK, ApprovalRow
<1>2. ASSUME PartsOK PROVE TypeOK
  <2>1. session \in [Workers -> SessionRow]
    BY <1>2 DEF PartsOK, WorkerOK
  <2>2. request \in [Requests -> [approval : Nat, decision : Decisions, waiting : BOOLEAN]]
    BY <1>2 DEF PartsOK, RequestOK
  <2>3. \A w \in Workers :
          /\ session[w].step # "free" => session[w].node \in Nodes
          /\ session[w].step \in {"counted", "decided", "running"} => session[w].call \in Calls
          /\ session[w].approval \in 0..Len(approvals)
          /\ session[w].step = "decided" /\ session[w].state \in ApprovalStatus =>
               session[w].approval # 0
    BY <1>2 DEF PartsOK, WorkerOK
  <2>4. \A q \in Requests : /\ request[q].approval \in 0..Len(approvals)
                            /\ request[q] # NoRequest => request[q].approval # 0
    BY <1>2 DEF PartsOK, RequestOK
  <2> QED
    BY <1>2, <2>1, <2>2, <2>3, <2>4 DEF PartsOK, TypeOK, RowsOK, ApprovalRow
<1> QED
  BY <1>1, <1>2

(* Only one worker's session changes, to an admissible one. *)
Moves(w, len) ==
  /\ session' = [v \in Workers |-> session'[v]]
  /\ \A v \in Workers \ {w} : session'[v] = session[v]
  /\ WorkerOK(session'[w], len)

LEMMA MoveKeepsSessions ==
  ASSUME PartsOK, NEW w \in Workers, NEW len \in Nat, Len(approvals) <= len, Moves(w, len)
  PROVE  /\ session' = [v \in Workers |-> session'[v]]
         /\ \A v \in Workers : WorkerOK(session'[v], len)
<1>1. Len(approvals) \in Nat
  BY DEF PartsOK, RowsOK
<1>2. \A v \in Workers \ {w} : WorkerOK(session'[v], len)
  <2> TAKE v \in Workers \ {w}
  <2>1. session'[v] = session[v] /\ WorkerOK(session[v], Len(approvals))
    BY DEF Moves, PartsOK
  <2>2. \A i : i \in 0..Len(approvals) => i \in 0..len
    BY <1>1
  <2> QED
    BY <2>1, <2>2 DEF WorkerOK
<1> QED
  BY <1>2 DEF Moves

LEMMA FreeOK == \A len \in Nat : WorkerOK(Free, len)
BY DEF WorkerOK, Free, SessionRow

LEMMA ThinkingOK ==
  ASSUME NEW len \in Nat, NEW n \in Nodes
  PROVE  WorkerOK(Thinking(n), len)
<1> DEFINE s == Thinking(n)
<1>1. s.step = "thinking" /\ s.node = n /\ s.approval = 0 /\ s \in SessionRow
  BY DEF Thinking, SessionRow
<1> HIDE DEF s
<1>2. WorkerOK(s, len)
  BY <1>1 DEF WorkerOK
<1> QED
  BY <1>2 DEF s

LEMMA LeaveMoves ==
  ASSUME PartsOK, NEW w \in Workers, NEW len \in Nat, Leave(w)
  PROVE  Moves(w, len)
BY FreeOK DEF PartsOK, Moves, Leave

LEMMA ResumeMoves ==
  ASSUME PartsOK, NEW w \in Workers, NEW len \in Nat, ~At(w, "free"), Resume(w)
  PROVE  Moves(w, len)
<1>1. session[w].node \in Nodes
  BY DEF PartsOK, WorkerOK, At
<1>2. session'[w] = Thinking(session[w].node)
  BY DEF PartsOK, Resume
<1>3. WorkerOK(session'[w], len)
  BY <1>1, <1>2, ThinkingOK
<1> QED
  BY <1>3 DEF PartsOK, Moves, Resume

(* What an action must leave in order: the rows, one session, the requests. *)
LEMMA PartsStep ==
  ASSUME PartsOK, NEW w \in Workers, RowsOK', Len(approvals) <= Len(approvals)',
         Moves(w, Len(approvals)') \/ session' = session,
         UNCHANGED request
  PROVE  PartsOK'
<1>1. Len(approvals) \in Nat /\ Len(approvals)' \in Nat
  BY DEF PartsOK, RowsOK
<1>2. \A i : i \in 0..Len(approvals) => i \in 0..Len(approvals)'
  BY <1>1
<1>3. \A q \in Requests : RequestOK(request[q], Len(approvals)')
  BY <1>2 DEF PartsOK, RequestOK
<1>4. \A v \in Workers : WorkerOK(session[v], Len(approvals)')
  BY <1>2 DEF PartsOK, WorkerOK
<1>5. /\ session' = [v \in Workers |-> session'[v]]
      /\ \A v \in Workers : WorkerOK(session'[v], Len(approvals)')
  BY <1>1, <1>4, MoveKeepsSessions DEF PartsOK
<1> QED
  BY <1>3, <1>5 DEF PartsOK

LEMMA SameRows ==
  ASSUME PartsOK, UNCHANGED <<node, approvals, uses, waitsFor>>, toolCalls' \in Nat
  PROVE  RowsOK' /\ Len(approvals) <= Len(approvals)'
BY DEF PartsOK, RowsOK

LEMMA NodeRows ==
  ASSUME PartsOK, UNCHANGED <<approvals, uses, waitsFor>>, toolCalls' \in Nat,
         NEW n \in Nodes, NEW st \in NodeStatus \ {"WAITING"}, SetNode(n, st)
  PROVE  RowsOK' /\ Len(approvals) <= Len(approvals)'
BY DEF PartsOK, RowsOK, SetNode

LEMMA WaitRows ==
  ASSUME PartsOK, UNCHANGED <<approvals, uses>>, toolCalls' \in Nat,
         NEW n \in Nodes, SetNode(n, "WAITING"),
         NEW i \in 1..Len(approvals), waitsFor' = [waitsFor EXCEPT ![n] = i]
  PROVE  RowsOK' /\ Len(approvals) <= Len(approvals)'
BY DEF PartsOK, RowsOK, SetNode, NodeStatus

LEMMA TypeStep == PartsOK /\ [Next]_vars => PartsOK'
<1> SUFFICES ASSUME PartsOK, [Next]_vars PROVE PartsOK'
  OBVIOUS
<1> DEFINE len == Len(approvals)
<1>0. len \in Nat /\ toolCalls \in Nat /\ toolCalls + 1 \in Nat
  BY DEF PartsOK, RowsOK
<1>n. ASSUME NEW w \in Workers, ~At(w, "free")
      PROVE  session[w].node \in Nodes
  BY <1>n DEF PartsOK, WorkerOK, At
<1>1. ASSUME NEW w \in Workers, NEW n \in Nodes, Start(w, n) PROVE PartsOK'
  <2>1. session'[w] = Thinking(n)
    BY <1>1 DEF PartsOK, Start
  <2>2. Moves(w, len)
    BY <1>0, <1>1, <2>1, ThinkingOK DEF PartsOK, Moves, Start
  <2>3. RowsOK' /\ len <= Len(approvals)'
    BY <1>0, <1>1, NodeRows DEF Start, NodeStatus
  <2> QED
    BY <1>1, <2>2, <2>3, PartsStep DEF Start
<1>2. ASSUME NEW w \in Workers, Finish(w) PROVE PartsOK'
  <2>1. ~At(w, "free")
    BY <1>2 DEF Finish, At
  <2>2. RowsOK' /\ len <= Len(approvals)'
    BY <1>0, <1>2, <2>1, <1>n, NodeRows DEF Finish, NodeStatus
  <2>3. Moves(w, len)
    BY <1>0, <1>2, LeaveMoves DEF Finish
  <2> QED
    BY <1>2, <2>2, <2>3, PartsStep DEF Finish
<1>3. ASSUME NEW w \in Workers, NEW c \in Calls, CountCalls(w, c) PROVE PartsOK'
  <2>1. ~At(w, "free")
    BY <1>3 DEF CountCalls, At
  <2>2. CASE HasBudget
    <3>1. WorkerOK(session'[w], len)
      <4>1. session'[w] = [session[w] EXCEPT !.step = "counted", !.call = c]
        BY <1>3, <2>2 DEF CountCalls, PartsOK
      <4>2. WorkerOK(session[w], len)
        BY DEF PartsOK
      <4> QED
        BY <4>1, <4>2, <2>1 DEF WorkerOK, SessionRow, At
    <3>2. Moves(w, len)
      BY <1>3, <2>2, <3>1 DEF CountCalls, PartsOK, Moves
    <3>3. RowsOK' /\ len <= Len(approvals)'
      BY <1>0, <1>3, <2>2, SameRows DEF CountCalls
    <3> QED
      BY <1>3, <3>2, <3>3, PartsStep DEF CountCalls
  <2>3. CASE ~HasBudget
    <3>1. Moves(w, len)
      BY <1>0, <1>3, <2>3, LeaveMoves DEF CountCalls
    <3>2. RowsOK' /\ len <= Len(approvals)'
      BY <1>0, <1>3, <2>1, <2>3, <1>n, NodeRows DEF CountCalls, NodeStatus
    <3> QED
      BY <1>3, <3>1, <3>2, PartsStep DEF CountCalls
  <2> QED
    BY <2>2, <2>3
<1>4. ASSUME NEW w \in Workers, ReadApprovals(w) PROVE PartsOK'
  <2> DEFINE c == session[w].call
             st == ApprovalState(c)
  <2>1. c \in Calls /\ WorkerOK(session[w], len)
    BY <1>4 DEF ReadApprovals, PartsOK, WorkerOK, At
  <2>2. /\ st \in Granted \cup ApprovalStatus \cup {"new"}
        /\ st \in ApprovalStatus => Newest(c) \in 1..len
    <3>1. ASSUME Speaking(c) # {}
          PROVE  approvals[Newest(c)].status \in ApprovalStatus /\ Newest(c) \in 1..len
      <4>1. approvals \in Seq(ApprovalRow)
        BY DEF PartsOK, RowsOK
      <4>2. Newest(c) \in 1..len
        BY <3>1, <4>1, NewestSpeaks
      <4>3. approvals[Newest(c)] \in ApprovalRow
        BY <4>1, <4>2
      <4> QED
        BY <4>2, <4>3 DEF ApprovalRow
    <3>2. c \in Risky \ AutoApproved /\ Speaking(c) = {} => st = "new"
      BY DEF ApprovalState
    <3>3. c \notin Risky => st = "not_needed"
      BY CallsAreClassified DEF ApprovalState
    <3>4. c \in AutoApproved => st = "yolo"
      BY CallsAreClassified DEF ApprovalState
    <3>5. c \in Risky \ AutoApproved /\ Speaking(c) # {} => st = approvals[Newest(c)].status
      BY DEF ApprovalState
    <3> QED
      BY <3>1, <3>2, <3>3, <3>4, <3>5 DEF ApprovalStatus, Granted
  <2> HIDE DEF st
  <2>3. session'[w] = [session[w] EXCEPT !.step = "decided", !.state = st,
                         !.approval = IF st \in ApprovalStatus THEN Newest(c) ELSE 0]
    BY <1>4 DEF ReadApprovals, PartsOK, st
  <2>4. WorkerOK(session'[w], len)
    <3> DEFINE i == IF st \in ApprovalStatus THEN Newest(c) ELSE 0
    <3>1. i \in 0..len /\ i \in Nat /\ (st \in ApprovalStatus => i # 0)
      BY <1>0, <2>2
    <3> HIDE DEF i
    <3>2. session[w].node \in Nodes /\ session[w] \in SessionRow
      BY <1>4, <2>1 DEF WorkerOK, ReadApprovals, At
    <3>3. session'[w] = [session[w] EXCEPT !.step = "decided", !.state = st, !.approval = i]
      BY <2>3 DEF i
    <3>4. session'[w] = [step |-> "decided", node |-> session[w].node, call |-> c,
                         state |-> st, approval |-> i]
      BY <3>2, <3>3 DEF SessionRow
    <3>5. session'[w] \in SessionRow
      BY <2>1, <2>2, <3>1, <3>2, <3>4 DEF SessionRow
    <3> QED
      BY <2>1, <3>1, <3>2, <3>4, <3>5 DEF WorkerOK
  <2>5. Moves(w, len)
    BY <1>4, <2>4 DEF ReadApprovals, PartsOK, Moves
  <2>6. RowsOK' /\ len <= Len(approvals)'
    BY <1>0, <1>4, SameRows DEF ReadApprovals
  <2> QED
    BY <1>4, <2>5, <2>6, PartsStep DEF ReadApprovals
<1>5. ASSUME NEW w \in Workers, JoinPending(w) PROVE PartsOK'
  <2>1. session[w].node \in Nodes /\ session[w].approval \in 1..len
    BY <1>0, <1>5 DEF JoinPending, Decided, At, PartsOK, WorkerOK, ApprovalStatus
  <2>2. RowsOK' /\ len <= Len(approvals)'
    BY <1>0, <1>5, <2>1, WaitRows DEF JoinPending
  <2>3. Moves(w, len)
    BY <1>0, <1>5, LeaveMoves DEF JoinPending
  <2> QED
    BY <1>5, <2>2, <2>3, PartsStep DEF JoinPending
<1>6. ASSUME NEW w \in Workers, RequestApproval(w) PROVE PartsOK'
  <2> DEFINE row == [call |-> session[w].call, owner |-> session[w].node,
                     status |-> "PENDING", consumed |-> FALSE]
  <2>1. session[w].node \in Nodes /\ session[w].call \in Calls
    BY <1>6 DEF RequestApproval, Decided, At, PartsOK, WorkerOK
  <2>2. row \in ApprovalRow
    BY <2>1 DEF ApprovalRow, ApprovalStatus
  <2> HIDE DEF row
  <2>3. approvals' = Append(approvals, row) /\ uses' = Append(uses, 0)
    BY <1>6 DEF RequestApproval, row
  <2>4. /\ approvals' \in Seq(ApprovalRow) /\ Len(approvals') = len + 1
        /\ uses' \in Seq(Nat) /\ Len(uses') = len + 1
    BY <2>2, <2>3 DEF PartsOK, RowsOK
  <2>5. \A i : i \in 0..len => i \in 0..len + 1
    BY <1>0
  <2>6. waitsFor' = [waitsFor EXCEPT ![session[w].node] = len + 1] /\ len + 1 \in 0..len + 1
    BY <1>0, <1>6 DEF RequestApproval
  <2>7. waitsFor' \in [Nodes -> 0..len + 1]
    BY <2>5, <2>6 DEF PartsOK, RowsOK
  <2>8. SetNode(session[w].node, "WAITING")
    BY <1>6 DEF RequestApproval
  <2>9. node' \in [Nodes -> NodeStatus] /\ \A n \in Nodes : node'[n] = "WAITING" => waitsFor'[n] # 0
    BY <1>0, <2>1, <2>6, <2>8 DEF PartsOK, RowsOK, SetNode, NodeStatus
  <2>10. RowsOK' /\ len <= Len(approvals)'
    BY <1>0, <1>6, <2>4, <2>7, <2>9 DEF RequestApproval, RowsOK
  <2>11. Moves(w, Len(approvals)')
    BY <1>0, <1>6, <2>4, LeaveMoves DEF RequestApproval
  <2> QED
    BY <1>6, <2>10, <2>11, PartsStep DEF RequestApproval
<1>7. ASSUME NEW w \in Workers, Refused(w) PROVE PartsOK'
  <2>1. ~At(w, "free")
    BY <1>7 DEF Refused, Decided, At
  <2>2. Moves(w, len)
    BY <1>0, <1>7, <2>1, ResumeMoves DEF Refused
  <2>3. RowsOK' /\ len <= Len(approvals)'
    BY <1>0, <1>7, SameRows DEF Refused
  <2> QED
    BY <1>7, <2>2, <2>3, PartsStep DEF Refused
<1>8. ASSUME NEW w \in Workers, RunTool(w) PROVE PartsOK'
  <2> DEFINE i == session[w].approval
  <2>1. /\ WorkerOK(session[w], len) /\ At(w, "decided")
        /\ session[w].state = "APPROVED_ONCE" => i \in 1..len
    BY <1>0, <1>8 DEF RunTool, Decided, At, PartsOK, WorkerOK, ApprovalStatus
  <2>2. approvals' \in Seq(ApprovalRow) /\ Len(approvals') = len
    <3>1. CASE session[w].state = "APPROVED_ONCE"
      <4>1. approvals \in [1..len -> ApprovalRow] /\ approvals \in Seq(ApprovalRow)
        BY DEF PartsOK, RowsOK
      <4>2. approvals' = [approvals EXCEPT ![i].consumed = TRUE]
        BY <1>8, <3>1 DEF RunTool
      <4>3. approvals' \in [1..len -> ApprovalRow]
        BY <2>1, <3>1, <4>1, <4>2, Consumed
      <4> QED
        BY <4>1, <4>3, SameLength
    <3>2. CASE session[w].state # "APPROVED_ONCE"
      BY <1>8, <3>2 DEF RunTool, PartsOK, RowsOK
    <3> QED
      BY <3>1, <3>2
  <2>3. uses' \in Seq(Nat) /\ Len(uses') = len
    <3>1. CASE i = 0
      BY <1>8, <3>1 DEF RunTool, PartsOK, RowsOK
    <3>2. CASE i # 0
      <4>1. uses' = [uses EXCEPT ![i] = @ + 1] /\ uses \in [1..len -> Nat] /\ uses \in Seq(Nat)
        BY <1>8, <3>2 DEF RunTool, PartsOK, RowsOK
      <4>2. i \in 1..len /\ uses[i] + 1 \in Nat
        BY <1>0, <2>1, <3>2, <4>1 DEF WorkerOK
      <4>3. uses' \in [1..len -> Nat]
        BY <4>1, <4>2
      <4> QED
        BY <4>1, <4>3, SameLength DEF PartsOK, RowsOK
    <3> QED
      BY <3>1, <3>2
  <2>4. RowsOK' /\ len <= Len(approvals)'
    BY <1>0, <1>8, <2>2, <2>3 DEF RunTool, PartsOK, RowsOK
  <2>5. session'[w] = [session[w] EXCEPT !.step = "running"]
    BY <1>8 DEF RunTool, Goto, PartsOK
  <2>6. WorkerOK(session'[w], len)
    BY <2>1, <2>5 DEF WorkerOK, SessionRow, At
  <2>7. Moves(w, Len(approvals)')
    BY <1>8, <2>2, <2>6 DEF RunTool, Goto, PartsOK, Moves
  <2> QED
    BY <1>8, <2>4, <2>7, PartsStep DEF RunTool
<1>9. ASSUME NEW w \in Workers, ToolReturns(w) PROVE PartsOK'
  <2>1. ~At(w, "free")
    BY <1>9 DEF ToolReturns, At
  <2>2. Moves(w, len)
    BY <1>0, <1>9, <2>1, ResumeMoves, LeaveMoves DEF ToolReturns
  <2>3. RowsOK' /\ len <= Len(approvals)'
    BY <1>0, <1>9, <2>1, <1>n, SameRows, NodeRows DEF ToolReturns, NodeStatus
  <2> QED
    BY <1>9, <2>2, <2>3, PartsStep DEF ToolReturns
<1>10. ASSUME NEW q \in Requests, NEW i \in DOMAIN approvals, NEW d \in Decisions,
              DecideRead(q, i, d)
       PROVE  PartsOK'
  <2> DEFINE r == [approval |-> i, decision |-> d,
                   waiting |-> node[approvals[i].owner] = "WAITING"]
  <2>1. i \in 1..len
    BY DEF PartsOK, RowsOK
  <2>2. RequestOK(r, len)
    BY <1>0, <2>1 DEF RequestOK
  <2> HIDE DEF r
  <2>3. request' = [request EXCEPT ![q] = r]
    BY <1>10 DEF DecideRead, r
  <2>4. request' = [p \in Requests |-> request'[p]] /\ \A p \in Requests : RequestOK(request'[p], len)
    BY <2>2, <2>3 DEF PartsOK
  <2>5. UNCHANGED <<node, approvals, toolCalls, session, uses, waitsFor>>
    BY <1>10 DEF DecideRead
  <2> QED
    BY <2>4, <2>5 DEF PartsOK, RowsOK
<1>11. ASSUME NEW q \in Requests, DecideCommit(q) PROVE PartsOK'
  <2> DEFINE i == request[q].approval
  <2>1. i \in 1..len /\ request[q].decision \in ApprovalStatus
    BY <1>0, <1>11 DEF DecideCommit, PartsOK, RequestOK, Decisions, ApprovalStatus
  <2>2. approvals \in [1..len -> ApprovalRow] /\ approvals \in Seq(ApprovalRow)
    BY DEF PartsOK, RowsOK
  <2>3. approvals' \in [1..len -> ApprovalRow]
    BY <1>11, <2>1, <2>2, Answered DEF DecideCommit
  <2>4. approvals' \in Seq(ApprovalRow) /\ Len(approvals') = len
    BY <2>2, <2>3, SameLength
  <2>5. approvals[i].owner \in Nodes
    BY <2>1, <2>2 DEF ApprovalRow
  <2>6. node' \in [Nodes -> NodeStatus] /\ \A n \in Nodes : node'[n] = "WAITING" => waitsFor[n] # 0
    BY <1>11, <2>5 DEF DecideCommit, PartsOK, RowsOK, NodeStatus
  <2>7. RowsOK'
    BY <1>11, <2>4, <2>6 DEF DecideCommit, PartsOK, RowsOK
  <2>8. request' = [request EXCEPT ![q] = NoRequest]
    BY <1>11 DEF DecideCommit
  <2>9. RequestOK(NoRequest, len)
    BY <1>0 DEF RequestOK, NoRequest, Decisions
  <2>10. request' = [p \in Requests |-> request'[p]] /\ \A p \in Requests : RequestOK(request'[p], len)
    BY <2>8, <2>9 DEF PartsOK
  <2> QED
    BY <1>11, <2>4, <2>7, <2>10 DEF DecideCommit, PartsOK
<1>12. ASSUME UNCHANGED vars PROVE PartsOK'
  BY <1>12 DEF vars, PartsOK, RowsOK
<1> QED
  BY <1>1, <1>2, <1>3, <1>4, <1>5, <1>6, <1>7, <1>8, <1>9, <1>10, <1>11, <1>12
     DEF Next, Agent, Owner

(* Whatever the Agents, workers and decisions, every variable keeps its    *)
(* type, and what a session or a request refers to exists.                 *)
THEOREM ApprovalTypes == Spec => []TypeOK
<1>1. Init => PartsOK
  BY TypeInit, TypeParts
<1>2. PartsOK /\ [Next]_vars => PartsOK'
  BY TypeStep
<1> QED
  BY <1>1, <1>2, TypeParts, PTL DEF Spec
-----------------------------------------------------------------------------
(* The budget.  Calls that are counted but not yet committed are at most   *)
(* one per worker, and each was counted when the total was below the limit.*)
Open == {w \in Workers : session[w].step \in {"counted", "decided"}}

BudgetInv == toolCalls + Cardinality(Open) < MaxToolCalls + Cardinality(Workers)

LEMMA SubsetOfWorkers ==
  ASSUME NEW S, S \subseteq Workers
  PROVE  /\ IsFiniteSet(S) /\ Cardinality(S) \in Nat /\ Cardinality(Workers) \in Nat
         /\ Cardinality(S) <= Cardinality(Workers)
BY LimitsAreNaturals, FS_Subset, FS_CardinalityType

LEMMA BudgetInit == Init => BudgetInv
<1> SUFFICES ASSUME Init PROVE BudgetInv
  OBVIOUS
<1>1. Open = {} /\ toolCalls = 0
  BY DEF Init, Open, Free
<1>2. Cardinality(Workers) \in Nat /\ Cardinality(Workers) # 0
  BY LimitsAreNaturals, FS_CardinalityType, FS_EmptySet
<1> QED
  BY <1>1, <1>2, FS_EmptySet, LimitsAreNaturals DEF BudgetInv

LEMMA BudgetStep == TypeOK /\ TypeOK' /\ BudgetInv /\ [Next]_vars => BudgetInv'
<1> SUFFICES ASSUME TypeOK, TypeOK', BudgetInv, [Next]_vars PROVE BudgetInv'
  OBVIOUS
<1>0. /\ toolCalls \in Nat /\ MaxToolCalls \in Nat /\ Cardinality(Workers) \in Nat
      /\ IsFiniteSet(Open) /\ Cardinality(Open) \in Nat
      /\ IsFiniteSet(Open') /\ Cardinality(Open') \in Nat
  BY SubsetOfWorkers, LimitsAreNaturals DEF TypeOK, Open
(* A step that commits nothing and counts nothing. *)
<1>1. ASSUME NEW w \in Workers, UNCHANGED toolCalls,
             session'[w].step \notin {"counted", "decided"} \/ w \in Open,
             \A v \in Workers \ {w} : session'[v] = session[v]
      PROVE  BudgetInv'
  <2>1. Open' \subseteq Open
    BY <1>1 DEF Open
  <2>2. Cardinality(Open') <= Cardinality(Open)
    BY <1>0, <2>1, FS_Subset
  <2> QED
    BY <1>0, <1>1, <2>2 DEF BudgetInv
(* A step that commits the call it had counted. *)
<1>2. ASSUME NEW w \in Workers, w \in Open, toolCalls' = toolCalls + 1,
             session'[w].step \notin {"counted", "decided"},
             \A v \in Workers \ {w} : session'[v] = session[v]
      PROVE  BudgetInv'
  <2>1. Open' = Open \ {w}
    BY <1>2 DEF Open
  <2>2. Cardinality(Open') = Cardinality(Open) - 1
    BY <1>0, <1>2, <2>1, FS_RemoveElement
  <2> QED
    BY <1>0, <1>2, <2>2 DEF BudgetInv
<1>3. ASSUME NEW w \in Workers, NEW c \in Calls, CountCalls(w, c), HasBudget PROVE BudgetInv'
  <2>1. Cardinality(Open') <= Cardinality(Workers)
    BY SubsetOfWorkers DEF Open
  <2>2. toolCalls' = toolCalls /\ toolCalls < MaxToolCalls
    BY <1>3 DEF CountCalls, HasBudget
  <2> QED
    BY <1>0, <2>1, <2>2 DEF BudgetInv
<1>4. ASSUME NEW w \in Workers, Leave(w)
      PROVE  /\ session'[w].step = "free"
             /\ \A v \in Workers \ {w} : session'[v] = session[v]
  BY <1>4 DEF TypeOK, Leave, Free
<1>5. ASSUME NEW w \in Workers, Resume(w)
      PROVE  /\ session'[w].step = "thinking"
             /\ \A v \in Workers \ {w} : session'[v] = session[v]
  BY <1>5 DEF TypeOK, Resume, Thinking
<1>6. ASSUME NEW w \in Workers, Agent(w) PROVE BudgetInv'
  <2>1. ASSUME NEW n \in Nodes, Start(w, n) PROVE BudgetInv'
    <3>1. session'[w].step = "thinking" /\ \A v \in Workers \ {w} : session'[v] = session[v]
      BY <2>1 DEF TypeOK, Start, Thinking
    <3> QED
      BY <1>1, <2>1, <3>1 DEF Start
  <2>2. CASE Finish(w)
    BY <1>1, <1>4, <2>2 DEF Finish
  <2>3. ASSUME NEW c \in Calls, CountCalls(w, c) PROVE BudgetInv'
    BY <1>1, <1>3, <1>4, <2>3 DEF CountCalls
  <2>4. CASE ReadApprovals(w)
    <3>1. w \in Open /\ \A v \in Workers \ {w} : session'[v] = session[v]
      BY <2>4 DEF ReadApprovals, At, Open, TypeOK
    <3> QED
      BY <1>1, <2>4, <3>1 DEF ReadApprovals
  <2>5. CASE JoinPending(w)
    BY <1>2, <1>4, <2>5 DEF JoinPending, Decided, At, Open
  <2>6. CASE RequestApproval(w)
    BY <1>2, <1>4, <2>6 DEF RequestApproval, Decided, At, Open
  <2>7. CASE Refused(w)
    BY <1>2, <1>5, <2>7 DEF Refused, Decided, At, Open
  <2>8. CASE RunTool(w)
    <3>1. session'[w].step = "running" /\ \A v \in Workers \ {w} : session'[v] = session[v]
      BY <2>8 DEF RunTool, Goto, TypeOK, SessionRow
    <3> QED
      BY <1>2, <2>8, <3>1 DEF RunTool, Decided, At, Open
  <2>9. CASE ToolReturns(w)
    BY <1>1, <1>4, <1>5, <2>9 DEF ToolReturns
  <2> QED
    BY <1>6, <2>1, <2>2, <2>3, <2>4, <2>5, <2>6, <2>7, <2>8, <2>9 DEF Agent
<1>7. ASSUME NEW q \in Requests, Owner(q) PROVE BudgetInv'
  BY <1>7 DEF Owner, DecideRead, DecideCommit, BudgetInv, Open
<1>8. ASSUME UNCHANGED vars PROVE BudgetInv'
  BY <1>8 DEF vars, BudgetInv, Open
<1> QED
  BY <1>6, <1>7, <1>8 DEF Next

(* However many Agents count at the same moment, the budget of tool calls  *)
(* is overrun by less than one call per worker.                            *)
THEOREM BudgetCorrect == Spec => []BudgetWithinWorkers
<1>1. BudgetInv /\ TypeOK => BudgetWithinWorkers
  <2> SUFFICES ASSUME BudgetInv, TypeOK PROVE BudgetWithinWorkers
    OBVIOUS
  <2>1. /\ toolCalls \in Nat /\ MaxToolCalls \in Nat /\ Cardinality(Workers) \in Nat
        /\ Cardinality(Open) \in Nat
    BY SubsetOfWorkers, LimitsAreNaturals DEF TypeOK, Open
  <2> QED
    BY <2>1 DEF BudgetInv, BudgetWithinWorkers
<1> QED
  BY <1>1, ApprovalTypes, BudgetInit, BudgetStep, PTL DEF Spec
-----------------------------------------------------------------------------
(* What the consent depends on, when the owner's decisions come one at a   *)
(* time: a pending approval keeps its asker waiting for it, a decision in  *)
(* flight is about a pending approval, and RUNNING nodes and sessions      *)
(* correspond one to one.                                                  *)
SingleRequest == \A p, q \in Requests : p = q

Busy(w) == session[w].step # "free"

RunInv ==
  /\ \A w \in Workers : Busy(w) => node[session[w].node] = "RUNNING"
  /\ \A v, w \in Workers :
       Busy(v) /\ Busy(w) /\ session[v].node = session[w].node => v = w
  /\ \A n \in Nodes : node[n] = "RUNNING" => \E w \in Workers : Busy(w) /\ session[w].node = n

AskInv ==
  /\ \A i \in DOMAIN approvals :
       approvals[i].status = "PENDING" =>
         node[approvals[i].owner] = "WAITING" /\ waitsFor[approvals[i].owner] = i
  /\ \A q \in Requests :
       request[q] # NoRequest =>
         approvals[request[q].approval].status = "PENDING" /\ request[q].waiting

LEMMA ConsentInit == Init => RunInv /\ AskInv
BY DEF Init, RunInv, AskInv, Busy, Free

(* The three ways a session and its node change together. *)
LEMMA RunStays ==
  ASSUME TypeOK, RunInv, NEW w \in Workers, UNCHANGED node,
         \A v \in Workers \ {w} : session'[v] = session[v],
         Busy(w), session'[w].step # "free", session'[w].node = session[w].node
  PROVE  RunInv'
<1>1. \A v \in Workers : Busy(v)' = Busy(v) /\ session'[v].node = session[v].node
  BY DEF Busy
<1> QED
  BY <1>1 DEF RunInv

LEMMA RunLeaves ==
  ASSUME TypeOK, RunInv, NEW w \in Workers, Busy(w), NEW st \in NodeStatus \ {"RUNNING"},
         SetNode(session[w].node, st), Leave(w)
  PROVE  RunInv'
<1> DEFINE n == session[w].node
<1>1. n \in Nodes /\ node[n] = "RUNNING"
  BY DEF TypeOK, RunInv, Busy
<1>2. ~Busy(w)' /\ \A v \in Workers \ {w} : session'[v] = session[v] /\ Busy(v)' = Busy(v)
  BY DEF TypeOK, Leave, Busy, Free
<1>3. \A v \in Workers \ {w} : Busy(v) => session[v].node # n /\ session[v].node \in Nodes
  BY DEF RunInv, TypeOK, Busy
<1>4. node'[n] = st /\ \A m \in Nodes \ {n} : node'[m] = node[m]
  BY <1>1 DEF SetNode, TypeOK
<1>5. \A m \in Nodes : node'[m] = "RUNNING" =>
        \E v \in Workers \ {w} : Busy(v) /\ session[v].node = m
  BY <1>4 DEF RunInv
<1>6. \A v \in Workers : Busy(v)' => v # w /\ node'[session'[v].node] = "RUNNING"
  BY <1>2, <1>3, <1>4 DEF RunInv
<1>7. \A m \in Nodes : node'[m] = "RUNNING" => \E v \in Workers : Busy(v)' /\ session'[v].node = m
  BY <1>2, <1>5
<1>8. \A u, v \in Workers : Busy(u)' /\ Busy(v)' /\ session'[u].node = session'[v].node => u = v
  BY <1>2 DEF RunInv
<1> QED
  BY <1>6, <1>7, <1>8 DEF RunInv

LEMMA RunStarts ==
  ASSUME TypeOK, RunInv, NEW w \in Workers, NEW n \in Nodes, Start(w, n)
  PROVE  RunInv'
<1>1. ~Busy(w) /\ node[n] = "READY"
  BY DEF Start, At, Busy
<1>2. /\ Busy(w)' /\ session'[w].node = n
      /\ \A v \in Workers \ {w} : session'[v] = session[v] /\ Busy(v)' = Busy(v)
  BY DEF TypeOK, Start, Busy, Thinking
<1>3. node'[n] = "RUNNING" /\ \A m \in Nodes \ {n} : node'[m] = node[m]
  BY DEF Start, SetNode, TypeOK
<1>4. \A v \in Workers \ {w} : Busy(v) => session[v].node # n /\ session[v].node \in Nodes
  BY <1>1 DEF RunInv, TypeOK, Busy
<1>5. \A v \in Workers : Busy(v)' => node'[session'[v].node] = "RUNNING"
  BY <1>2, <1>3, <1>4 DEF RunInv
<1>6. \A m \in Nodes : node'[m] = "RUNNING" => \E v \in Workers : Busy(v)' /\ session'[v].node = m
  <2> SUFFICES ASSUME NEW m \in Nodes \ {n}, node[m] = "RUNNING"
               PROVE  \E v \in Workers : Busy(v)' /\ session'[v].node = m
    BY <1>2, <1>3
  <2>1. PICK v \in Workers : Busy(v) /\ session[v].node = m
    BY DEF RunInv
  <2> QED
    BY <1>1, <1>2, <2>1
<1>7. \A u, v \in Workers : Busy(u)' /\ Busy(v)' /\ session'[u].node = session'[v].node => u = v
  BY <1>2, <1>4 DEF RunInv
<1> QED
  BY <1>5, <1>6, <1>7 DEF RunInv

LEMMA OwnerIsNode ==
  ASSUME TypeOK, NEW i \in DOMAIN approvals
  PROVE  /\ approvals[i] \in ApprovalRow /\ approvals[i].owner \in Nodes
         /\ i \in 1..Len(approvals) /\ i # 0
<1>1. approvals \in Seq(ApprovalRow)
  BY DEF TypeOK, ApprovalRow
<1>2. i \in 1..Len(approvals) /\ approvals[i] \in ApprovalRow
  BY <1>1
<1> QED
  BY <1>2 DEF ApprovalRow

(* A step that does not touch a waiting node leaves the questions alone. *)
LEMMA AskStays ==
  ASSUME TypeOK, AskInv, UNCHANGED <<approvals, request>>,
         \A m \in Nodes : node[m] = "WAITING" =>
           node'[m] = "WAITING" /\ waitsFor'[m] = waitsFor[m]
  PROVE  AskInv'
<1>1. \A i \in DOMAIN approvals : approvals[i].owner \in Nodes
  BY OwnerIsNode
<1> QED
  BY <1>1 DEF AskInv

LEMMA RunStep == TypeOK /\ TypeOK' /\ RunInv /\ AskInv /\ [Next]_vars => RunInv'
<1> SUFFICES ASSUME TypeOK, TypeOK', RunInv, AskInv, [Next]_vars PROVE RunInv'
  OBVIOUS
<1>1. ASSUME NEW w \in Workers, Agent(w) PROVE RunInv'
  <2>1. ASSUME NEW n \in Nodes, Start(w, n) PROVE RunInv'
    BY <2>1, RunStarts
  <2>2. CASE Finish(w)
    BY <2>2, RunLeaves DEF Finish, At, Busy, NodeStatus
  <2>3. ASSUME NEW c \in Calls, CountCalls(w, c) PROVE RunInv'
    <3>1. CASE HasBudget
      <4>1. /\ session'[w].step = "counted" /\ session'[w].node = session[w].node
            /\ \A v \in Workers \ {w} : session'[v] = session[v]
        BY <2>3, <3>1 DEF CountCalls, TypeOK, SessionRow
      <4> QED
        BY <2>3, <3>1, <4>1, RunStays DEF CountCalls, At, Busy
    <3>2. CASE ~HasBudget
      BY <2>3, <3>2, RunLeaves DEF CountCalls, At, Busy, NodeStatus
    <3> QED
      BY <3>1, <3>2
  <2>4. CASE ReadApprovals(w)
    <3>1. /\ session'[w].step = "decided" /\ session'[w].node = session[w].node
          /\ \A v \in Workers \ {w} : session'[v] = session[v]
      BY <2>4 DEF ReadApprovals, TypeOK, SessionRow
    <3> QED
      BY <2>4, <3>1, RunStays DEF ReadApprovals, At, Busy
  <2>5. CASE JoinPending(w)
    BY <2>5, RunLeaves DEF JoinPending, Decided, At, Busy, NodeStatus
  <2>6. CASE RequestApproval(w)
    BY <2>6, RunLeaves DEF RequestApproval, Decided, At, Busy, NodeStatus
  <2>7. ASSUME Busy(w), Resume(w), UNCHANGED node PROVE RunInv'
    <3>1. /\ session'[w].step = "thinking" /\ session'[w].node = session[w].node
          /\ \A v \in Workers \ {w} : session'[v] = session[v]
      BY <2>7 DEF Resume, Thinking, TypeOK
    <3> QED
      BY <2>7, <3>1, RunStays
  <2>8. CASE Refused(w)
    BY <2>7, <2>8 DEF Refused, Decided, At, Busy
  <2>9. CASE RunTool(w)
    <3>1. /\ session'[w].step = "running" /\ session'[w].node = session[w].node
          /\ \A v \in Workers \ {w} : session'[v] = session[v]
      BY <2>9 DEF RunTool, Goto, TypeOK, SessionRow
    <3> QED
      BY <2>9, <3>1, RunStays DEF RunTool, Decided, At, Busy
  <2>10. CASE ToolReturns(w)
    BY <2>7, <2>10, RunLeaves DEF ToolReturns, At, Busy, NodeStatus
  <2> QED
    BY <1>1, <2>1, <2>2, <2>3, <2>4, <2>5, <2>6, <2>8, <2>9, <2>10 DEF Agent
<1>2. ASSUME NEW q \in Requests, DecideCommit(q) PROVE RunInv'
  <2> DEFINE n == approvals[request[q].approval].owner
  <2>1. node[n] = "WAITING" \/ UNCHANGED node
    <3>1. request[q].approval \in DOMAIN approvals
      BY <1>2 DEF DecideCommit, TypeOK
    <3> QED
      BY <1>2, <3>1 DEF DecideCommit, AskInv
  <2>2. node' = node \/ node' = [node EXCEPT ![n] = "READY"]
    BY <1>2 DEF DecideCommit
  <2>3. \A m \in Nodes : node'[m] = "RUNNING" <=> node[m] = "RUNNING"
    BY <2>1, <2>2 DEF TypeOK
  <2>4. session' = session
    BY <1>2 DEF DecideCommit
  <2> QED
    BY <2>3, <2>4 DEF RunInv, TypeOK, Busy
<1>3. ASSUME NEW q \in Requests, NEW i \in DOMAIN approvals, NEW d \in Decisions,
             DecideRead(q, i, d)
      PROVE  RunInv'
  BY <1>3 DEF DecideRead, RunInv, Busy
<1>4. ASSUME UNCHANGED vars PROVE RunInv'
  BY <1>4 DEF vars, RunInv, Busy
<1> QED
  BY <1>1, <1>2, <1>3, <1>4 DEF Next, Owner

LEMMA AskStep == TypeOK /\ TypeOK' /\ RunInv /\ AskInv /\ SingleRequest /\ [Next]_vars => AskInv'
<1> SUFFICES ASSUME TypeOK, TypeOK', RunInv, AskInv, SingleRequest, [Next]_vars PROVE AskInv'
  OBVIOUS
<1>n. ASSUME NEW w \in Workers, Busy(w)
      PROVE  session[w].node \in Nodes /\ node[session[w].node] = "RUNNING"
  BY <1>n DEF RunInv, Busy, TypeOK
<1>l. ASSUME NEW w \in Workers, Busy(w), NEW st \in NodeStatus,
             SetNode(session[w].node, st),
             UNCHANGED <<approvals, request>>,
             \A m \in Nodes \ {session[w].node} : waitsFor'[m] = waitsFor[m]
      PROVE  AskInv'
  <2>1. \A m \in Nodes : node[m] = "WAITING" => node'[m] = "WAITING" /\ waitsFor'[m] = waitsFor[m]
    BY <1>l, <1>n DEF SetNode, TypeOK
  <2> QED
    BY <1>l, <2>1, AskStays
<1>1. ASSUME NEW w \in Workers, Agent(w) PROVE AskInv'
  <2>1. ASSUME NEW n \in Nodes, Start(w, n) PROVE AskInv'
    <3>1. \A m \in Nodes : node[m] = "WAITING" => node'[m] = "WAITING"
      BY <2>1 DEF Start, SetNode, TypeOK
    <3> QED
      BY <2>1, <3>1, AskStays DEF Start
  <2>2. CASE Finish(w)
    BY <2>2, <1>l DEF Finish, At, Busy, NodeStatus
  <2>3. ASSUME NEW c \in Calls, CountCalls(w, c) PROVE AskInv'
    BY <2>3, <1>l, AskStays DEF CountCalls, At, Busy, NodeStatus
  <2>4. CASE ReadApprovals(w)
    BY <2>4, AskStays DEF ReadApprovals
  <2>5. CASE JoinPending(w)
    <3>1. \A m \in Nodes \ {session[w].node} : waitsFor'[m] = waitsFor[m]
      BY <2>5 DEF JoinPending, TypeOK
    <3> QED
      BY <2>5, <3>1, <1>l DEF JoinPending, Decided, At, Busy, NodeStatus
  <2>6. CASE RequestApproval(w)
    <3> DEFINE n == session[w].node
               len == Len(approvals)
    <3>1. n \in Nodes /\ node[n] = "RUNNING"
      BY <2>6, <1>n DEF RequestApproval, Decided, At, Busy
    <3>2. /\ DOMAIN approvals = 1..len /\ DOMAIN approvals' = 1..len + 1 /\ len \in Nat
          /\ \A i \in 1..len : approvals'[i] = approvals[i]
          /\ approvals'[len + 1].owner = n
      BY <2>6 DEF RequestApproval, TypeOK
    <3>3. /\ node'[n] = "WAITING" /\ waitsFor'[n] = len + 1
          /\ \A m \in Nodes \ {n} : node'[m] = node[m] /\ waitsFor'[m] = waitsFor[m]
      BY <2>6, <3>1 DEF RequestApproval, SetNode, TypeOK
    <3>4. ASSUME NEW i \in DOMAIN approvals', approvals'[i].status = "PENDING"
          PROVE  node'[approvals'[i].owner] = "WAITING" /\ waitsFor'[approvals'[i].owner] = i
      <4>1. CASE i = len + 1
        BY <3>2, <3>3, <4>1
      <4>2. CASE i \in 1..len
        <5>1. approvals[i].owner \in Nodes /\ approvals[i].status = "PENDING"
          BY <3>2, <3>4, <4>2, OwnerIsNode
        <5>2. node[approvals[i].owner] = "WAITING" /\ waitsFor[approvals[i].owner] = i
          BY <3>2, <4>2, <5>1 DEF AskInv
        <5> QED
          BY <3>1, <3>2, <3>3, <4>2, <5>1, <5>2
      <4> QED
        BY <3>2, <3>4, <4>1, <4>2
    <3>5. ASSUME NEW q \in Requests, request'[q] # NoRequest
          PROVE  approvals'[request'[q].approval].status = "PENDING" /\ request'[q].waiting
      <4>1. request'[q] = request[q] /\ request[q].approval \in 1..len
        BY <2>6, <3>2, <3>5 DEF RequestApproval, TypeOK
      <4> QED
        BY <3>2, <3>5, <4>1 DEF AskInv
    <3> QED
      BY <3>4, <3>5 DEF AskInv
  <2>7. CASE Refused(w)
    BY <2>7, AskStays DEF Refused
  <2>8. CASE RunTool(w)
    <3>1. /\ DOMAIN approvals' = DOMAIN approvals
          /\ \A i \in DOMAIN approvals : /\ approvals'[i].status = approvals[i].status
                                         /\ approvals'[i].owner = approvals[i].owner
      BY <2>8, OwnerIsNode DEF RunTool, ApprovalRow
    <3>2. \A q \in Requests : request[q] # NoRequest => request[q].approval \in DOMAIN approvals
      BY DEF TypeOK
    <3> QED
      BY <2>8, <3>1, <3>2 DEF RunTool, AskInv
  <2>9. CASE ToolReturns(w)
    BY <2>9, <1>l, AskStays DEF ToolReturns, At, Busy, NodeStatus
  <2> QED
    BY <1>1, <2>1, <2>2, <2>3, <2>4, <2>5, <2>6, <2>7, <2>8, <2>9 DEF Agent
<1>2. ASSUME NEW q \in Requests, DecideCommit(q) PROVE AskInv'
  <2> DEFINE i == request[q].approval
             n == approvals[i].owner
  <2>1. i \in DOMAIN approvals /\ n \in Nodes /\ waitsFor[n] = i
    <3>1. i \in DOMAIN approvals
      BY <1>2 DEF DecideCommit, TypeOK
    <3> QED
      BY <1>2, <3>1, OwnerIsNode DEF DecideCommit, AskInv
  <2>2. \A p \in Requests : request'[p] = NoRequest
    BY <1>2 DEF DecideCommit, SingleRequest, TypeOK
  <2>3. /\ DOMAIN approvals' = DOMAIN approvals
        /\ \A j \in DOMAIN approvals : approvals'[j].owner = approvals[j].owner
        /\ \A j \in DOMAIN approvals \ {i} : approvals'[j] = approvals[j]
        /\ approvals'[i].status # "PENDING"
    BY <1>2, <2>1, OwnerIsNode DEF DecideCommit, ApprovalRow, TypeOK, Decisions
  <2>4. ASSUME NEW j \in DOMAIN approvals', approvals'[j].status = "PENDING"
        PROVE  node'[approvals'[j].owner] = "WAITING" /\ waitsFor'[approvals'[j].owner] = j
    <3>1. j \in DOMAIN approvals \ {i} /\ approvals[j].status = "PENDING" /\ approvals[j].owner \in Nodes
      BY <2>3, <2>4, OwnerIsNode
    <3>2. node[approvals[j].owner] = "WAITING" /\ waitsFor[approvals[j].owner] = j
      BY <3>1 DEF AskInv
    <3>3. approvals[j].owner # n
      BY <2>1, <3>1, <3>2
    <3>4. node'[approvals[j].owner] = node[approvals[j].owner] /\ waitsFor' = waitsFor
      BY <1>2, <2>1, <3>1, <3>3 DEF DecideCommit, TypeOK
    <3> QED
      BY <2>3, <3>1, <3>2, <3>4
  <2> QED
    BY <2>2, <2>4 DEF AskInv
<1>3. ASSUME NEW q \in Requests, NEW i \in DOMAIN approvals, NEW d \in Decisions,
             DecideRead(q, i, d)
      PROVE  AskInv'
  <2>1. approvals[i].status = "PENDING" /\ node[approvals[i].owner] = "WAITING"
    BY <1>3 DEF DecideRead, AskInv
  <2>2. request'[q].approval = i /\ request'[q].waiting
        /\ \A p \in Requests \ {q} : request'[p] = request[p]
    BY <1>3, <2>1 DEF DecideRead, TypeOK
  <2> QED
    BY <1>3, <2>1, <2>2 DEF DecideRead, AskInv
<1>4. ASSUME UNCHANGED vars PROVE AskInv'
  BY <1>4 DEF vars, AskInv
<1> QED
  BY <1>1, <1>2, <1>3, <1>4 DEF Next, Owner

(* Approvals are only added, answered once, and used up for good. *)
Lasting ==
  \A i \in DOMAIN approvals :
    /\ i \in DOMAIN approvals'
    /\ approvals'[i].call = approvals[i].call /\ approvals'[i].owner = approvals[i].owner
    /\ approvals[i].status # "PENDING" => approvals'[i].status = approvals[i].status
    /\ approvals[i].consumed => approvals'[i].consumed

LEMMA LastingStep == TypeOK /\ AskInv /\ [Next]_vars => Lasting
<1> SUFFICES ASSUME TypeOK, AskInv, [Next]_vars PROVE Lasting
  OBVIOUS
<1>1. CASE UNCHANGED approvals
  BY <1>1 DEF Lasting
<1>2. ASSUME NEW w \in Workers, RequestApproval(w) PROVE Lasting
  BY <1>2 DEF RequestApproval, Lasting, TypeOK
<1>3. ASSUME NEW w \in Workers, RunTool(w) PROVE Lasting
  BY <1>3, OwnerIsNode DEF RunTool, Lasting, ApprovalRow
<1>4. ASSUME NEW q \in Requests, DecideCommit(q) PROVE Lasting
  <2>1. approvals[request[q].approval].status = "PENDING"
    BY <1>4 DEF DecideCommit, AskInv
  <2> QED
    BY <1>4, <2>1, OwnerIsNode DEF DecideCommit, Lasting, ApprovalRow
<1>5. ASSUME NEW w \in Workers, Agent(w), ~RequestApproval(w), ~RunTool(w) PROVE UNCHANGED approvals
  BY <1>5 DEF Agent, Start, Finish, CountCalls, ReadApprovals, JoinPending, Refused, ToolReturns
<1>6. ASSUME NEW q \in Requests, Owner(q), ~DecideCommit(q) PROVE UNCHANGED approvals
  BY <1>6 DEF Owner, DecideRead
<1> QED
  BY <1>1, <1>2, <1>3, <1>4, <1>5, <1>6 DEF Next, vars

(* What a session has decided rests on an approval that still says so. *)
Backed(w) ==
  LET i == session[w].approval
      st == session[w].state
      c == session[w].call
  IN  /\ st = "APPROVED_ONCE" => approvals[i].status = "APPROVED_ONCE" /\ approvals[i].call = c
      /\ st = "APPROVED_FOR_TASK" => /\ approvals[i].status = "APPROVED_FOR_TASK"
                                     /\ OperationOf[approvals[i].call] = OperationOf[c]
      /\ st = "PENDING" => approvals[i].owner # session[w].node
      /\ c \in Risky \ AutoApproved => st \notin {"not_needed", "yolo"}
      /\ st \notin ApprovalStatus => i = 0

BackedInv == \A w \in Workers : At(w, "decided") => Backed(w)

LEMMA DecidedRow ==
  ASSUME TypeOK, NEW w \in Workers, At(w, "decided"), session[w].state \in ApprovalStatus
  PROVE  session[w].approval \in DOMAIN approvals
BY DEF TypeOK, At

LEMMA BackedStays ==
  ASSUME TypeOK, Lasting, NEW w \in Workers, At(w, "decided"), Backed(w), session'[w] = session[w]
  PROVE  Backed(w)'
BY DecidedRow DEF Backed, Lasting, ApprovalStatus

LEMMA BackedRead ==
  ASSUME TypeOK, RunInv, AskInv, NEW w \in Workers, ReadApprovals(w)
  PROVE  /\ Backed(w)'
         /\ session'[w].state = "APPROVED_ONCE" => ~approvals[session'[w].approval].consumed
<1> DEFINE c == session[w].call
           st == ApprovalState(c)
           i == IF st \in ApprovalStatus THEN Newest(c) ELSE 0
<1>1. /\ session'[w].state = st /\ session'[w].approval = i /\ session'[w].call = c
      /\ session'[w].node = session[w].node /\ approvals' = approvals
  BY DEF ReadApprovals, TypeOK, SessionRow
<1>2. c \in Calls
  BY DEF ReadApprovals, At, TypeOK
<1>3. CASE c \notin Risky \/ c \in AutoApproved
  <2>1. st \in {"not_needed", "yolo"}
    BY <1>3, CallsAreClassified DEF ApprovalState
  <2> QED
    BY <1>1, <1>3, <2>1, CallsAreClassified DEF Backed, ApprovalStatus
<1>4. CASE c \in Risky \ AutoApproved /\ Speaking(c) = {}
  <2>1. st = "new"
    BY <1>4 DEF ApprovalState
  <2> QED
    BY <1>1, <2>1 DEF Backed, ApprovalStatus
<1>5. CASE c \in Risky \ AutoApproved /\ Speaking(c) # {}
  <2>1. Newest(c) \in Speaking(c) /\ Newest(c) \in DOMAIN approvals
    <3>1. approvals \in Seq(ApprovalRow)
      BY DEF TypeOK, ApprovalRow
    <3> QED
      BY <1>5, <3>1, NewestSpeaks
  <2>2. st = approvals[Newest(c)].status
    BY <1>5 DEF ApprovalState
  <2>3. st \in ApprovalStatus /\ i = Newest(c)
    BY <2>1, <2>2, OwnerIsNode DEF ApprovalRow
  <2>4. Speaks(approvals[i], c)
    BY <2>1, <2>3 DEF Speaking
  <2>5. approvals[i].status = "PENDING" => approvals[i].owner # session[w].node
    <3>1. node[session[w].node] = "RUNNING"
      BY DEF RunInv, ReadApprovals, At, Busy
    <3> QED
      BY <2>1, <2>3, <3>1 DEF AskInv
  <2> HIDE DEF st, i
  <2>6. approvals[i].status = st
    BY <2>2, <2>3
  <2> QED
    BY <1>1, <2>3, <2>4, <2>5, <2>6 DEF Backed, Speaks, ApprovalStatus
<1> QED
  BY <1>3, <1>4, <1>5

LEMMA DecidedNow ==
  ASSUME TypeOK, NEW v \in Workers, [Next]_vars, At(v, "decided")'
  PROVE  \/ ReadApprovals(v)
         \/ session'[v] = session[v]
<1>1. ASSUME NEW w \in Workers, Agent(w), ~ReadApprovals(w)
      PROVE  v # w /\ session'[v] = session[v]
  <2>1. ASSUME v # w PROVE session'[v] = session[v]
    BY <1>1, <2>1 DEF TypeOK, Agent, Start, Finish, CountCalls, JoinPending, RequestApproval,
       Refused, RunTool, ToolReturns, Leave, Resume, Goto
  <2>2. session'[w].step # "decided"
    BY <1>1 DEF TypeOK, SessionRow, Agent, Start, Finish, CountCalls, JoinPending,
       RequestApproval, Refused, RunTool, ToolReturns, Leave, Resume, Goto, Free, Thinking
  <2> QED
    BY <2>1, <2>2 DEF At
<1>2. ASSUME NEW w \in Workers, ReadApprovals(w), w # v PROVE session'[v] = session[v]
  BY <1>2 DEF ReadApprovals, TypeOK
<1>3. ASSUME NEW q \in Requests, Owner(q) PROVE session'[v] = session[v]
  BY <1>3 DEF Owner, DecideRead, DecideCommit
<1> QED
  BY <1>1, <1>2, <1>3 DEF Next, vars

LEMMA BackedStep ==
  TypeOK /\ RunInv /\ AskInv /\ BackedInv /\ [Next]_vars => BackedInv'
<1> SUFFICES ASSUME TypeOK, RunInv, AskInv, BackedInv, [Next]_vars,
                    NEW v \in Workers, At(v, "decided")'
             PROVE  Backed(v)'
  BY DEF BackedInv
<1>1. CASE ReadApprovals(v)
  BY <1>1, BackedRead
<1>2. CASE session'[v] = session[v]
  BY <1>2, LastingStep, BackedStays DEF BackedInv, At
<1> QED
  BY <1>1, <1>2, DecidedNow

-----------------------------------------------------------------------------
(* Uses of one-time approvals: as long as it is open it has none, and when *)
(* it is used up only those who had already read it as open may follow.    *)
Holders(i) ==
  {w \in Workers : At(w, "decided") /\ session[w].state = "APPROVED_ONCE"
                                    /\ session[w].approval = i}

UsesOK(i) ==
  /\ approvals[i].status = "PENDING" => ~approvals[i].consumed
  /\ approvals[i].status # "APPROVED_FOR_TASK" /\ ~approvals[i].consumed => uses[i] = 0
  /\ approvals[i].status = "APPROVED_ONCE" =>
       uses[i] + Cardinality(Holders(i)) <= Cardinality(Workers)

UsesInv == \A i \in DOMAIN approvals : UsesOK(i)

(* Nobody becomes a holder of an approval that is used up. *)
LEMMA NoNewHolder ==
  ASSUME TypeOK, RunInv, AskInv, [Next]_vars, NEW i \in DOMAIN approvals, approvals[i].consumed
  PROVE  Holders(i)' \subseteq Holders(i)
<1> SUFFICES ASSUME NEW v \in Workers, At(v, "decided")', session'[v].state = "APPROVED_ONCE",
                    session'[v].approval = i
             PROVE  session'[v] = session[v]
  BY DEF Holders, At
<1>1. ASSUME ReadApprovals(v) PROVE FALSE
  BY <1>1, BackedRead
<1> QED
  BY <1>1, DecidedNow

LEMMA UsesOne ==
  ASSUME TypeOK, NEW i \in DOMAIN approvals
  PROVE  uses[i] \in Nat /\ i \in DOMAIN uses
BY DEF TypeOK

LEMMA UsesStep ==
  TypeOK /\ TypeOK' /\ RunInv /\ AskInv /\ BackedInv /\ UsesInv /\ [Next]_vars => UsesInv'
<1> SUFFICES ASSUME TypeOK, TypeOK', RunInv, AskInv, BackedInv, UsesInv, [Next]_vars,
                    NEW i \in DOMAIN approvals'
             PROVE  UsesOK(i)'
  BY DEF UsesInv
<1>h. /\ Cardinality(Holders(i)') \in Nat /\ Cardinality(Workers) \in Nat
      /\ Cardinality(Holders(i)') <= Cardinality(Workers)
      /\ Cardinality(Holders(i)) \in Nat /\ IsFiniteSet(Holders(i))
  BY SubsetOfWorkers DEF Holders
(* An approval that has no use yet. *)
<1>0. ASSUME uses'[i] = 0, approvals'[i].status = "PENDING" => ~approvals'[i].consumed
      PROVE  UsesOK(i)'
  BY <1>0, <1>h DEF UsesOK
<1>1. CASE i \notin DOMAIN approvals
  <2>1. PICK w \in Workers : RequestApproval(w)
    <3>1. ASSUME NEW w \in Workers, Agent(w), ~RequestApproval(w) PROVE DOMAIN approvals' = DOMAIN approvals
      BY <3>1 DEF Agent, Start, Finish, CountCalls, ReadApprovals, JoinPending, Refused,
         RunTool, ToolReturns
    <3>2. ASSUME NEW q \in Requests, Owner(q) PROVE DOMAIN approvals' = DOMAIN approvals
      BY <3>2 DEF Owner, DecideRead, DecideCommit
    <3> QED
      BY <1>1, <3>1, <3>2 DEF Next, vars
  <2>2. uses'[i] = 0 /\ ~approvals'[i].consumed
    BY <1>1, <2>1 DEF RequestApproval, TypeOK
  <2> QED
    BY <1>0, <2>2
<1>2. ASSUME i \in DOMAIN approvals, uses'[i] = uses[i],
             approvals'[i].status = "PENDING" => approvals'[i] = approvals[i],
             approvals'[i].status = "APPROVED_ONCE" =>
               approvals[i].status \in {"PENDING", "APPROVED_ONCE"}
      PROVE  UsesOK(i)'
  <2>1. CASE uses[i] = 0
    BY <1>0, <1>2, <2>1 DEF UsesInv, UsesOK
  <2>2. CASE uses[i] # 0 /\ approvals[i].status = "APPROVED_ONCE"
    <3>1. approvals[i].consumed /\ uses[i] + Cardinality(Holders(i)) <= Cardinality(Workers)
      BY <1>2, <2>2 DEF UsesInv, UsesOK
    <3>2. Holders(i)' \subseteq Holders(i)
      BY <1>2, <3>1, NoNewHolder
    <3>3. Cardinality(Holders(i)') <= Cardinality(Holders(i))
      BY <1>h, <3>2, FS_Subset
    <3>4. uses[i] \in Nat
      BY <1>2, UsesOne
    <3>5. approvals'[i].consumed /\ approvals'[i].status = "APPROVED_ONCE"
      BY <1>2, <2>2, <3>1, LastingStep DEF Lasting
    <3> QED
      BY <1>2, <1>h, <3>1, <3>3, <3>4, <3>5 DEF UsesOK
  <2>3. CASE uses[i] # 0 /\ approvals[i].status # "APPROVED_ONCE"
    <3>1. approvals[i].status # "PENDING"
      BY <1>2, <2>3 DEF UsesInv, UsesOK
    <3>2. /\ approvals'[i].status = approvals[i].status
          /\ approvals[i].consumed => approvals'[i].consumed
      BY <1>2, <3>1, LastingStep DEF Lasting
    <3>3. approvals[i].status # "APPROVED_FOR_TASK" => approvals[i].consumed
      BY <1>2, <2>3 DEF UsesInv, UsesOK
    <3> QED
      BY <1>2, <2>3, <3>1, <3>2, <3>3 DEF UsesOK
  <2> QED
    BY <2>1, <2>2, <2>3
<1>3. ASSUME i \in DOMAIN approvals, NEW w \in Workers, RunTool(w), session[w].approval = i
      PROVE  UsesOK(i)'
  <2>1. At(w, "decided") /\ Backed(w) /\ session[w].state \in Granted
    BY <1>3 DEF RunTool, Decided, BackedInv
  <2>2. i # 0
    BY <1>3, OwnerIsNode
  <2>3. session[w].state \in {"APPROVED_ONCE", "APPROVED_FOR_TASK"}
    BY <1>3, <2>1, <2>2 DEF Backed, Granted, ApprovalStatus
  <2>4. CASE session[w].state = "APPROVED_FOR_TASK"
    <3>1. approvals[i].status = "APPROVED_FOR_TASK"
      BY <1>3, <2>1, <2>4 DEF Backed
    <3> QED
      BY <1>3, <3>1, LastingStep DEF Lasting, UsesOK
  <2>5. CASE session[w].state = "APPROVED_ONCE"
    <3>1. approvals[i].status = "APPROVED_ONCE" /\ w \in Holders(i)
      BY <1>3, <2>1, <2>5 DEF Backed, Holders
    <3>2. approvals'[i].status = "APPROVED_ONCE" /\ approvals'[i].consumed
      BY <1>3, <2>5, <3>1, OwnerIsNode DEF RunTool, ApprovalRow
    <3>3. uses'[i] = uses[i] + 1 /\ uses[i] \in Nat
      BY <1>3, <2>2, UsesOne DEF RunTool
    <3>4. Holders(i)' = Holders(i) \ {w}
      <4>1. session'[w].step = "running" /\ \A v \in Workers \ {w} : session'[v] = session[v]
        BY <1>3 DEF RunTool, Goto, TypeOK, SessionRow
      <4> QED
        BY <4>1 DEF Holders, At
    <3>5. Cardinality(Holders(i)') = Cardinality(Holders(i)) - 1
      BY <1>h, <3>1, <3>4, FS_RemoveElement
    <3>6. uses[i] + Cardinality(Holders(i)) <= Cardinality(Workers)
      BY <1>3, <3>1 DEF UsesInv, UsesOK
    <3> QED
      BY <1>h, <3>2, <3>3, <3>5, <3>6 DEF UsesOK
  <2> QED
    BY <2>3, <2>4, <2>5
<1>4. ASSUME i \in DOMAIN approvals, ~\E w \in Workers : RunTool(w) /\ session[w].approval = i
      PROVE  /\ uses'[i] = uses[i]
             /\ approvals'[i].status = "PENDING" => approvals'[i] = approvals[i]
             /\ approvals'[i].status = "APPROVED_ONCE" =>
                  approvals[i].status \in {"PENDING", "APPROVED_ONCE"}
  <2>1. /\ uses[i] \in Nat /\ i \in DOMAIN uses /\ i # 0
        /\ i \in 1..Len(approvals) /\ approvals[i] \in ApprovalRow
    BY <1>4, UsesOne, OwnerIsNode
  <2>2. CASE UNCHANGED <<approvals, uses>>
    BY <2>2
  <2>3. ASSUME NEW w \in Workers, RequestApproval(w)
        PROVE  approvals'[i] = approvals[i] /\ uses'[i] = uses[i]
    BY <2>1, <2>3 DEF RequestApproval, TypeOK
  <2>4. ASSUME NEW w \in Workers, RunTool(w)
        PROVE  approvals'[i] = approvals[i] /\ uses'[i] = uses[i]
    <3>1. session[w].approval # i
      BY <1>4, <2>4
    <3> QED
      BY <2>1, <2>4, <3>1 DEF RunTool
  <2>5. ASSUME NEW q \in Requests, DecideCommit(q)
        PROVE  /\ uses'[i] = uses[i]
               /\ approvals'[i].status = "PENDING" => approvals'[i] = approvals[i]
               /\ approvals'[i].status = "APPROVED_ONCE" =>
                    approvals[i].status \in {"PENDING", "APPROVED_ONCE"}
    <3>1. CASE i = request[q].approval
      <4>1. approvals[i].status = "PENDING"
        BY <2>5, <3>1 DEF DecideCommit, AskInv
      <4>2. request[q].decision # "PENDING"
        BY DEF TypeOK, Decisions
      <4> QED
        BY <2>1, <2>5, <3>1, <4>1, <4>2 DEF DecideCommit, ApprovalRow
    <3>2. CASE i # request[q].approval
      BY <2>1, <2>5, <3>2 DEF DecideCommit
    <3> QED
      BY <3>1, <3>2
  <2>6. ASSUME NEW w \in Workers, Agent(w), ~RequestApproval(w), ~RunTool(w)
        PROVE  UNCHANGED <<approvals, uses>>
    BY <2>6 DEF Agent, Start, Finish, CountCalls, ReadApprovals, JoinPending, Refused, ToolReturns
  <2>7. ASSUME NEW q \in Requests, Owner(q), ~DecideCommit(q) PROVE UNCHANGED <<approvals, uses>>
    BY <2>7 DEF Owner, DecideRead
  <2>8. approvals'[i] = approvals[i] =>
          /\ approvals'[i].status = "PENDING" => approvals'[i] = approvals[i]
          /\ approvals'[i].status = "APPROVED_ONCE" =>
               approvals[i].status \in {"PENDING", "APPROVED_ONCE"}
    OBVIOUS
  <2> QED
    BY <2>2, <2>3, <2>4, <2>5, <2>6, <2>7, <2>8 DEF Next, vars
<1> QED
  BY <1>1, <1>2, <1>3, <1>4

LEMMA UsesInit == Init => BackedInv /\ UsesInv
BY DEF Init, BackedInv, UsesInv, At, Free

(* A node that waits for its own question waits for a pending one. *)
LEMMA WokenStep ==
  TypeOK /\ TypeOK' /\ RunInv /\ AskInv /\ BackedInv /\ AskerIsWoken /\ [Next]_vars => AskerIsWoken'
<1> SUFFICES ASSUME TypeOK, TypeOK', RunInv, AskInv, BackedInv, AskerIsWoken, [Next]_vars,
                    NEW n \in Nodes, node'[n] = "WAITING",
                    approvals'[waitsFor'[n]].owner = n
             PROVE  approvals'[waitsFor'[n]].status = "PENDING"
  BY DEF AskerIsWoken
<1>0. waitsFor[n] \in 0..Len(approvals) /\ DOMAIN approvals = 1..Len(approvals)
  BY DEF TypeOK
(* A node that already waited, and whose question is left alone. *)
<1>1. ASSUME node[n] = "WAITING", waitsFor'[n] = waitsFor[n],
             \A i \in DOMAIN approvals : /\ approvals'[i].owner = approvals[i].owner
                                         /\ approvals'[i].status = approvals[i].status
      PROVE  approvals'[waitsFor'[n]].status = "PENDING"
  <2>1. waitsFor[n] \in DOMAIN approvals
    BY <1>0, <1>1 DEF TypeOK
  <2> QED
    BY <1>1, <2>1 DEF AskerIsWoken
<1>2. ASSUME NEW w \in Workers, Agent(w) PROVE approvals'[waitsFor'[n]].status = "PENDING"
  <2>1. CASE JoinPending(w)
    <3>1. CASE n = session[w].node
      <4>1. waitsFor'[n] = session[w].approval /\ approvals' = approvals
        BY <2>1, <3>1 DEF JoinPending, TypeOK
      <4>2. approvals[session[w].approval].owner # n
        BY <2>1, <3>1 DEF JoinPending, Decided, BackedInv, Backed
      <4> QED
        BY <4>1, <4>2
    <3>2. CASE n # session[w].node
      BY <1>1, <2>1, <3>2 DEF JoinPending, SetNode, TypeOK
    <3> QED
      BY <3>1, <3>2
  <2>2. CASE RequestApproval(w)
    <3>1. CASE n = session[w].node
      BY <2>2, <3>1 DEF RequestApproval, TypeOK
    <3>2. CASE n # session[w].node
      <4>1. \A i \in DOMAIN approvals : approvals'[i] = approvals[i]
        BY <2>2 DEF RequestApproval, TypeOK
      <4>2. node[n] = "WAITING" /\ waitsFor'[n] = waitsFor[n]
        BY <2>2, <3>2 DEF RequestApproval, SetNode, TypeOK
      <4> QED
        BY <1>1, <4>1, <4>2
    <3> QED
      BY <3>1, <3>2
  <2>3. CASE RunTool(w)
    <3>1. \A i \in DOMAIN approvals : /\ approvals'[i].owner = approvals[i].owner
                                      /\ approvals'[i].status = approvals[i].status
      BY <2>3, OwnerIsNode DEF RunTool, ApprovalRow
    <3> QED
      BY <1>1, <2>3, <3>1 DEF RunTool
  <2>4. CASE ReadApprovals(w) \/ Refused(w)
    BY <1>1, <2>4 DEF ReadApprovals, Refused
  <2>5. ASSUME NEW m \in Nodes, Start(w, m) PROVE approvals'[waitsFor'[n]].status = "PENDING"
    BY <1>1, <2>5 DEF Start, SetNode, TypeOK
  <2>6. CASE Finish(w) \/ ToolReturns(w) \/ \E c \in Calls : CountCalls(w, c)
    <3>1. UNCHANGED <<approvals, waitsFor>> /\ node[n] = "WAITING"
      BY <2>6 DEF Finish, ToolReturns, CountCalls, SetNode, TypeOK
    <3> QED
      BY <1>1, <3>1
  <2> QED
    BY <1>2, <2>1, <2>2, <2>3, <2>4, <2>5, <2>6 DEF Agent
<1>3. ASSUME NEW q \in Requests, DecideCommit(q) PROVE approvals'[waitsFor'[n]].status = "PENDING"
  <2> DEFINE i == request[q].approval
             m == approvals[i].owner
  <2>1. i \in DOMAIN approvals /\ m \in Nodes /\ request[q].waiting
    <3>1. i \in DOMAIN approvals
      BY <1>3 DEF DecideCommit, TypeOK
    <3> QED
      BY <1>3, <3>1, OwnerIsNode DEF DecideCommit, AskInv
  <2>2. node'[m] = "READY" /\ \A k \in Nodes \ {m} : node'[k] = node[k]
    BY <1>3, <2>1 DEF DecideCommit, TypeOK
  <2>3. n # m /\ node[n] = "WAITING" /\ waitsFor'[n] = waitsFor[n]
    BY <1>3, <2>2 DEF DecideCommit
  <2>4. waitsFor[n] \in DOMAIN approvals
    BY <1>0, <2>3 DEF TypeOK
  <2>5. waitsFor[n] # i => approvals'[waitsFor[n]] = approvals[waitsFor[n]]
    BY <1>3, <2>4 DEF DecideCommit, TypeOK
  <2>6. waitsFor[n] = i => approvals'[i].owner = m
    BY <1>3, <2>1, OwnerIsNode DEF DecideCommit, ApprovalRow
  <2> QED
    BY <2>3, <2>5, <2>6 DEF AskerIsWoken
<1>4. ASSUME NEW q \in Requests, Owner(q), ~DecideCommit(q)
      PROVE  approvals'[waitsFor'[n]].status = "PENDING"
  BY <1>1, <1>4 DEF Owner, DecideRead
<1>5. ASSUME UNCHANGED vars PROVE approvals'[waitsFor'[n]].status = "PENDING"
  BY <1>1, <1>5 DEF vars
<1> QED
  BY <1>2, <1>3, <1>4, <1>5 DEF Next

-----------------------------------------------------------------------------
ConsentInv ==
  /\ TypeOK /\ RunInv /\ AskInv /\ BackedInv /\ UsesInv /\ AskerIsWoken

LEMMA WokenInit == Init => AskerIsWoken
BY DEF Init, AskerIsWoken

(* The inductive invariant of consent, for an owner who takes one decision *)
(* at a time: questions, sessions and uses agree with the approvals.       *)
THEOREM ConsentCorrect ==
  ASSUME SingleRequest
  PROVE  Spec => []ConsentInv
<1>1. Init => ConsentInv
  BY TypeInit, ConsentInit, UsesInit, WokenInit DEF ConsentInv
<1>2. ConsentInv /\ [Next]_vars => ConsentInv'
  <2> SUFFICES ASSUME ConsentInv, [Next]_vars PROVE ConsentInv'
    OBVIOUS
  <2>1. TypeOK /\ TypeOK'
    BY TypeStep, TypeParts, PTL DEF ConsentInv
  <2> QED
    BY <2>1, RunStep, AskStep, BackedStep, UsesStep, WokenStep DEF ConsentInv
<1> QED
  BY <1>1, <1>2, PTL DEF Spec

(* A node is RUNNING exactly while one worker runs it, whatever questions  *)
(* and answers come in between.                                            *)
THEOREM OneSessionCorrect ==
  ASSUME SingleRequest
  PROVE  Spec => []OneSessionPerNode
<1>1. TypeOK /\ RunInv => OneSessionPerNode
  <2> SUFFICES ASSUME TypeOK, RunInv, NEW n \in Nodes
               PROVE  LET S == {w \in Workers : session[w].step # "free" /\ session[w].node = n}
                      IN  Cardinality(S) <= 1 /\ (S # {} <=> node[n] = "RUNNING")
    BY DEF OneSessionPerNode
  <2> DEFINE S == {w \in Workers : session[w].step # "free" /\ session[w].node = n}
  <2>1. S # {} <=> node[n] = "RUNNING"
    BY DEF RunInv, Busy
  <2>2. \A v, w \in S : v = w
    BY DEF RunInv, Busy
  <2>3. CASE S = {}
    BY <2>1, <2>3, FS_EmptySet
  <2>4. ASSUME NEW w \in S PROVE Cardinality(S) <= 1
    <3>1. S = {} \cup {w}
      BY <2>2, <2>4
    <3>2. IsFiniteSet({}) /\ Cardinality({}) = 0 /\ w \notin {}
      BY FS_EmptySet
    <3>3. Cardinality({} \cup {w}) = Cardinality({}) + 1
      BY <3>2, FS_AddElement
    <3>4. Cardinality({} \cup {w}) = 1
      BY <3>2, <3>3
    <3> HIDE DEF S
    <3> QED
      BY <3>1, <3>4
  <2> QED
    BY <2>1, <2>3, <2>4
<1> QED
  BY <1>1, ConsentCorrect, PTL DEF ConsentInv

(* A node is woken by the answer to its own question.                      *)
THEOREM AskerIsWokenCorrect ==
  ASSUME SingleRequest
  PROVE  Spec => []AskerIsWoken
BY ConsentCorrect, PTL DEF ConsentInv

(* A one-time approval is used at most once per worker: only those who had *)
(* read it as open before its first use can follow.                        *)
THEOREM OnceCorrect ==
  ASSUME SingleRequest
  PROVE  Spec => []OnceAtMostPerWorker
<1>1. TypeOK /\ UsesInv => OnceAtMostPerWorker
  <2> SUFFICES ASSUME TypeOK, UsesInv, NEW i \in DOMAIN approvals,
                      approvals[i].status = "APPROVED_ONCE"
               PROVE  uses[i] <= Cardinality(Workers)
    BY DEF OnceAtMostPerWorker
  <2>1. uses[i] \in Nat /\ Cardinality(Holders(i)) \in Nat /\ Cardinality(Workers) \in Nat
    BY UsesOne, SubsetOfWorkers DEF Holders
  <2>2. uses[i] + Cardinality(Holders(i)) <= Cardinality(Workers)
    BY DEF UsesInv, UsesOK
  <2> QED
    BY <2>1, <2>2
<1> QED
  BY <1>1, ConsentCorrect, PTL DEF ConsentInv

(* The owner's answer is final.                                            *)
THEOREM AnswerCorrect ==
  ASSUME SingleRequest
  PROVE  Spec => AnswerIsFinal
<1>1. ConsentInv /\ [Next]_vars =>
        [\A i \in DOMAIN approvals :
           approvals[i].status # "PENDING" => approvals'[i].status = approvals[i].status]_vars
  BY LastingStep DEF ConsentInv, Lasting
<1> QED
  BY <1>1, ConsentCorrect, PTL DEF Spec, AnswerIsFinal

(* No risky call starts without an approval that covers it.                *)
THEOREM ConsentGiven ==
  ASSUME SingleRequest
  PROVE  Spec => RiskyRunsWithConsent
<1> DEFINE Covered(w, c) ==
      \E i \in DOMAIN approvals :
        \/ /\ approvals[i].status = "APPROVED_FOR_TASK"
           /\ OperationOf[approvals[i].call] = OperationOf[c]
        \/ approvals[i].status = "APPROVED_ONCE" /\ approvals[i].call = c
<1>1. ASSUME ConsentInv, [Next]_vars, NEW w \in Workers, NEW c \in Risky \ AutoApproved,
             Runs(w, c)
      PROVE  Covered(w, c)
  <2>1. RunTool(w)
    <3>1. ASSUME NEW v \in Workers, Agent(v), ~RunTool(v) PROVE session'[w].step # "running" \/ session'[w] = session[w]
      BY <1>1, <3>1 DEF ConsentInv, TypeOK, SessionRow, Agent, Start, Finish, CountCalls,
         ReadApprovals, JoinPending, RequestApproval, Refused, ToolReturns, Leave, Resume,
         Free, Thinking
    <3>2. ASSUME NEW v \in Workers, RunTool(v), v # w PROVE session'[w] = session[w]
      BY <1>1, <3>2 DEF ConsentInv, TypeOK, RunTool, Goto
    <3>3. ASSUME NEW q \in Requests, Owner(q) PROVE session' = session
      BY <3>3 DEF Owner, DecideRead, DecideCommit
    <3> QED
      BY <1>1, <3>1, <3>2, <3>3 DEF Next, vars, Runs
  <2>2. At(w, "decided") /\ session[w].state \in Granted /\ Backed(w) /\ session[w].call = c
    BY <1>1, <2>1 DEF RunTool, Decided, Goto, ConsentInv, BackedInv, Runs, TypeOK, SessionRow
  <2>3. session[w].state \in {"APPROVED_ONCE", "APPROVED_FOR_TASK"}
    BY <1>1, <2>2 DEF Backed, Granted
  <2>4. session[w].approval \in DOMAIN approvals
    BY <1>1, <2>2, <2>3, DecidedRow DEF ConsentInv, ApprovalStatus
  <2> QED
    BY <2>2, <2>3, <2>4 DEF Backed
<1>2. ConsentInv /\ [Next]_vars =>
        [\A w \in Workers, c \in Risky \ AutoApproved : Runs(w, c) => Covered(w, c)]_vars
  BY <1>1
<1> QED
  BY <1>2, ConsentCorrect, PTL DEF Spec, RiskyRunsWithConsent
=============================================================================
