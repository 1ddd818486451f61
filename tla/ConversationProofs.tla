-------------------------- MODULE ConversationProofs --------------------------
(* Proofs about Conversation for any requests, processes, drafts, lengths of *)
(* replies and numbers of faults: its types, one reply for every request,    *)
(* pages that are never ahead of the database, and the refinement of Replies.*)
EXTENDS Conversation, FiniteSetTheorems, WellFoundedInduction, TLAPS

(* The texts of replies. *)
LEMMA Words ==
  /\ \A n \in 0..Chunks : Whole(n) \in Texts
  /\ \A n \in 0..Chunks : Len(Whole(n)) = n
  /\ <<>> \in Texts /\ ErrorText \in Texts
  /\ \A n \in 0..Chunks : <<n>> \in Texts
<1>1. Chunks \in Nat
  BY BoundsAreNaturals
<1>2. \A n \in 0..Chunks : Whole(n) \in Seq(0..Chunks) /\ Len(Whole(n)) = n
  BY <1>1 DEF Whole
<1>3. <<>> \in Seq(0..Chunks)
  OBVIOUS
<1>4. \A n \in 0..Chunks : <<n>> \in Seq(0..Chunks)
  OBVIOUS
<1>5. 0 \in 0..Chunks
  BY <1>1
<1> QED
  BY <1>2, <1>3, <1>4, <1>5 DEF Texts, ErrorText

LEMMA RowTypes ==
  /\ Absent \in Rows
  /\ \A n \in 0..Chunks : Row("STREAMING", Whole(n)) \in Rows /\ Row("COMPLETED", Whole(n)) \in Rows
  /\ Row("STREAMING", <<>>) \in Rows /\ Row("FAILED", ErrorText) \in Rows
BY Words DEF Rows, Row, Absent

(* An event is appended; nothing else of the database changes but the lock. *)
LEMMA AddEventTypes ==
  ASSUME DbTypes, NEW p \in Procs, NEW loaded, NEW kind \in Kinds,
         NEW d \in Drafts \cup {NoDraft}, kind # "message.user" => d \in Drafts,
         AddEvent(p, loaded, kind, d), UNCHANGED <<posted, rows, step>>
  PROVE  DbTypes' /\ Ids \subseteq Ids'
<1> DEFINE new == [kind |-> kind, draft |-> d, locked |-> loaded # kind, tx |-> "open"]
<1>1. events' = Append(events, new)
  BY DEF AddEvent
<1>2. new \in EventRecords /\ new.kind = kind /\ new.draft = d
  BY DEF EventRecords
<1> HIDE DEF new
<1>3. events \in Seq(EventRecords)
  BY DEF DbTypes
<1>4. /\ events' \in Seq(EventRecords) /\ Len(events') = Len(events) + 1
      /\ \A i \in Ids : events'[i] = events[i]
      /\ events'[Len(events) + 1] = new
      /\ Ids' = Ids \cup {Len(events) + 1} /\ Len(events) + 1 # 0
  BY <1>1, <1>2, <1>3 DEF Ids
<1>5. \A i \in Ids' : events'[i].kind # "message.user" => events'[i].draft \in Drafts
  BY <1>2, <1>4 DEF DbTypes
<1>6. event' = [event EXCEPT ![p] = Len(events) + 1]
  BY DEF AddEvent
<1>7. event' \in [Procs -> Ids' \cup {0}] /\ event'[p] # 0
      /\ \A q \in Procs : q # p => event'[q] = event[q]
  BY <1>4, <1>6 DEF DbTypes
<1>8. holder' \in Procs \cup {NoProc} /\ (holder' # NoProc => event'[holder'] # 0)
  BY <1>7 DEF DbTypes, AddEvent
<1> QED
  BY <1>4, <1>5, <1>7, <1>8 DEF DbTypes

(* A transaction ends: its event changes its tx alone. *)
LEMMA EndTypes ==
  ASSUME DbTypes, NEW p \in Procs, NEW outcome \in {"committed", "void"},
         EndTransaction(p, outcome), posted' \subseteq Requests, rows' \in [Drafts -> Rows]
  PROVE  /\ DbTypes' /\ Ids' = Ids
         /\ \A i \in Ids : events'[i].kind = events[i].kind /\ events'[i].draft = events[i].draft
<1>1. events \in Seq(EventRecords) /\ event[p] \in Ids \cup {0}
  BY DEF DbTypes
<1>2. /\ events' \in Seq(EventRecords) /\ Ids' = Ids
      /\ \A i \in Ids : events'[i].kind = events[i].kind /\ events'[i].draft = events[i].draft
  <2>1. CASE event[p] = 0
    BY <1>1, <2>1 DEF EndTransaction, Ids
  <2>2. CASE event[p] # 0
    <3>1. event[p] \in Ids /\ events' = [events EXCEPT ![event[p]].tx = outcome]
      BY <1>1, <2>2 DEF EndTransaction
    <3>2. /\ [events[event[p]] EXCEPT !.tx = outcome] \in EventRecords
          /\ [events[event[p]] EXCEPT !.tx = outcome].kind = events[event[p]].kind
          /\ [events[event[p]] EXCEPT !.tx = outcome].draft = events[event[p]].draft
      <4>1. events[event[p]] \in EventRecords
        BY <1>1, <3>1 DEF Ids
      <4> QED
        BY <4>1 DEF EventRecords
    <3> DEFINE e == [events[event[p]] EXCEPT !.tx = outcome]
    <3>3. events' = [events EXCEPT ![event[p]] = e]
      BY <3>1
    <3> HIDE DEF e
    <3> QED
      BY <1>1, <3>1, <3>2, <3>3 DEF Ids, e
  <2> QED
    BY <2>1, <2>2
<1>3. step' \in Titles
  <2>1. CASE holder = p /\ outcome = "committed"
    <3>1. event[p] \in Ids
      BY <1>1, <2>1, NoneIsNone DEF DbTypes
    <3>2. events[event[p]] \in EventRecords
      BY <1>1, <3>1 DEF Ids
    <3>3. events[event[p]].kind \in Kinds
      BY <3>2 DEF EventRecords
    <3> QED
      BY <2>1, <3>3 DEF EndTransaction, Titles
  <2>2. CASE ~(holder = p /\ outcome = "committed")
    BY <2>2 DEF EndTransaction, DbTypes
  <2> QED
    BY <2>1, <2>2
<1>4. /\ event' \in [Procs -> Ids' \cup {0}]
      /\ holder' \in Procs \cup {NoProc} /\ (holder' # NoProc => event'[holder'] # 0)
  <2>1. event' = [event EXCEPT ![p] = 0] /\ event \in [Procs -> Ids \cup {0}]
    BY DEF EndTransaction, DbTypes
  <2>2. event' \in [Procs -> Ids \cup {0}] /\ \A q \in Procs : q # p => event'[q] = event[q]
    BY <2>1
  <2>3. /\ holder' = IF holder = p THEN NoProc ELSE holder
        /\ holder \in Procs \cup {NoProc} /\ (holder # NoProc => event[holder] # 0)
    BY DEF EndTransaction, DbTypes
  <2> QED
    BY <1>2, <2>2, <2>3
<1>5. \A i \in Ids' : events'[i].kind # "message.user" => events'[i].draft \in Drafts
  BY <1>2 DEF DbTypes
<1> QED
  BY <1>2, <1>3, <1>4, <1>5 DEF DbTypes

(* A notice reaches the subscriber or is lost. *)
LEMMA PublishTypes ==
  ASSUME stream \in Streams, faults \in Nat, missed \in BOOLEAN,
         NEW kind \in {"message.started", "message.delta"} \cup Ends,
         NEW d \in Drafts, NEW words \in Texts,
         Publish(kind, d, words)
  PROVE  /\ stream' \in Streams /\ stream'.batch = stream.batch
         /\ faults' \in Nat /\ missed' \in BOOLEAN
<1> DEFINE n == [kind |-> kind, draft |-> d, text |-> words]
<1>1. n \in Notices
  BY DEF Notices
<1>2. Append(stream.queue, n) \in Seq(Notices)
  BY <1>1 DEF Streams
<1> HIDE DEF n
<1>3. CASE UNCHANGED <<missed, faults>>
  <2>1. stream' = IF stream.live THEN [stream EXCEPT !.queue = Append(@, n)] ELSE stream
    BY <1>3 DEF Publish, n
  <2> QED
    BY <1>2, <1>3, <2>1 DEF Streams
<1>4. CASE faults' = faults + 1 /\ missed' = TRUE /\ UNCHANGED stream
  BY <1>4
<1> QED
  BY <1>3, <1>4 DEF Publish

LEMMA InitTypes ==
  ASSUME Init
  PROVE  TypeOK
<1>1. DbTypes
  BY RowTypes DEF Init, DbTypes, Ids, Titles
<1>2. ProcTypes
  <2>1. 0 \in 0..Chunks
    BY BoundsAreNaturals
  <2>2. /\ at = [p \in Procs |-> "idle"] /\ \A s \in Servers : s \in Procs
        /\ \A w \in Workers : w \in Procs
    BY DEF Init, Procs
  <2>3. /\ at \in [Procs -> ServerSteps \cup WorkerSteps]
        /\ \A s \in Servers : at[s] = "idle"
        /\ \A w \in Workers : at[w] = "idle"
    BY <2>2 DEF ServerSteps
  <2>4. posts \in [Requests -> Nat] /\ jobs \in Nat /\ faults \in Nat /\ missed \in BOOLEAN
    BY DEF Init
  <2>5. /\ title \in [Procs -> Titles \cup {NoTitle}]
        /\ request \in [Servers -> Requests \cup {NoRequest}]
        /\ draft \in [Workers -> Drafts \cup {NoDraft}]
        /\ told \in [Workers -> 0..Chunks] /\ kept \in [Workers -> 0..Chunks]
    BY <2>1 DEF Init
  <2> QED
    BY <2>3, <2>4, <2>5 DEF ProcTypes, ServerSteps, WorkerSteps
<1>3. ReaderTypes
  <2>1. [d \in Drafts |-> Absent] \in [Drafts -> Rows]
    BY RowTypes
  <2>2. <<>> \in Seq(Notices)
    OBVIOUS
  <2>3. stream \in Streams /\ stream.batch = {}
    BY <2>2 DEF Init, Closed, Streams
  <2>4. page \in Pages
    BY <2>1 DEF Init, NewPage, Pages
  <2>5. load \in Loads /\ load.events = {}
    BY <2>1 DEF Init, NewLoad, Loads
  <2> QED
    BY <2>3, <2>4, <2>5 DEF ReaderTypes
<1> QED
  BY <1>1, <1>2, <1>3 DEF TypeOK

(* The reader's types stay when the log grows and the reader does nothing. *)
LEMMA ReaderStays ==
  ASSUME ReaderTypes, Ids \subseteq Ids', stream' \in Streams, stream'.batch = stream.batch,
         UNCHANGED reader
  PROVE  ReaderTypes'
BY DEF ReaderTypes, reader

LEMMA DbStays ==
  ASSUME DbTypes, UNCHANGED db, UNCHANGED event
  PROVE  DbTypes' /\ Ids' = Ids
BY DEF DbTypes, db, Ids

(* What the steps of a process leave of ProcTypes to be shown. *)
LEMMA GotoTypes ==
  ASSUME ProcTypes, NEW p \in Procs, NEW place, Goto(p, place),
         p \in Servers => place \in ServerSteps, p \in Workers => place \in WorkerSteps
  PROVE  /\ at' \in [Procs -> ServerSteps \cup WorkerSteps]
         /\ at'[p] = place /\ \A q \in Procs : q # p => at'[q] = at[q]
         /\ \A s \in Servers : at'[s] \in ServerSteps
         /\ \A w \in Workers : at'[w] \in WorkerSteps
BY NoneIsNone DEF ProcTypes, Goto, Procs

LEMMA ReceiveTypes ==
  ASSUME TypeOK, NEW s \in Servers, NEW c \in Requests, Receive(s, c)
  PROVE  TypeOK'
<1>1. DbTypes' /\ Ids' = Ids
  BY DbStays DEF TypeOK, Receive
<1>2. ReaderTypes'
  BY <1>1, ReaderStays DEF TypeOK, ReaderTypes, Receive
<1>3. ProcTypes'
  <2>1. posts' \in [Requests -> Nat]
    BY DEF TypeOK, ProcTypes, Receive
  <2>2. CASE c \in posted
    BY <2>1, <2>2 DEF TypeOK, ProcTypes, Receive
  <2>3. CASE c \notin posted
    <3>1. Goto(s, "checked") /\ title' = [title EXCEPT ![s] = step]
          /\ request' = [request EXCEPT ![s] = c]
      BY <2>3 DEF Receive, Load
    <3>2. s \in Procs /\ s \notin Workers
      BY NoneIsNone DEF Procs
    <3>3. /\ at' \in [Procs -> ServerSteps \cup WorkerSteps]
          /\ at'[s] = "checked" /\ \A q \in Procs : q # s => at'[q] = at[q]
          /\ \A r \in Servers : at'[r] \in ServerSteps
          /\ \A w \in Workers : at'[w] \in WorkerSteps
      BY <3>1, <3>2, GotoTypes DEF TypeOK, ServerSteps
    <3>4. title' \in [Procs -> Titles \cup {NoTitle}]
      BY <3>1 DEF TypeOK, ProcTypes, DbTypes
    <3>5. \A r \in Servers : at'[r] # "idle" => request'[r] \in Requests
      BY <3>1, <3>3 DEF TypeOK, ProcTypes, Procs
    <3>6. \A w \in Workers : at'[w] \notin {"idle", "loaded"} => draft'[w] \in Drafts
      BY <3>2, <3>3 DEF TypeOK, ProcTypes, Procs, Receive
    <3>7. request' \in [Servers -> Requests \cup {NoRequest}]
      BY <3>1 DEF TypeOK, ProcTypes
    <3> QED
      BY <2>1, <3>3, <3>4, <3>5, <3>6, <3>7 DEF TypeOK, ProcTypes, Receive
  <2> QED
    BY <2>2, <2>3
<1> QED
  BY <1>1, <1>2, <1>3 DEF TypeOK

LEMMA ServerTypes ==
  ASSUME TypeOK, NEW s \in Servers, ServerStep(s) \/ ServerDies(s)
  PROVE  TypeOK'
<1>1. s \in Procs /\ s \notin Workers
  BY NoneIsNone DEF Procs
<1>2. stream' = stream /\ UNCHANGED reader
  BY DEF ServerStep, ServerDies, Insert, InsertRefused, CommitPost, SendReplyTask
<1>3. PICK place \in {"idle", "flushed", "posted"} :
        Goto(s, place) /\ (place # "idle" => at[s] # "idle" /\ UNCHANGED request)
  BY DEF ServerStep, ServerDies, Insert, InsertRefused, CommitPost, SendReplyTask
<1>4. /\ at' \in [Procs -> ServerSteps \cup WorkerSteps]
      /\ at'[s] = place /\ \A q \in Procs : q # s => at'[q] = at[q]
      /\ \A r \in Servers : at'[r] \in ServerSteps
      /\ \A w \in Workers : at'[w] \in WorkerSteps
  BY <1>1, <1>3, GotoTypes DEF TypeOK, ServerSteps
<1>5. UNCHANGED request \/ request' = [request EXCEPT ![s] = NoRequest]
  BY DEF ServerStep, ServerDies, Insert, InsertRefused, CommitPost, SendReplyTask
<1>6. \A r \in Servers : at'[r] # "idle" => request'[r] \in Requests
  BY <1>3, <1>4, <1>5 DEF TypeOK, ProcTypes, Procs
<1>7. request' \in [Servers -> Requests \cup {NoRequest}]
  BY <1>5 DEF TypeOK, ProcTypes
<1>8. \A w \in Workers : at'[w] \notin {"idle", "loaded"} => draft'[w] \in Drafts
  BY <1>1, <1>4 DEF TypeOK, ProcTypes, Procs, ServerStep, ServerDies, Insert, InsertRefused,
     CommitPost, SendReplyTask
<1>9. title' \in [Procs -> Titles \cup {NoTitle}]
  <2>1. UNCHANGED title \/ title' = [title EXCEPT ![s] = NoTitle]
    BY DEF ServerStep, ServerDies, Insert, InsertRefused, CommitPost, SendReplyTask, AddEvent
  <2> QED
    BY <1>1, <2>1 DEF TypeOK, ProcTypes
<1>10. /\ jobs' \in Nat /\ faults' \in Nat /\ missed' \in BOOLEAN
       /\ posts' = posts /\ draft' = draft /\ told' = told /\ kept' = kept
  BY DEF TypeOK, ProcTypes, ServerStep, ServerDies, Insert, InsertRefused, CommitPost,
     SendReplyTask
<1>11. ProcTypes'
  BY <1>4, <1>6, <1>7, <1>8, <1>9, <1>10 DEF TypeOK, ProcTypes
<1>12. DbTypes' /\ Ids \subseteq Ids'
  <2>1. CASE Insert(s)
    <3>1. "message.user" \in Kinds
      BY DEF Kinds
    <3> QED
      BY <1>1, <2>1, <3>1, AddEventTypes DEF TypeOK, Insert
  <2>2. CASE InsertRefused(s) \/ SendReplyTask(s)
    BY <2>2, DbStays DEF TypeOK, InsertRefused, SendReplyTask
  <2>3. CASE CommitPost(s)
    <3>1. request[s] \in Requests /\ posted \subseteq Requests /\ rows \in [Drafts -> Rows]
      BY <2>3 DEF TypeOK, ProcTypes, DbTypes, CommitPost
    <3>2. posted' \subseteq Requests /\ rows' \in [Drafts -> Rows]
      BY <2>3, <3>1 DEF CommitPost
    <3>3. EndTransaction(s, "committed")
      BY <2>3 DEF CommitPost, Commit
    <3> QED
      BY <1>1, <3>2, <3>3, EndTypes DEF TypeOK
  <2>4. CASE ServerDies(s)
    <3>1. posted' \subseteq Requests /\ rows' \in [Drafts -> Rows] /\ EndTransaction(s, "void")
      BY <2>4 DEF TypeOK, DbTypes, ServerDies
    <3> QED
      BY <1>1, <3>1, EndTypes DEF TypeOK
  <2> QED
    BY <2>1, <2>2, <2>3, <2>4 DEF ServerStep
<1>13. ReaderTypes'
  BY <1>2, <1>12, ReaderStays DEF TypeOK, ReaderTypes
<1> QED
  BY <1>11, <1>12, <1>13 DEF TypeOK

(* What a step of a worker has to keep of the types of the processes. *)
LEMMA WorkerProcs ==
  ASSUME ProcTypes, NEW w \in Workers, NEW place \in WorkerSteps, Goto(w, place),
         draft' \in [Workers -> Drafts \cup {NoDraft}],
         \A v \in Workers : v # w => draft'[v] = draft[v],
         place \notin {"idle", "loaded"} => draft'[w] \in Drafts,
         told' \in [Workers -> 0..Chunks], kept' \in [Workers -> 0..Chunks],
         title' \in [Procs -> Titles \cup {NoTitle}],
         jobs' \in Nat, faults' \in Nat, missed' \in BOOLEAN, UNCHANGED <<posts, request>>
  PROVE  ProcTypes'
<1>1. w \in Procs /\ w \notin Servers
  BY NoneIsNone DEF Procs
<1>2. /\ at' \in [Procs -> ServerSteps \cup WorkerSteps]
      /\ at'[w] = place /\ \A q \in Procs : q # w => at'[q] = at[q]
      /\ \A r \in Servers : at'[r] \in ServerSteps
      /\ \A v \in Workers : at'[v] \in WorkerSteps
  BY <1>1, GotoTypes
<1>3. \A r \in Servers : at'[r] # "idle" => request'[r] \in Requests
  BY <1>1, <1>2 DEF ProcTypes, Procs
<1>4. \A v \in Workers : at'[v] \notin {"idle", "loaded"} => draft'[v] \in Drafts
  BY <1>2 DEF ProcTypes, Procs
<1> QED
  BY <1>2, <1>3, <1>4 DEF ProcTypes

(* The part of WorkerProcs that is the same for all steps that keep the draft. *)
LEMMA WorkerGoesOn ==
  ASSUME ProcTypes, NEW w \in Workers, NEW place \in WorkerSteps, Goto(w, place),
         place \notin {"idle", "loaded"} => at[w] \notin {"idle", "loaded"},
         UNCHANGED <<posts, request, draft>>,
         told' \in [Workers -> 0..Chunks], kept' \in [Workers -> 0..Chunks],
         title' \in [Procs -> Titles \cup {NoTitle}],
         jobs' \in Nat, faults' \in Nat, missed' \in BOOLEAN
  PROVE  ProcTypes'
<1>1. /\ draft' \in [Workers -> Drafts \cup {NoDraft}]
      /\ place \notin {"idle", "loaded"} => draft'[w] \in Drafts
  BY DEF ProcTypes
<1> QED
  BY <1>1, WorkerProcs

LEMMA WorkerLeaves ==
  ASSUME ProcTypes, NEW w \in Workers, Leave(w), UNCHANGED <<posts, request>>,
         title' \in [Procs -> Titles \cup {NoTitle}],
         jobs' \in Nat, faults' \in Nat, missed' \in BOOLEAN
  PROVE  ProcTypes'
<1>1. 0 \in 0..Chunks /\ "idle" \in WorkerSteps
  BY BoundsAreNaturals DEF WorkerSteps
<1>2. /\ draft' \in [Workers -> Drafts \cup {NoDraft}]
      /\ \A v \in Workers : v # w => draft'[v] = draft[v]
      /\ told' \in [Workers -> 0..Chunks] /\ kept' \in [Workers -> 0..Chunks]
  BY <1>1 DEF ProcTypes, Leave
<1>3. Goto(w, "idle")
  BY DEF Leave
<1> QED
  BY <1>1, <1>2, <1>3, WorkerProcs

LEMMA Titled ==
  ASSUME TypeOK, NEW p \in Procs, NEW t \in Titles \cup {NoTitle},
         UNCHANGED title \/ title' = [title EXCEPT ![p] = t]
  PROVE  title' \in [Procs -> Titles \cup {NoTitle}]
BY DEF TypeOK, ProcTypes

LEMMA TakeJobTypes ==
  ASSUME TypeOK, NEW w \in Workers, TakeJob(w)
  PROVE  TypeOK'
<1>1. DbTypes' /\ Ids' = Ids
  BY DbStays DEF TypeOK, TakeJob
<1>2. ReaderTypes'
  BY <1>1, ReaderStays DEF TypeOK, ReaderTypes, TakeJob
<1>3. w \in Procs /\ step \in Titles
  BY DEF Procs, TypeOK, DbTypes
<1>4. title' \in [Procs -> Titles \cup {NoTitle}]
  BY <1>3, Titled DEF TakeJob, Load
<1>5. /\ Goto(w, "loaded") /\ "loaded" \in WorkerSteps /\ UNCHANGED <<posts, request, draft>>
      /\ told' \in [Workers -> 0..Chunks] /\ kept' \in [Workers -> 0..Chunks]
      /\ jobs' \in Nat /\ faults' \in Nat /\ missed' \in BOOLEAN
  BY DEF TypeOK, ProcTypes, TakeJob, Load, WorkerSteps
<1>6. ProcTypes'
  BY <1>4, <1>5, WorkerGoesOn DEF TypeOK
<1> QED
  BY <1>1, <1>2, <1>6 DEF TypeOK

(* The steps that add an event: InsertDraft, AnswerEnds, AnswerFails. *)
LEMMA InsertDraftTypes ==
  ASSUME TypeOK, NEW w \in Workers, NEW d \in Drafts, InsertDraft(w, d)
  PROVE  TypeOK'
<1>1. w \in Procs /\ "message.started" \in Kinds
  BY DEF Procs, Kinds
<1>2. DbTypes' /\ Ids \subseteq Ids'
  BY <1>1, AddEventTypes DEF TypeOK, InsertDraft
<1>3. ReaderTypes'
  BY <1>2, ReaderStays DEF TypeOK, ReaderTypes, InsertDraft
<1>4. title' \in [Procs -> Titles \cup {NoTitle}]
  BY <1>1, Titled DEF InsertDraft, AddEvent
<1>5. /\ draft' \in [Workers -> Drafts \cup {NoDraft}] /\ draft'[w] = d
      /\ \A v \in Workers : v # w => draft'[v] = draft[v]
      /\ told' \in [Workers -> 0..Chunks] /\ kept' \in [Workers -> 0..Chunks]
      /\ jobs' \in Nat /\ faults' \in Nat /\ missed' \in BOOLEAN
      /\ UNCHANGED <<posts, request>> /\ Goto(w, "drafted") /\ "drafted" \in WorkerSteps
  BY DEF TypeOK, ProcTypes, InsertDraft, WorkerSteps
<1>6. ProcTypes'
  BY <1>4, <1>5, WorkerProcs DEF TypeOK
<1> QED
  BY <1>2, <1>3, <1>6 DEF TypeOK

LEMMA AnswerTypes ==
  ASSUME TypeOK, NEW w \in Workers, AnswerEnds(w) \/ AnswerFails(w)
  PROVE  TypeOK'
<1>1. PICK kind \in Ends, place \in {"closing", "marking"} :
        AddEvent(w, step, kind, draft[w]) /\ Goto(w, place)
  BY DEF AnswerEnds, AnswerFails, Ends
<1>2. w \in Procs /\ kind \in Kinds /\ place \in WorkerSteps /\ draft[w] \in Drafts
  BY DEF Procs, Kinds, Ends, WorkerSteps, TypeOK, ProcTypes, AnswerEnds, AnswerFails
<1>3. DbTypes' /\ Ids \subseteq Ids'
  BY <1>1, <1>2, AddEventTypes DEF TypeOK, AnswerEnds, AnswerFails
<1>4. ReaderTypes'
  BY <1>3, ReaderStays DEF TypeOK, ReaderTypes, AnswerEnds, AnswerFails
<1>5. title' \in [Procs -> Titles \cup {NoTitle}]
  BY <1>1, <1>2, Titled DEF AddEvent
<1>6. /\ UNCHANGED <<posts, request, draft>> /\ at[w] = "streaming"
      /\ told' \in [Workers -> 0..Chunks] /\ kept' \in [Workers -> 0..Chunks]
      /\ jobs' \in Nat /\ faults' \in Nat /\ missed' \in BOOLEAN
  BY DEF TypeOK, ProcTypes, AnswerEnds, AnswerFails
<1>7. ProcTypes'
  BY <1>1, <1>2, <1>5, <1>6, WorkerGoesOn DEF TypeOK
<1> QED
  BY <1>3, <1>4, <1>7 DEF TypeOK

(* The steps that write the row. *)
LEMMA WriteTypes ==
  ASSUME DbTypes, NEW w \in Workers, NEW row \in Rows, Write(w, row)
  PROVE  rows' \in [Drafts -> Rows]
BY DEF DbTypes, Write

LEMMA CommitTypes ==
  ASSUME TypeOK, NEW w \in Workers, CommitDraft(w) \/ CommitEnd(w)
  PROVE  TypeOK'
<1>1. PICK row \in Rows, place \in {"begun", "completed", "failed"} :
        Write(w, row) /\ Goto(w, place)
  <2>1. told[w] \in 0..Chunks
    BY DEF TypeOK, ProcTypes
  <2>2. CASE CommitDraft(w)
    BY <2>2, RowTypes DEF CommitDraft
  <2>3. CASE CommitEnd(w) /\ at[w] = "closing"
    BY <2>1, <2>3, RowTypes DEF CommitEnd
  <2>4. CASE CommitEnd(w) /\ at[w] # "closing"
    BY <2>4, RowTypes DEF CommitEnd
  <2> QED
    BY <2>2, <2>3, <2>4
<1>2. w \in Procs /\ place \in WorkerSteps /\ at[w] \notin {"idle", "loaded"}
  BY DEF Procs, WorkerSteps, CommitDraft, CommitEnd
<1>3. EndTransaction(w, "committed") /\ posted' = posted
  BY DEF CommitDraft, CommitEnd, Commit
<1>4. rows' \in [Drafts -> Rows] /\ posted' \subseteq Requests
  BY <1>1, <1>3, WriteTypes DEF TypeOK, DbTypes
<1>5. DbTypes' /\ Ids' = Ids
  BY <1>2, <1>3, <1>4, EndTypes DEF TypeOK
<1>6. ReaderTypes'
  BY <1>5, ReaderStays DEF TypeOK, ReaderTypes, CommitDraft, CommitEnd
<1>7. /\ UNCHANGED <<posts, request, draft>>
      /\ told' \in [Workers -> 0..Chunks] /\ kept' \in [Workers -> 0..Chunks]
      /\ title' \in [Procs -> Titles \cup {NoTitle}]
      /\ jobs' \in Nat /\ faults' \in Nat /\ missed' \in BOOLEAN
  BY DEF TypeOK, ProcTypes, CommitDraft, CommitEnd
<1>8. ProcTypes'
  BY <1>1, <1>2, <1>7, WorkerGoesOn DEF TypeOK
<1> QED
  BY <1>5, <1>6, <1>8 DEF TypeOK

LEMMA CheckpointTypes ==
  ASSUME TypeOK, NEW w \in Workers, Checkpoint(w)
  PROVE  TypeOK'
<1>1. draft[w] \in Drafts /\ told[w] \in 0..Chunks /\ rows \in [Drafts -> Rows]
  BY DEF TypeOK, DbTypes, ProcTypes, Checkpoint
<1>2. [rows[draft[w]] EXCEPT !.text = Whole(told[w])] \in Rows
  <2>1. rows[draft[w]] \in Rows /\ Whole(told[w]) \in Texts
    BY <1>1, Words
  <2> QED
    BY <2>1 DEF Rows
<1>3. rows' \in [Drafts -> Rows]
  BY <1>1, <1>2 DEF Checkpoint, Write
<1>4. DbTypes' /\ Ids' = Ids
  BY <1>3 DEF TypeOK, DbTypes, Checkpoint, Ids
<1>5. ReaderTypes'
  BY <1>4, ReaderStays DEF TypeOK, ReaderTypes, Checkpoint
<1>6. /\ UNCHANGED <<posts, request, draft>> /\ Goto(w, "streaming")
      /\ at[w] = "keeping" /\ "streaming" \in WorkerSteps
      /\ told' \in [Workers -> 0..Chunks] /\ kept' \in [Workers -> 0..Chunks]
      /\ title' \in [Procs -> Titles \cup {NoTitle}]
      /\ jobs' \in Nat /\ faults' \in Nat /\ missed' \in BOOLEAN
  BY <1>1 DEF TypeOK, ProcTypes, Checkpoint, WorkerSteps
<1>7. ProcTypes'
  BY <1>6, WorkerGoesOn DEF TypeOK
<1> QED
  BY <1>4, <1>5, <1>7 DEF TypeOK

(* The steps that publish. *)
LEMMA NoticeTypes ==
  ASSUME TypeOK, NEW w \in Workers, PublishStarted(w) \/ Delta(w) \/ PublishEnd(w)
  PROVE  TypeOK'
<1>1. draft[w] \in Drafts /\ told[w] \in 0..Chunks /\ Chunks \in Nat
  BY BoundsAreNaturals DEF TypeOK, ProcTypes, PublishStarted, Delta, PublishEnd
<1>2. stream \in Streams /\ faults \in Nat /\ missed \in BOOLEAN
  BY DEF TypeOK, ReaderTypes, ProcTypes
<1>3. PICK kind \in {"message.started", "message.delta"} \cup Ends, words \in Texts :
        Publish(kind, draft[w], words)
  <2>1. CASE PublishStarted(w)
    BY <2>1, Words DEF PublishStarted
  <2>2. CASE Delta(w)
    <3>1. told[w] + 1 \in 0..Chunks
      BY <1>1, <2>2 DEF Delta
    <3>2. <<told[w] + 1>> \in Texts
      BY <3>1, Words
    <3> QED
      BY <2>2, <3>2 DEF Delta
  <2>3. CASE PublishEnd(w)
    <3>1. Whole(told[w]) \in Texts /\ ErrorText \in Texts
      BY <1>1, Words
    <3> QED
      BY <2>3, <3>1 DEF PublishEnd, Ends
  <2> QED
    BY <2>1, <2>2, <2>3
<1>4. /\ stream' \in Streams /\ stream'.batch = stream.batch
      /\ faults' \in Nat /\ missed' \in BOOLEAN
  BY <1>1, <1>2, <1>3, PublishTypes
<1>5. DbTypes' /\ Ids' = Ids
  BY DbStays DEF TypeOK, PublishStarted, Delta, PublishEnd
<1>6. ReaderTypes'
  BY <1>4, <1>5, ReaderStays DEF TypeOK, PublishStarted, Delta, PublishEnd
<1>7. title' \in [Procs -> Titles \cup {NoTitle}] /\ jobs' \in Nat
  BY DEF TypeOK, ProcTypes, PublishStarted, Delta, PublishEnd
<1>8. ProcTypes'
  <2>1. CASE PublishStarted(w)
    <3>1. /\ UNCHANGED <<posts, request, draft>> /\ Goto(w, "streaming") /\ at[w] = "begun"
          /\ told' \in [Workers -> 0..Chunks] /\ kept' \in [Workers -> 0..Chunks]
          /\ "streaming" \in WorkerSteps
      BY <2>1 DEF TypeOK, ProcTypes, PublishStarted, WorkerSteps
    <3> QED
      BY <1>4, <1>7, <3>1, WorkerGoesOn DEF TypeOK
  <2>2. CASE Delta(w)
    <3>1. told[w] + 1 \in 0..Chunks
      BY <1>1, <2>2 DEF Delta
    <3>2. w \in Procs /\ at \in [Procs -> ServerSteps \cup WorkerSteps]
      BY DEF TypeOK, ProcTypes, Procs
    <3>3. Goto(w, "keeping") \/ Goto(w, "streaming")
      BY <2>2, <3>2 DEF Delta, Goto
    <3>4. /\ UNCHANGED <<posts, request, draft>> /\ at[w] = "streaming"
          /\ told' \in [Workers -> 0..Chunks] /\ kept' \in [Workers -> 0..Chunks]
          /\ "streaming" \in WorkerSteps /\ "keeping" \in WorkerSteps
      BY <2>2, <3>1 DEF TypeOK, ProcTypes, Delta, WorkerSteps
    <3> QED
      BY <1>4, <1>7, <3>3, <3>4, WorkerGoesOn DEF TypeOK
  <2>3. CASE PublishEnd(w)
    BY <1>4, <1>7, <2>3, WorkerLeaves DEF TypeOK, PublishEnd
  <2> QED
    BY <2>1, <2>2, <2>3
<1> QED
  BY <1>5, <1>6, <1>8 DEF TypeOK

LEMMA WorkerStopsTypes ==
  ASSUME TypeOK, NEW w \in Workers, WorkerStops(w)
  PROVE  TypeOK'
<1>1. /\ posted' \subseteq Requests /\ rows' \in [Drafts -> Rows]
      /\ EndTransaction(w, "void") /\ w \in Procs
  BY DEF TypeOK, DbTypes, WorkerStops, Procs
<1>2. DbTypes' /\ Ids' = Ids
  BY <1>1, EndTypes DEF TypeOK
<1>3. ReaderTypes'
  BY <1>2, ReaderStays DEF TypeOK, ReaderTypes, WorkerStops
<1>4. title' \in [Procs -> Titles \cup {NoTitle}]
  BY <1>1, Titled DEF WorkerStops
<1>5. jobs' \in Nat /\ faults' \in Nat /\ missed' \in BOOLEAN /\ UNCHANGED <<posts, request>>
  BY DEF TypeOK, ProcTypes, WorkerStops
<1>6. ProcTypes'
  BY <1>4, <1>5, WorkerLeaves DEF TypeOK, WorkerStops
<1> QED
  BY <1>2, <1>3, <1>6 DEF TypeOK

(***************************************************************************)
(* The reader                                                              *)
(***************************************************************************)

LEMMA ReadsTypes ==
  ASSUME TypeOK, Reads, faults' \in Nat, missed' \in BOOLEAN
  PROVE  DbTypes' /\ ProcTypes' /\ Ids' = Ids
<1>1. DbTypes' /\ Ids' = Ids
  BY DbStays DEF TypeOK, Reads, procs
<1>2. ProcTypes'
  BY DEF TypeOK, ProcTypes, Reads, procs
<1> QED
  BY <1>1, <1>2

LEMMA Least ==
  ASSUME NEW S \in SUBSET Nat, S # {}
  PROVE  Min(S) \in S /\ \A x \in S : Min(S) <= x
<1>1. PICK x \in S : \A y \in S : ~(<<y, x>> \in OpToRel(<, Nat))
  BY NatLessThanWellFounded, WFMin, Zenon
<1>2. \A y \in S : ~(y < x)
  BY <1>1 DEF OpToRel
<1>3. x \in S /\ \A y \in S : x <= y
  BY <1>2
<1> QED
  BY <1>3 DEF Min

LEMMA Greatest ==
  ASSUME NEW n \in Nat, NEW S \in SUBSET (0..n), S # {}
  PROVE  Max(S) \in S /\ \A x \in S : x <= Max(S)
<1> DEFINE T == {n - x : x \in S}
<1>1. T \in SUBSET Nat /\ T # {}
  <2>1. \A x \in S : n - x \in Nat
    OBVIOUS
  <2> QED
    BY <2>1
<1>2. PICK m \in T : \A y \in T : m <= y
  BY <1>1, Least
<1>3. PICK x \in S : m = n - x
  BY <1>2
<1>4. \A y \in S : y <= x
  BY <1>2, <1>3
<1> QED
  BY <1>3, <1>4 DEF Max

LEMMA ClosedTypes ==
  ASSUME NEW n \in Nat
  PROVE  /\ Closed(n) \in Streams /\ Closed(n).batch = {}
         /\ [Closed(n) EXCEPT !.open = TRUE] \in Streams
         /\ [Closed(n) EXCEPT !.open = TRUE].batch = {}
         /\ [Closed(n) EXCEPT !.open = TRUE, !.live = TRUE] \in Streams
         /\ [Closed(n) EXCEPT !.open = TRUE, !.live = TRUE].batch = {}
<1>1. <<>> \in Seq(Notices)
  OBVIOUS
<1> QED
  BY <1>1 DEF Closed, Streams

LEMMA ConnectTypes ==
  ASSUME faults \in Nat, NEW n \in Nat, Connect(n)
  PROVE  stream' \in Streams /\ stream'.batch = {} /\ faults' \in Nat
<1> DEFINE c == [Closed(n) EXCEPT !.open = TRUE, !.live = TRUE]
<1> DEFINE d == [Closed(n) EXCEPT !.open = TRUE]
<1>0. c \in Streams /\ c.batch = {} /\ d \in Streams /\ d.batch = {}
  BY ClosedTypes
<1> HIDE DEF c, d
<1>1. CASE stream' = c /\ UNCHANGED faults
  BY <1>0, <1>1
<1>2. CASE faults' = faults + 1 /\ stream' = d
  BY <1>0, <1>2
<1> QED
  BY <1>1, <1>2 DEF Connect, c, d

LEMMA StreamParts ==
  ASSUME stream \in Streams
  PROVE  /\ stream.open \in BOOLEAN /\ stream.live \in BOOLEAN
         /\ stream.from \in Nat /\ stream.cursor \in Nat /\ stream.batch \subseteq Nat
         /\ stream.queue \in Seq(Notices) /\ stream.polled \in BOOLEAN
BY DEF Streams

LEMMA ConnectionTypes ==
  ASSUME TypeOK, Reconnect \/ Poll \/ NoNotice \/ Disconnect \/ RedisFails
  PROVE  TypeOK'
<1>1. /\ stream \in Streams /\ stream.batch \subseteq Ids
      /\ faults \in Nat /\ missed \in BOOLEAN /\ page \in Pages /\ load \in Loads
      /\ load.events \subseteq Ids
  BY DEF TypeOK, ReaderTypes, ProcTypes
<1>2. /\ faults' \in Nat /\ missed' \in BOOLEAN /\ Reads /\ UNCHANGED reader
  <2>1. CASE Reconnect
    BY <1>1, <2>1, StreamParts, ConnectTypes DEF Reconnect
  <2>2. CASE Poll \/ NoNotice
    BY <1>1, <2>2 DEF Poll, NoNotice
  <2>3. CASE Disconnect
    <3>1. faults' = faults + 1 /\ missed' = missed /\ Reads /\ UNCHANGED reader
      BY <2>3 DEF Disconnect
    <3> QED
      BY <1>1, <3>1
  <2>4. CASE RedisFails
    <3>1. faults' = faults + 1 /\ missed' = TRUE /\ Reads /\ UNCHANGED reader
      BY <2>4 DEF RedisFails
    <3> QED
      BY <1>1, <3>1
  <2> QED
    BY <2>1, <2>2, <2>3, <2>4
<1>3. DbTypes' /\ ProcTypes' /\ Ids' = Ids
  BY <1>2, ReadsTypes
<1>4. stream' \in Streams /\ stream'.batch \subseteq Ids
  <2>1. CASE Reconnect
    BY <1>1, <2>1, StreamParts, ConnectTypes DEF Reconnect
  <2>2. CASE Poll
    <3>1. Later(stream.cursor) \subseteq Ids /\ Ids \subseteq Nat
      <4>1. events \in Seq(EventRecords)
        BY DEF TypeOK, DbTypes
      <4>2. Ids = 1..Len(events) /\ Len(events) \in Nat
        BY <4>1 DEF Ids
      <4>3. Ids \subseteq Nat
        BY <4>2
      <4> QED
        BY <4>3 DEF Later, Committed
    <3>2. stream' = [stream EXCEPT !.polled = TRUE, !.batch = Later(stream.cursor)]
      BY <2>2 DEF Poll
    <3> DEFINE later == Later(stream.cursor)
    <3>3. later \in SUBSET Nat /\ later \subseteq Ids
      BY <3>1
    <3>4. stream' = [stream EXCEPT !.polled = TRUE, !.batch = later]
      BY <3>2
    <3> HIDE DEF later
    <3> QED
      BY <1>1, <3>3, <3>4 DEF Streams
  <2>3. CASE NoNotice
    BY <1>1, <2>3 DEF NoNotice, Streams
  <2>4. CASE Disconnect
    BY <1>1, <2>4, StreamParts, ClosedTypes DEF Disconnect
  <2>5. CASE RedisFails
    <3>1. <<>> \in Seq(Notices)
      OBVIOUS
    <3> QED
      BY <1>1, <2>5, <3>1 DEF RedisFails, Streams
  <2> QED
    BY <2>1, <2>2, <2>3, <2>4, <2>5
<1>5. ReaderTypes'
  BY <1>1, <1>2, <1>3, <1>4 DEF ReaderTypes, reader
<1> QED
  BY <1>3, <1>5 DEF TypeOK

(* What a page shows keeps its type. *)
LEMMA BegunTypes ==
  ASSUME page \in Pages, NEW d \in Drafts
  PROVE  Begun(d) \in Rows
BY RowTypes DEF Begun, Pages

LEMMA AppliedTypes ==
  ASSUME page \in Pages, NEW n \in Notices
  PROVE  Applied(n) \in Rows
<1>1. n.draft \in Drafts /\ n.text \in Texts /\ n.kind \in {"message.started", "message.delta"} \cup Ends
  BY DEF Notices
<1>2. Begun(n.draft) \in Rows
  BY <1>1, BegunTypes
<1> DEFINE row == Begun(n.draft)
<1>3. row \in Rows /\ row.text \in Texts
  BY <1>2 DEF Rows
<1> HIDE DEF row
<1>4. row.text \o n.text \in Texts
  BY <1>1, <1>3 DEF Texts
<1>5. [row EXCEPT !.text = @ \o n.text] \in Rows
  BY <1>3, <1>4 DEF Rows
<1>6. Row("COMPLETED", n.text) \in Rows
  BY <1>1 DEF Row, Rows
<1>7. Row("FAILED", IF row.text = <<>> THEN n.text ELSE row.text) \in Rows
  BY <1>1, <1>3 DEF Row, Rows
<1>8. CASE n.kind = "message.started"
  BY <1>3, <1>8 DEF Applied, row
<1>9. CASE n.kind = "message.delta"
  BY <1>5, <1>9 DEF Applied, row
<1>10. CASE n.kind = "message.completed"
  BY <1>6, <1>10 DEF Applied, row
<1>11. CASE n.kind = "message.failed"
  BY <1>7, <1>11 DEF Applied, row
<1> QED
  BY <1>1, <1>8, <1>9, <1>10, <1>11 DEF Ends

LEMMA PageParts ==
  ASSUME page \in Pages
  PROVE  /\ page.shown \in [Drafts -> Rows] /\ page.copy \in [Drafts -> Rows]
         /\ page.seen \in SUBSET Nat /\ page.pending \in BOOLEAN /\ page.reading \in BOOLEAN
BY DEF Pages

LEMMA LoadParts ==
  ASSUME load \in Loads
  PROVE  /\ load.busy \in BOOLEAN /\ load.todo \in SUBSET {"messages", "events"}
         /\ load.rows \in [Drafts -> Rows] /\ load.events \in SUBSET Nat
BY DEF Loads

LEMMA YieldTypes ==
  ASSUME TypeOK, Yield
  PROVE  TypeOK'
<1>1. /\ stream \in Streams /\ stream.batch \subseteq Ids /\ stream.batch # {}
      /\ page \in Pages /\ load \in Loads /\ load.events \subseteq Ids
      /\ faults \in Nat /\ missed \in BOOLEAN
  BY DEF TypeOK, ReaderTypes, ProcTypes, Yield
<1> DEFINE e == Min(stream.batch)
<1>2. e \in stream.batch /\ e \in Nat
  BY <1>1, StreamParts, Least
<1> HIDE DEF e
<1> DEFINE new == IF events[e].kind = "message.started"
                  THEN [page.shown EXCEPT ![events[e].draft] = Begun(events[e].draft)]
                  ELSE page.shown
<1>3. new \in [Drafts -> Rows]
  <2>1. CASE events[e].kind = "message.started"
    <3>1. e \in Ids
      BY <1>1, <1>2
    <3>2. events[e].draft \in Drafts
      BY <2>1, <3>1 DEF TypeOK, DbTypes
    <3>3. Begun(events[e].draft) \in Rows
      BY <1>1, <3>2, BegunTypes
    <3> QED
      BY <1>1, <2>1, <3>2, <3>3, PageParts
  <2> QED
    BY <1>1, <2>1, PageParts
<1>4. /\ page' = [page EXCEPT !.seen = page.seen \cup {e}, !.pending = TRUE, !.shown = new]
      /\ stream' = [stream EXCEPT !.cursor = e, !.batch = stream.batch \ {e}]
      /\ Reads /\ faults' = faults /\ missed' = missed /\ load' = load
  BY DEF Yield, e
<1>5. page' \in Pages
  <2>1. page.seen \cup {e} \in SUBSET Nat
    BY <1>1, <1>2, PageParts
  <2> HIDE DEF new
  <2> QED
    BY <1>1, <1>3, <1>4, <2>1 DEF Pages
<1>6. stream' \in Streams /\ stream'.batch \subseteq Ids
  BY <1>1, <1>2, <1>4 DEF Streams
<1>7. DbTypes' /\ ProcTypes' /\ Ids' = Ids
  BY <1>1, <1>4, ReadsTypes
<1> QED
  BY <1>1, <1>4, <1>5, <1>6, <1>7 DEF TypeOK, ReaderTypes

LEMMA ForwardTypes ==
  ASSUME TypeOK, Forward
  PROVE  TypeOK'
<1>1. /\ stream \in Streams /\ stream.batch = {} /\ stream.queue # <<>>
      /\ page \in Pages /\ load \in Loads /\ load.events \subseteq Ids
      /\ faults \in Nat /\ missed \in BOOLEAN
  BY DEF TypeOK, ReaderTypes, ProcTypes, Forward
<1> DEFINE n == Head(stream.queue)
<1> DEFINE rest == Tail(stream.queue)
<1>2. n \in Notices /\ rest \in Seq(Notices)
  BY <1>1, StreamParts
<1>3. n.draft \in Drafts
  BY <1>2 DEF Notices
<1> DEFINE new == [page.shown EXCEPT ![n.draft] = Applied(n)]
<1> DEFINE due == page.pending \/ n.kind # "message.delta"
<1>4. new \in [Drafts -> Rows]
  BY <1>1, <1>2, <1>3, PageParts, AppliedTypes
<1>5. page' = [page EXCEPT !.shown = new, !.pending = due]
  BY DEF Forward
<1>6. stream' = [stream EXCEPT !.queue = rest, !.polled = FALSE]
  BY DEF Forward
<1>7. Reads /\ faults' = faults /\ missed' = missed /\ load' = load
  BY DEF Forward
<1>8. due \in BOOLEAN
  BY <1>1, PageParts
<1> HIDE DEF n, rest, new, due
<1>9. page' \in Pages
  BY <1>1, <1>4, <1>5, <1>8 DEF Pages
<1>10. stream' \in Streams /\ stream'.batch = {}
  BY <1>1, <1>2, <1>6 DEF Streams
<1>11. DbTypes' /\ ProcTypes' /\ Ids' = Ids
  BY <1>1, <1>7, ReadsTypes
<1> QED
  BY <1>1, <1>7, <1>9, <1>10, <1>11 DEF TypeOK, ReaderTypes

LEMMA LoadTypes ==
  ASSUME TypeOK, LoadMessages \/ LoadEvents \/ LoadDone
  PROVE  TypeOK'
<1>1. /\ stream \in Streams /\ stream.batch \subseteq Ids
      /\ page \in Pages /\ load \in Loads /\ load.events \subseteq Ids
      /\ faults \in Nat /\ missed \in BOOLEAN /\ rows \in [Drafts -> Rows]
      /\ events \in Seq(EventRecords)
  BY DEF TypeOK, ReaderTypes, ProcTypes, DbTypes
<1>2. Ids = 1..Len(events) /\ Len(events) \in Nat
  BY <1>1 DEF Ids
<1>3. Reads
  BY DEF LoadMessages, LoadEvents, LoadDone
<1>4. CASE LoadMessages
  <2>1. load' \in Loads /\ load'.events \subseteq Ids
    BY <1>1, <1>4 DEF LoadMessages, Loads
  <2>2. UNCHANGED <<stream, page, missed, faults>>
    BY <1>4 DEF LoadMessages
  <2>3. DbTypes' /\ ProcTypes' /\ Ids' = Ids
    BY <1>1, <1>3, <2>2, ReadsTypes
  <2> QED
    BY <1>1, <2>1, <2>2, <2>3 DEF TypeOK, ReaderTypes
<1>5. CASE LoadEvents
  <2>1. Committed \in SUBSET Nat /\ Committed \subseteq Ids
    BY <1>2 DEF Committed
  <2>2. load' \in Loads /\ load'.events \subseteq Ids
    <3> DEFINE seen == Committed
    <3>1. load' = [load EXCEPT !.todo = load.todo \ {"events"}, !.events = seen]
      BY <1>5 DEF LoadEvents
    <3> HIDE DEF seen
    <3>2. seen \in SUBSET Nat /\ seen \subseteq Ids
      BY <2>1 DEF seen
    <3> QED
      BY <1>1, <3>1, <3>2 DEF Loads
  <2>3. UNCHANGED <<stream, page, missed, faults>>
    BY <1>5 DEF LoadEvents
  <2>4. DbTypes' /\ ProcTypes' /\ Ids' = Ids
    BY <1>1, <1>3, <2>3, ReadsTypes
  <2> QED
    BY <1>1, <2>2, <2>3, <2>4 DEF TypeOK, ReaderTypes
<1>6. CASE LoadDone
  <2> DEFINE last == Max(load.events \cup {0})
  <2>1. last \in Nat
    <3>1. load.events \cup {0} \in SUBSET (0..Len(events))
      BY <1>1, <1>2
    <3>2. last \in load.events \cup {0}
      BY <1>2, <3>1, Greatest
    <3> QED
      BY <1>2, <3>1, <3>2
  <2>2. Connect(last)
    BY <1>6 DEF LoadDone
  <2>3. stream' \in Streams /\ stream'.batch = {} /\ faults' \in Nat
    <3> HIDE DEF last
    <3> QED
      BY <1>1, <2>1, <2>2, ConnectTypes
  <2>4. page' \in Pages
    <3>1. page' = [page EXCEPT !.shown = load.rows, !.seen = load.events]
      BY <1>6 DEF LoadDone
    <3> QED
      BY <1>1, <3>1, LoadParts DEF Pages
  <2>5. load' \in Loads /\ load'.events = {}
    <3>1. [d \in Drafts |-> Absent] \in [Drafts -> Rows]
      BY RowTypes
    <3>2. load' = [NewLoad EXCEPT !.busy = FALSE, !.todo = {}]
      BY <1>6 DEF LoadDone
    <3> QED
      BY <3>1, <3>2 DEF NewLoad, Loads
  <2>6. missed' \in BOOLEAN
    BY <1>6 DEF LoadDone, Apart
  <2>7. DbTypes' /\ ProcTypes' /\ Ids' = Ids
    BY <1>3, <2>3, <2>6, ReadsTypes
  <2> QED
    BY <2>3, <2>4, <2>5, <2>7 DEF TypeOK, ReaderTypes
<1> QED
  BY <1>4, <1>5, <1>6

LEMMA RefreshTypes ==
  ASSUME TypeOK, RefreshReads \/ RefreshDone \/ RefreshFails
  PROVE  TypeOK'
<1>1. /\ stream \in Streams /\ stream.batch \subseteq Ids
      /\ page \in Pages /\ load \in Loads /\ load.events \subseteq Ids
      /\ faults \in Nat /\ missed \in BOOLEAN /\ rows \in [Drafts -> Rows]
  BY DEF TypeOK, ReaderTypes, ProcTypes, DbTypes
<1>2. [d \in Drafts |-> Absent] \in [Drafts -> Rows]
  BY RowTypes
<1>3. \A shown \in [Drafts -> Rows] : Refreshed(shown) \in Pages
  BY <1>1, <1>2 DEF Refreshed, Pages
<1>4. page' \in Pages
  <2>1. CASE RefreshReads
    BY <1>1, <2>1 DEF RefreshReads, Pages
  <2>2. CASE RefreshDone \/ RefreshFails
    BY <1>1, <1>3, <2>2, PageParts DEF RefreshDone, RefreshFails
  <2> QED
    BY <2>1, <2>2
<1>5. stream' = stream /\ load' = load /\ Reads /\ faults' \in Nat /\ missed' \in BOOLEAN
  <2>1. CASE RefreshReads \/ RefreshDone
    BY <1>1, <2>1 DEF RefreshReads, RefreshDone
  <2>2. CASE RefreshFails
    <3>1. /\ stream' = stream /\ load' = load /\ Reads
          /\ faults' = faults + 1 /\ missed' = TRUE
      BY <2>2 DEF RefreshFails
    <3> QED
      BY <1>1, <3>1
  <2> QED
    BY <2>1, <2>2
<1>6. DbTypes' /\ ProcTypes' /\ Ids' = Ids
  BY <1>5, ReadsTypes
<1> QED
  BY <1>1, <1>4, <1>5, <1>6 DEF TypeOK, ReaderTypes

LEMMA TypeStep ==
  ASSUME TypeOK, [Next]_vars
  PROVE  TypeOK'
<1>1. CASE UNCHANGED vars
  BY <1>1 DEF TypeOK, DbTypes, ProcTypes, ReaderTypes, Ids, vars, db, procs, reader
<1>2. CASE \E s \in Servers, c \in Requests : Receive(s, c)
  BY <1>2, ReceiveTypes, Zenon
<1>3. CASE \E s \in Servers : ServerStep(s) \/ ServerDies(s)
  BY <1>3, ServerTypes
<1>4. CASE \E w \in Workers : WorkerStep(w) \/ WorkerStops(w)
  BY <1>4, TakeJobTypes, InsertDraftTypes, CommitTypes, NoticeTypes, CheckpointTypes,
     AnswerTypes, WorkerStopsTypes DEF WorkerStep
<1>5. CASE StreamStep \/ Disconnect \/ RedisFails
  BY <1>5, ConnectionTypes, YieldTypes, ForwardTypes DEF StreamStep
<1>6. CASE LoadMessages \/ LoadEvents \/ LoadDone
  BY <1>6, LoadTypes
<1>7. CASE RefreshReads \/ RefreshDone \/ RefreshFails
  BY <1>7, RefreshTypes
<1> QED
  BY <1>1, <1>2, <1>3, <1>4, <1>5, <1>6, <1>7, Zenon DEF Next

(* Every variable keeps its type, however the processes interleave and fail. *)
THEOREM TypeCorrect == Spec => []TypeOK
<1> QED
  BY InitTypes, TypeStep, PTL DEF Spec

(***************************************************************************)
(* Who writes which row                                                    *)
(***************************************************************************)

Writing == {"begun", "streaming", "keeping", "closing", "marking"}

(* A worker that writes a reply is alone with its row, which holds what it has kept. *)
Owned(w) ==
  /\ at[w] \in {"idle", "loaded", "drafted"} => told[w] = 0 /\ kept[w] = 0
  /\ at[w] \in {"idle", "loaded"} => draft[w] = NoDraft
  /\ at[w] = "drafted" => rows[draft[w]] = Absent
  /\ at[w] \in Writing => /\ rows[draft[w]] = Row("STREAMING", Whole(kept[w]))
                          /\ kept[w] <= told[w]
  /\ at[w] = "closing" => told[w] > 0
  /\ at[w] = "completed" => rows[draft[w]] = Row("COMPLETED", Whole(told[w]))
  /\ at[w] = "failed" => rows[draft[w]] = Row("FAILED", ErrorText)

WriterInv ==
  /\ \A w \in Workers : Owned(w)
  /\ \A v, w \in Workers : v # w /\ draft[v] # NoDraft => draft[v] # draft[w]
  /\ jobs > 0 => posted # {}
  /\ \A s \in Servers : at[s] = "posted" => posted # {}
  /\ \A w \in Workers : at[w] # "idle" => posted # {}

LEMMA Empty == Whole(0) = <<>>
BY DEF Whole

LEMMA RowParts ==
  ASSUME NEW state, NEW words
  PROVE  Row(state, words).state = state /\ Row(state, words).text = words
BY DEF Row

(* A step of one worker leaves the rows and places of the others alone. *)
LEMMA OthersOwn ==
  ASSUME TypeOK, WriterInv, NEW w \in Workers, NEW v \in Workers, v # w,
         at'[v] = at[v], draft'[v] = draft[v], told'[v] = told[v], kept'[v] = kept[v],
         \A d \in Drafts : draft[w] # d => rows'[d] = rows[d]
  PROVE  Owned(v)'
<1>1. Owned(v)
  BY DEF WriterInv
<1>2. at[v] \notin {"idle", "loaded"} => /\ draft[v] \in Drafts /\ draft[w] # draft[v]
                                        /\ rows'[draft[v]] = rows[draft[v]]
  BY NoneIsNone DEF WriterInv, TypeOK, ProcTypes
<1>3. at[v] \in WorkerSteps
  BY DEF TypeOK, ProcTypes
<1>4. CASE at[v] \in {"idle", "loaded"}
  BY <1>1, <1>4 DEF Owned, Writing
<1>5. CASE at[v] \notin {"idle", "loaded"}
  BY <1>1, <1>2, <1>5 DEF Owned, Writing
<1> QED
  BY <1>4, <1>5

LEMMA InitWriters ==
  ASSUME Init
  PROVE  WriterInv
BY DEF Init, WriterInv, Owned, Writing, Procs

(* Steps of servers and of the reader disturb no writer. *)
LEMMA WritersStay ==
  ASSUME TypeOK, WriterInv, \A w \in Workers : at'[w] = at[w],
         UNCHANGED <<rows, draft, told, kept>>, posted \subseteq posted',
         jobs' > 0 => posted' # {}, \A s \in Servers : at'[s] = "posted" => posted' # {}
  PROVE  WriterInv'
<1>1. \A w \in Workers : Owned(w)'
  BY DEF WriterInv, Owned
<1> QED
  BY <1>1 DEF WriterInv

LEMMA ServerWriters ==
  ASSUME TypeOK, WriterInv, NEW s \in Servers,
         ServerStep(s) \/ ServerDies(s) \/ \E c \in Requests : Receive(s, c)
  PROVE  WriterInv'
<1>1. \A w \in Workers : w # s /\ w \in Procs
  BY NoneIsNone DEF Procs
<1>2. \A r \in Servers : r \in Procs
  BY DEF Procs
<1>3. UNCHANGED at \/ \E place : Goto(s, place)
  BY DEF ServerStep, ServerDies, Receive, Insert, InsertRefused, CommitPost, SendReplyTask, Load
<1>4. at \in [Procs -> ServerSteps \cup WorkerSteps]
  BY DEF TypeOK, ProcTypes
<1>5. \A w \in Workers : at'[w] = at[w]
  BY <1>1, <1>3, <1>4 DEF Goto
<1>6. UNCHANGED <<rows, draft, told, kept>>
  BY DEF ServerStep, ServerDies, Receive, Insert, InsertRefused, CommitPost, SendReplyTask, db
<1>7. posted \subseteq posted'
  BY DEF ServerStep, ServerDies, Receive, Insert, InsertRefused, CommitPost, SendReplyTask, db
<1>8. (jobs' > 0 => posted' # {}) /\ \A r \in Servers : at'[r] = "posted" => posted' # {}
  <2>1. CASE CommitPost(s)
    BY <2>1 DEF CommitPost
  <2>2. CASE SendReplyTask(s)
    BY <1>2, <1>4, <2>2 DEF SendReplyTask, WriterInv, Goto, db
  <2>3. CASE ~CommitPost(s) /\ ~SendReplyTask(s)
    <3>1. jobs' = jobs /\ posted' = posted
      BY <2>3 DEF ServerStep, ServerDies, Receive, Insert, InsertRefused, db
    <3>2. UNCHANGED at \/ \E place \in {"idle", "checked", "flushed"} : Goto(s, place)
      BY <2>3 DEF ServerStep, ServerDies, Receive, Insert, InsertRefused, Load
    <3>3. \A r \in Servers : at'[r] = "posted" => at[r] = "posted"
      BY <1>2, <1>4, <3>2 DEF Goto
    <3> QED
      BY <3>1, <3>3 DEF WriterInv
  <2> QED
    BY <2>1, <2>2, <2>3
<1> QED
  BY <1>5, <1>6, <1>7, <1>8, WritersStay

(* What a step of a worker changes of the others: nothing. *)
LEMMA Alone ==
  ASSUME TypeOK, NEW w \in Workers, WorkerStep(w) \/ WorkerStops(w)
  PROVE  /\ \A v \in Workers : v # w => /\ at'[v] = at[v] /\ draft'[v] = draft[v]
                                        /\ told'[v] = told[v] /\ kept'[v] = kept[v]
         /\ \A s \in Servers : at'[s] = at[s]
         /\ \A d \in Drafts : draft[w] # d => rows'[d] = rows[d]
         /\ posted' = posted
<1>1. /\ \A v \in Workers : v \in Procs
      /\ \A s \in Servers : s \in Procs /\ s # w
      /\ at \in [Procs -> ServerSteps \cup WorkerSteps]
      /\ draft \in [Workers -> Drafts \cup {NoDraft}]
      /\ told \in [Workers -> 0..Chunks] /\ kept \in [Workers -> 0..Chunks]
      /\ rows \in [Drafts -> Rows]
  BY NoneIsNone DEF Procs, TypeOK, ProcTypes, DbTypes
<1>2. UNCHANGED at \/ \E place : Goto(w, place)
  BY DEF WorkerStep, WorkerStops, TakeJob, Load, InsertDraft, CommitDraft, PublishStarted, Delta,
     Checkpoint, AnswerEnds, AnswerFails, CommitEnd, PublishEnd, Leave
<1>3. UNCHANGED draft \/ \E d : draft' = [draft EXCEPT ![w] = d]
  BY DEF WorkerStep, WorkerStops, TakeJob, Load, InsertDraft, CommitDraft, PublishStarted, Delta,
     Checkpoint, AnswerEnds, AnswerFails, CommitEnd, PublishEnd, Leave
<1>4. /\ UNCHANGED told \/ \E n : told' = [told EXCEPT ![w] = n]
      /\ UNCHANGED kept \/ \E n : kept' = [kept EXCEPT ![w] = n]
  BY DEF WorkerStep, WorkerStops, TakeJob, Load, InsertDraft, CommitDraft, PublishStarted, Delta,
     Checkpoint, AnswerEnds, AnswerFails, CommitEnd, PublishEnd, Leave
<1>5. UNCHANGED rows \/ \E row : Write(w, row)
  BY DEF WorkerStep, WorkerStops, TakeJob, Load, InsertDraft, CommitDraft, PublishStarted, Delta,
     Checkpoint, AnswerEnds, AnswerFails, CommitEnd, PublishEnd, Leave, db
<1>6. posted' = posted
  BY DEF WorkerStep, WorkerStops, TakeJob, Load, InsertDraft, CommitDraft, PublishStarted, Delta,
     Checkpoint, AnswerEnds, AnswerFails, CommitEnd, PublishEnd, Leave, db
<1>7. \A d \in Drafts : draft[w] # d => rows'[d] = rows[d]
  BY <1>1, <1>5 DEF Write
<1>8. /\ \A v \in Workers : v # w => at'[v] = at[v]
      /\ \A s \in Servers : at'[s] = at[s]
  BY <1>1, <1>2 DEF Goto
<1>9. \A v \in Workers : v # w => draft'[v] = draft[v]
  BY <1>1, <1>3
<1>10. \A v \in Workers : v # w => told'[v] = told[v] /\ kept'[v] = kept[v]
  BY <1>1, <1>4
<1> QED
  BY <1>6, <1>7, <1>8, <1>9, <1>10

LEMMA OneWriter ==
  ASSUME TypeOK, WriterInv, NEW w \in Workers, WorkerStep(w) \/ WorkerStops(w), Owned(w)',
         \/ draft'[w] \in {draft[w], NoDraft}
         \/ \A v \in Workers : draft[v] # draft'[w],
         jobs' > 0 => posted # {}, at'[w] # "idle" => posted # {}
  PROVE  WriterInv'
<1>1. \A v \in Workers : Owned(v)'
  BY Alone, OthersOwn
<1>2. \A u, v \in Workers : u # v /\ draft'[u] # NoDraft => draft'[u] # draft'[v]
  BY Alone DEF WriterInv
<1> QED
  BY <1>1, <1>2, Alone DEF WriterInv

(* The worker's own place, after a step of its own. *)
LEMMA AtPlace ==
  ASSUME TypeOK, NEW w \in Workers, NEW place, Goto(w, place)
  PROVE  at'[w] = place
BY DEF TypeOK, ProcTypes, Goto, Procs

LEMMA WorkerWriters ==
  ASSUME TypeOK, WriterInv, NEW w \in Workers, WorkerStep(w) \/ WorkerStops(w)
  PROVE  WriterInv'
<1>1. Owned(w) /\ (at[w] # "idle" => posted # {}) /\ (jobs > 0 => posted # {}) /\ jobs \in Nat
  BY DEF WriterInv, TypeOK, ProcTypes
<1>2. /\ draft \in [Workers -> Drafts \cup {NoDraft}]
      /\ told \in [Workers -> 0..Chunks] /\ kept \in [Workers -> 0..Chunks]
      /\ rows \in [Drafts -> Rows] /\ Chunks \in Nat
  BY BoundsAreNaturals DEF TypeOK, ProcTypes, DbTypes
<1>3. CASE TakeJob(w)
  <2>1. at'[w] = "loaded"
    BY <1>3, AtPlace DEF TakeJob, Load
  <2>2. UNCHANGED <<draft, told, kept>> /\ at[w] = "idle" /\ jobs > 0 /\ jobs' <= jobs
    BY <1>1, <1>3 DEF TakeJob
  <2>3. Owned(w)'
    BY <1>1, <2>1, <2>2 DEF Owned, Writing
  <2> QED
    BY <1>1, <2>1, <2>2, <2>3, OneWriter
<1>4. CASE \E d \in Drafts : InsertDraft(w, d)
  <2>1. PICK d \in Drafts : InsertDraft(w, d)
    BY <1>4
  <2>2. at'[w] = "drafted"
    BY <2>1, AtPlace DEF InsertDraft
  <2>3. /\ draft'[w] = d /\ rows' = rows /\ UNCHANGED <<told, kept, jobs>> /\ at[w] = "loaded"
        /\ rows[d] = Absent /\ \A v \in Workers : draft[v] # d
    BY <1>2, <2>1 DEF InsertDraft, Unused
  <2>4. Owned(w)'
    BY <1>1, <2>2, <2>3 DEF Owned, Writing
  <2> QED
    BY <1>1, <1>4, <2>2, <2>3, <2>4, OneWriter DEF WorkerStep
<1>5. CASE CommitDraft(w)
  <2>1. at'[w] = "begun" /\ at[w] = "drafted"
    BY <1>5, AtPlace DEF CommitDraft
  <2>2. /\ UNCHANGED <<draft, told, kept, jobs>> /\ draft[w] \in Drafts
        /\ rows' = [rows EXCEPT ![draft[w]] = Row("STREAMING", <<>>)]
    BY <1>5 DEF CommitDraft, Write, TypeOK, ProcTypes
  <2>3. rows'[draft[w]] = Row("STREAMING", Whole(0))
    BY <1>2, <2>2, Empty
  <2>4. Owned(w)'
    BY <1>1, <2>1, <2>2, <2>3 DEF Owned, Writing
  <2> QED
    BY <1>1, <1>5, <2>1, <2>2, <2>4, OneWriter DEF WorkerStep
<1>6. CASE PublishStarted(w)
  <2>1. at'[w] = "streaming" /\ at[w] = "begun"
    BY <1>6, AtPlace DEF PublishStarted
  <2>2. UNCHANGED <<draft, told, kept, jobs, rows>>
    BY <1>6 DEF PublishStarted, db
  <2>3. Owned(w)'
    BY <1>1, <2>1, <2>2 DEF Owned, Writing
  <2> QED
    BY <1>1, <1>6, <2>1, <2>2, <2>3, OneWriter DEF WorkerStep
<1>7. CASE Delta(w)
  <2>1. at'[w] \in {"streaming", "keeping"} /\ at[w] = "streaming"
    BY <1>7, AtPlace DEF Delta
  <2>2. UNCHANGED <<draft, kept, jobs, rows>> /\ told'[w] = told[w] + 1
    BY <1>2, <1>7 DEF Delta, db
  <2>3. Owned(w)'
    BY <1>1, <1>2, <2>1, <2>2 DEF Owned, Writing
  <2> QED
    BY <1>1, <1>7, <2>1, <2>2, <2>3, OneWriter DEF WorkerStep
<1>8. CASE Checkpoint(w)
  <2>1. at'[w] = "streaming" /\ at[w] = "keeping"
    BY <1>8, AtPlace DEF Checkpoint
  <2>2. /\ UNCHANGED <<draft, told, jobs>> /\ kept'[w] = told[w] /\ draft[w] \in Drafts
        /\ rows' = [rows EXCEPT ![draft[w]] =
                      [rows[draft[w]] EXCEPT !.text = Whole(told[w])]]
    BY <1>2, <1>8 DEF Checkpoint, Write, TypeOK, ProcTypes
  <2>3. rows[draft[w]] = Row("STREAMING", Whole(kept[w]))
    BY <1>1, <2>1 DEF Owned, Writing
  <2>4. [rows[draft[w]] EXCEPT !.text = Whole(told[w])] = Row("STREAMING", Whole(told[w]))
    BY <2>3 DEF Row
  <2>5. rows'[draft[w]] = Row("STREAMING", Whole(told[w]))
    BY <1>2, <2>2, <2>4
  <2>6. Owned(w)'
    BY <1>1, <1>2, <2>1, <2>2, <2>5 DEF Owned, Writing
  <2> QED
    BY <1>1, <1>8, <2>1, <2>2, <2>6, OneWriter DEF WorkerStep
<1>9. CASE AnswerEnds(w)
  <2>1. at'[w] = "closing" /\ at[w] = "streaming"
    BY <1>9, AtPlace DEF AnswerEnds
  <2>2. UNCHANGED <<draft, told, kept, jobs, rows>> /\ told[w] > 0
    BY <1>9 DEF AnswerEnds
  <2>3. Owned(w)'
    BY <1>1, <2>1, <2>2 DEF Owned, Writing
  <2> QED
    BY <1>1, <1>9, <2>1, <2>2, <2>3, OneWriter DEF WorkerStep
<1>10. CASE AnswerFails(w)
  <2>1. at'[w] = "marking" /\ at[w] = "streaming"
    BY <1>10, AtPlace DEF AnswerFails
  <2>2. UNCHANGED <<draft, told, kept, jobs, rows>>
    BY <1>10 DEF AnswerFails
  <2>3. Owned(w)'
    BY <1>1, <2>1, <2>2 DEF Owned, Writing
  <2> QED
    BY <1>1, <1>10, <2>1, <2>2, <2>3, OneWriter DEF WorkerStep
<1>11. CASE CommitEnd(w)
  <2>1. UNCHANGED <<draft, told, kept, jobs>> /\ draft[w] \in Drafts
    BY <1>11 DEF CommitEnd, TypeOK, ProcTypes
  <2>2. CASE at[w] = "closing"
    <3>1. at'[w] = "completed"
      BY <1>11, <2>2, AtPlace DEF CommitEnd
    <3>2. rows'[draft[w]] = Row("COMPLETED", Whole(told[w]))
      BY <1>2, <1>11, <2>1, <2>2 DEF CommitEnd, Write
    <3>3. Owned(w)'
      BY <2>1, <3>1, <3>2 DEF Owned, Writing
    <3> QED
      BY <1>1, <1>11, <2>1, <2>2, <3>3, OneWriter DEF WorkerStep
  <2>3. CASE at[w] = "marking"
    <3>1. at'[w] = "failed"
      BY <1>11, <2>3, AtPlace DEF CommitEnd
    <3>2. rows'[draft[w]] = Row("FAILED", ErrorText)
      BY <1>2, <1>11, <2>1, <2>3 DEF CommitEnd, Write
    <3>3. Owned(w)'
      BY <2>1, <3>1, <3>2 DEF Owned, Writing
    <3> QED
      BY <1>1, <1>11, <2>1, <2>3, <3>3, OneWriter DEF WorkerStep
  <2> QED
    BY <1>11, <2>2, <2>3 DEF CommitEnd
<1>12. CASE PublishEnd(w) \/ WorkerStops(w)
  <2>1. Leave(w) /\ at[w] # "idle"
    BY <1>12 DEF PublishEnd, WorkerStops
  <2>2. at'[w] = "idle"
    BY <2>1, AtPlace DEF Leave
  <2>3. draft'[w] = NoDraft /\ told'[w] = 0 /\ kept'[w] = 0
    BY <1>2, <2>1 DEF Leave
  <2>4. Owned(w)'
    BY <2>2, <2>3 DEF Owned, Writing
  <2> QED
    BY <1>1, <1>12, <2>1, <2>2, <2>3, <2>4, OneWriter DEF WorkerStep
<1> QED
  BY <1>3, <1>4, <1>5, <1>6, <1>7, <1>8, <1>9, <1>10, <1>11, <1>12 DEF WorkerStep

ReaderStep == \/ StreamStep \/ Disconnect \/ RedisFails
              \/ LoadMessages \/ LoadEvents \/ LoadDone
              \/ RefreshReads \/ RefreshDone \/ RefreshFails

LEMMA ReaderReads == ReaderStep => Reads
BY DEF ReaderStep, StreamStep, Reconnect, Poll, Yield, Forward, NoNotice, Disconnect, RedisFails,
   LoadMessages, LoadEvents, LoadDone, RefreshReads, RefreshDone, RefreshFails

LEMMA NextIs ==
  ASSUME Next
  PROVE  \/ \E s \in Servers : \/ \E c \in Requests : Receive(s, c)
                               \/ ServerStep(s) \/ ServerDies(s)
         \/ \E w \in Workers : WorkerStep(w) \/ WorkerStops(w)
         \/ ReaderStep
BY Zenon DEF Next, ReaderStep

LEMMA WriterStep ==
  ASSUME TypeOK, WriterInv, [Next]_vars
  PROVE  WriterInv'
<1>1. CASE UNCHANGED vars \/ ReaderStep
  <2>1. UNCHANGED <<db, jobs, procs>>
    BY <1>1, ReaderReads DEF Reads, vars
  <2>2. UNCHANGED <<posted, rows, jobs, at, draft, told, kept>>
    BY <2>1 DEF db, procs
  <2> QED
    BY <2>2, WritersStay DEF WriterInv
<1>2. CASE \E s \in Servers : \/ \E c \in Requests : Receive(s, c)
                              \/ ServerStep(s) \/ ServerDies(s)
  BY <1>2, ServerWriters
<1>3. CASE \E w \in Workers : WorkerStep(w) \/ WorkerStops(w)
  BY <1>3, WorkerWriters
<1> QED
  BY <1>1, <1>2, <1>3, NextIs

WriterSafe == TypeOK /\ WriterInv

(* The rows are written by their workers alone, from which the rest follows. *)
THEOREM WritersCorrect == Spec => []WriterSafe
<1>1. Init => WriterSafe
  BY InitTypes, InitWriters DEF WriterSafe
<1>2. WriterSafe /\ [Next]_vars => WriterSafe'
  BY TypeStep, WriterStep DEF WriterSafe
<1> QED
  BY <1>1, <1>2, PTL DEF Spec

(***************************************************************************)
(* Refinement of Replies                                                   *)
(***************************************************************************)

LEMMA Translations ==
  /\ \A n : Whole(n) = Promise!Prefix(n)
  /\ \A state, words : Row(state, words) = Promise!Reply(state, words)
  /\ Absent = Promise!None /\ ErrorText = <<0>>
BY DEF Whole, Row, Absent, ErrorText, Promise!Prefix, Promise!Reply, Promise!None

(* Four steps write what a chat stores; each is one the promise allows. *)
LEMMA Quiet ==
  ASSUME [Next]_vars,
         \A s \in Servers : ~CommitPost(s),
         \A w \in Workers : ~CommitDraft(w) /\ ~Checkpoint(w) /\ ~CommitEnd(w)
  PROVE  UNCHANGED <<posted, rows>>
<1>1. CASE UNCHANGED vars \/ ReaderStep
  BY <1>1, ReaderReads DEF Reads, vars, db
<1>2. CASE \E s \in Servers : \/ \E c \in Requests : Receive(s, c)
                              \/ ServerStep(s) \/ ServerDies(s)
  BY <1>2 DEF ServerStep, ServerDies, Receive, Insert, InsertRefused, SendReplyTask, db
<1>3. CASE \E w \in Workers : WorkerStep(w) \/ WorkerStops(w)
  BY <1>3 DEF WorkerStep, WorkerStops, TakeJob, InsertDraft, PublishStarted, Delta,
     AnswerEnds, AnswerFails, PublishEnd, db
<1> QED
  BY <1>1, <1>2, <1>3, NextIs

LEMMA PromiseStep ==
  ASSUME TypeOK, WriterInv, [Next]_vars
  PROVE  [Promise!Next]_<<posted, rows>>
<1>1. \A w \in Workers : /\ Owned(w) /\ (at[w] # "idle" => posted # {})
                         /\ told[w] \in 0..Chunks /\ kept[w] \in 0..Chunks
                         /\ (at[w] \notin {"idle", "loaded"} => draft[w] \in Drafts)
  BY DEF WriterInv, TypeOK, ProcTypes
<1>2. rows \in [Drafts -> Rows] /\ Chunks \in Nat
  BY BoundsAreNaturals DEF TypeOK, DbTypes
<1>3. CASE \E s \in Servers : CommitPost(s)
  <2>1. PICK s \in Servers : CommitPost(s)
    BY <1>3
  <2>2. request[s] \in Requests /\ posted' = posted \cup {request[s]} /\ rows' = rows
    BY <2>1 DEF CommitPost, TypeOK, ProcTypes
  <2>3. Promise!Ask(request[s])
    BY <2>2 DEF Promise!Ask
  <2> QED
    BY <2>2, <2>3 DEF Promise!Next
<1>4. ASSUME NEW w \in Workers, CommitDraft(w)
      PROVE  Promise!Next
  <2>1. /\ draft[w] \in Drafts /\ posted # {} /\ rows[draft[w]] = Absent
        /\ rows' = [rows EXCEPT ![draft[w]] = Row("STREAMING", <<>>)] /\ posted' = posted
    BY <1>1, <1>4, Alone DEF CommitDraft, Write, Owned, WorkerStep
  <2>2. Promise!Begin(draft[w])
    BY <2>1, Translations DEF Promise!Begin
  <2> QED
    BY <2>1, <2>2 DEF Promise!Next
<1>5. ASSUME NEW w \in Workers, Checkpoint(w)
      PROVE  Promise!Next
  <2>1. /\ draft[w] \in Drafts /\ rows[draft[w]] = Row("STREAMING", Whole(kept[w]))
        /\ kept[w] <= told[w] /\ told[w] \in 0..Chunks /\ kept[w] \in 0..Chunks
        /\ rows' = [rows EXCEPT ![draft[w]] =
                      [rows[draft[w]] EXCEPT !.text = Whole(told[w])]]
        /\ posted' = posted
    BY <1>1, <1>5 DEF Checkpoint, Write, Owned, Writing
  <2>2. [rows[draft[w]] EXCEPT !.text = Whole(told[w])] = Row("STREAMING", Whole(told[w]))
    BY <2>1 DEF Row
  <2>3. rows' = [rows EXCEPT ![draft[w]] = Promise!Reply("STREAMING", Promise!Prefix(told[w]))]
    BY <2>1, <2>2, Translations
  <2>4. rows[draft[w]].state = "STREAMING" /\ Len(rows[draft[w]].text) = kept[w]
    BY <2>1, Words, RowParts
  <2>5. Promise!Grow(draft[w], told[w])
    BY <2>1, <2>3, <2>4 DEF Promise!Grow
  <2> QED
    BY <2>1, <2>5 DEF Promise!Next
<1>6. ASSUME NEW w \in Workers, CommitEnd(w)
      PROVE  Promise!Next
  <2>1. /\ draft[w] \in Drafts /\ rows[draft[w]] = Row("STREAMING", Whole(kept[w]))
        /\ kept[w] <= told[w] /\ told[w] \in 0..Chunks /\ kept[w] \in 0..Chunks
        /\ posted' = posted
    BY <1>1, <1>6 DEF CommitEnd, Owned, Writing
  <2>2. rows[draft[w]].state = "STREAMING" /\ Len(rows[draft[w]].text) = kept[w]
    BY <2>1, Words, RowParts
  <2>3. CASE at[w] = "closing"
    <3>1. told[w] > 0
      BY <1>1, <2>3 DEF Owned
    <3>2. rows' = [rows EXCEPT ![draft[w]] =
                     Promise!Reply("COMPLETED", Promise!Prefix(told[w]))]
      BY <1>6, <2>3, Translations DEF CommitEnd, Write
    <3>3. Promise!Complete(draft[w], told[w])
      BY <2>1, <2>2, <3>1, <3>2 DEF Promise!Complete
    <3> QED
      BY <2>1, <3>3 DEF Promise!Next
  <2>4. CASE at[w] = "marking"
    <3>1. rows' = [rows EXCEPT ![draft[w]] = Promise!Reply("FAILED", <<0>>)]
      BY <1>6, <2>4, Translations DEF CommitEnd, Write
    <3>2. Promise!Fail(draft[w])
      BY <2>1, <2>2, <3>1 DEF Promise!Fail
    <3> QED
      BY <2>1, <3>2 DEF Promise!Next
  <2> QED
    BY <1>6, <2>3, <2>4 DEF CommitEnd
<1> QED
  BY <1>3, <1>4, <1>5, <1>6, Quiet

LEMMA PromiseInit ==
  ASSUME Init
  PROVE  Promise!Init
BY Translations DEF Init, Promise!Init

(* The chat implements Replies: a reply is begun when somebody has asked, grows, ends once, *)
(* whole or as an error, and is never written again, whatever fails (chat_reply_task).      *)
THEOREM RepliesCorrect == Spec => StoredAsPromised
<1>1. WriterSafe /\ [Next]_vars => [Promise!Next]_<<posted, rows>>
  BY PromiseStep DEF WriterSafe
<1> QED
  BY PromiseInit, WritersCorrect, <1>1, PTL DEF Spec, StoredAsPromised, Promise!Spec

(***************************************************************************)
(* The page is never ahead                                                 *)
(***************************************************************************)

LEMMA EndedStays ==
  ASSUME TypeOK, WriterInv, [Next]_vars, NEW d \in Drafts, Ended(rows[d])
  PROVE  rows'[d] = rows[d]
<1>1. \A w \in Workers : Owned(w)
  BY DEF WriterInv
<1>2. ASSUME NEW w \in Workers, CommitDraft(w) \/ Checkpoint(w) \/ CommitEnd(w)
      PROVE  rows'[d] = rows[d]
  <2>1. at[w] = "drafted" \/ at[w] \in Writing
    BY <1>2 DEF CommitDraft, Checkpoint, CommitEnd, Writing
  <2>2. rows[draft[w]] = Absent \/ rows[draft[w]] = Row("STREAMING", Whole(kept[w]))
    BY <1>1, <2>1 DEF Owned
  <2>3. rows[draft[w]].state \in {"ABSENT", "STREAMING"}
    BY <2>2, RowParts DEF Absent
  <2>4. draft[w] # d
    BY <2>3 DEF Ended
  <2> QED
    BY <1>2, <2>4, Alone DEF WorkerStep
<1>3. CASE \E s \in Servers : CommitPost(s)
  BY <1>3 DEF CommitPost
<1> QED
  BY <1>2, <1>3, Quiet

(* What somebody read of the rows is true of them as far as it tells of ends. *)
Tells(copy) == \A d \in Drafts : Ended(copy[d]) => rows[d].state = copy[d].state

True(n) ==
  /\ n.kind = "message.completed" => rows[n.draft] = Row("COMPLETED", n.text)
  /\ n.kind = "message.failed" => rows[n.draft].state = "FAILED"

QueueTrue == \A i \in DOMAIN stream.queue : True(stream.queue[i])

AheadInv == Tells(page.shown) /\ Tells(page.copy) /\ Tells(load.rows) /\ QueueTrue

LEMMA AbsentTells == Tells([d \in Drafts |-> Absent])
BY DEF Tells, Ended, Absent, Row

LEMMA InitAhead ==
  ASSUME Init
  PROVE  AheadInv
<1>1. /\ page.shown = [d \in Drafts |-> Absent] /\ page.copy = [d \in Drafts |-> Absent]
      /\ load.rows = [d \in Drafts |-> Absent] /\ stream.queue = <<>>
  BY DEF Init, NewPage, NewLoad, Closed
<1> QED
  BY <1>1, AbsentTells DEF AheadInv, QueueTrue

LEMMA TellsStays ==
  ASSUME TypeOK, WriterInv, [Next]_vars, NEW copy, Tells(copy)
  PROVE  \A d \in Drafts : Ended(copy[d]) => rows'[d].state = copy[d].state
BY EndedStays DEF Tells, Ended

LEMMA TrueStays ==
  ASSUME TypeOK, WriterInv, [Next]_vars, NEW n \in Notices, True(n)
  PROVE  True(n)'
<1>1. n.draft \in Drafts
  BY DEF Notices
<1>2. CASE n.kind \in Ends
  <2>1. Ended(rows[n.draft])
    BY <1>2 DEF True, Ends, Ended, Row
  <2>2. rows'[n.draft] = rows[n.draft]
    BY <1>1, <2>1, EndedStays
  <2> QED
    BY <2>2 DEF True
<1> QED
  BY <1>2 DEF True, Ends

(* A notice that is published is true, and so the queue stays true. *)
LEMMA Published ==
  ASSUME stream \in Streams, NEW n \in Notices, True(n),
         \A i \in DOMAIN stream.queue : True(stream.queue[i]),
         stream' = [stream EXCEPT !.queue = Append(@, n)]
  PROVE  \A i \in DOMAIN stream'.queue : True(stream'.queue[i])
<1>1. stream.queue \in Seq(Notices) /\ stream'.queue = Append(stream.queue, n)
  BY DEF Streams
<1>2. \A i \in DOMAIN stream'.queue : stream'.queue[i] = n \/
        (i \in DOMAIN stream.queue /\ stream'.queue[i] = stream.queue[i])
  BY <1>1
<1> QED
  BY <1>2

LEMMA QuietReader ==
  ASSUME TypeOK, WriterInv, AheadInv, [Next]_vars, UNCHANGED reader, QueueTrue'
  PROVE  AheadInv'
<1>1. page' = page /\ load' = load
  BY DEF reader
<1>2. Tells(page.shown) /\ Tells(page.copy) /\ Tells(load.rows)
  BY DEF AheadInv
<1>3. /\ \A d \in Drafts : Ended(page.shown[d]) => rows'[d].state = page.shown[d].state
      /\ \A d \in Drafts : Ended(page.copy[d]) => rows'[d].state = page.copy[d].state
      /\ \A d \in Drafts : Ended(load.rows[d]) => rows'[d].state = load.rows[d].state
  BY <1>2, TellsStays
<1>4. Tells(page.shown)' /\ Tells(page.copy)' /\ Tells(load.rows)'
  BY <1>1, <1>3 DEF Tells, Ended
<1> QED
  BY <1>4 DEF AheadInv

LEMMA QueueStays ==
  ASSUME TypeOK, WriterInv, AheadInv, [Next]_vars, stream' = stream
  PROVE  QueueTrue'
<1>1. stream.queue \in Seq(Notices) /\ \A i \in DOMAIN stream.queue : True(stream.queue[i])
  BY DEF TypeOK, ReaderTypes, Streams, AheadInv, QueueTrue
<1>2. \A i \in DOMAIN stream.queue : stream.queue[i] \in Notices
  BY <1>1
<1>3. \A n \in Notices : True(n) => True(n)'
  BY TrueStays
<1>4. \A i \in DOMAIN stream.queue : True(stream.queue[i])'
  BY <1>1, <1>2, <1>3
<1> QED
  BY <1>4 DEF QueueTrue, True

LEMMA NoticeAhead ==
  ASSUME TypeOK, WriterInv, AheadInv, NEW w \in Workers,
         PublishStarted(w) \/ Delta(w) \/ PublishEnd(w)
  PROVE  AheadInv'
<1>1. WorkerStep(w) /\ rows' = rows /\ UNCHANGED reader
  BY DEF WorkerStep, PublishStarted, Delta, PublishEnd, db
<1>2. [Next]_vars
  BY <1>1 DEF Next
<1>3. /\ Owned(w) /\ stream \in Streams /\ told[w] \in 0..Chunks /\ draft[w] \in Drafts
      /\ Chunks \in Nat
  BY BoundsAreNaturals
     DEF WriterInv, TypeOK, ReaderTypes, ProcTypes, PublishStarted, Delta, PublishEnd
<1>4. PICK n \in Notices : True(n) /\ Publish(n.kind, n.draft, n.text)
  <2>1. \A kind \in {"message.started", "message.delta"} \cup Ends, words \in Texts :
          LET n == [kind |-> kind, draft |-> draft[w], text |-> words]
          IN  n \in Notices /\ n.kind = kind /\ n.draft = draft[w] /\ n.text = words
    BY <1>3 DEF Notices
  <2>2. CASE PublishStarted(w)
    <3> DEFINE n == [kind |-> "message.started", draft |-> draft[w], text |-> <<>>]
    <3>1. n \in Notices /\ True(n)
      BY <2>1, Words DEF True
    <3>2. Publish(n.kind, n.draft, n.text)
      BY <2>2 DEF PublishStarted
    <3> QED
      BY <3>1, <3>2
  <2>3. CASE Delta(w)
    <3> DEFINE n == [kind |-> "message.delta", draft |-> draft[w], text |-> <<told[w] + 1>>]
    <3>1. told[w] + 1 \in 0..Chunks
      BY <1>3, <2>3 DEF Delta
    <3>2. n \in Notices /\ True(n)
      BY <2>1, <3>1, Words DEF True
    <3>3. Publish(n.kind, n.draft, n.text)
      BY <2>3 DEF Delta
    <3> QED
      BY <3>2, <3>3
  <2>4. CASE PublishEnd(w) /\ at[w] = "completed"
    <3> DEFINE n == [kind |-> "message.completed", draft |-> draft[w], text |-> Whole(told[w])]
    <3>1. Whole(told[w]) \in Texts
      BY <1>3, Words
    <3>2. n \in Notices
      BY <2>1, <3>1 DEF Ends
    <3>3. True(n)
      BY <1>3, <2>4 DEF True, Owned
    <3>4. Publish(n.kind, n.draft, n.text)
      BY <2>4 DEF PublishEnd
    <3> QED
      BY <3>2, <3>3, <3>4
  <2>5. CASE PublishEnd(w) /\ at[w] = "failed"
    <3> DEFINE n == [kind |-> "message.failed", draft |-> draft[w], text |-> ErrorText]
    <3>1. n \in Notices
      BY <2>1, Words DEF Ends
    <3>2. True(n)
      BY <1>3, <2>5 DEF True, Owned, Row
    <3>3. Publish(n.kind, n.draft, n.text)
      BY <2>5 DEF PublishEnd
    <3> QED
      BY <3>1, <3>2, <3>3
  <2> QED
    BY <2>2, <2>3, <2>4, <2>5 DEF PublishEnd
<1>5. n = [kind |-> n.kind, draft |-> n.draft, text |-> n.text]
  BY DEF Notices
<1>6. \A i \in DOMAIN stream.queue : True(stream.queue[i])
  BY DEF AheadInv, QueueTrue
<1>7. \A i \in DOMAIN stream'.queue : True(stream'.queue[i])
  <2>1. CASE stream' = stream
    BY <1>6, <2>1
  <2>2. CASE stream' = [stream EXCEPT !.queue = Append(@, n)]
    BY <1>3, <1>4, <1>6, <2>2, Published
  <2> QED
    BY <1>4, <1>5, <2>1, <2>2 DEF Publish
<1>8. QueueTrue'
  BY <1>1, <1>7 DEF True, QueueTrue
<1> QED
  BY <1>1, <1>2, <1>8, QuietReader

LEMMA OtherAhead ==
  ASSUME TypeOK, WriterInv, AheadInv,
         \/ UNCHANGED vars
         \/ \E s \in Servers : \/ \E c \in Requests : Receive(s, c)
                               \/ ServerStep(s) \/ ServerDies(s)
         \/ \E w \in Workers : /\ WorkerStep(w) \/ WorkerStops(w)
                               /\ ~PublishStarted(w) /\ ~Delta(w) /\ ~PublishEnd(w)
  PROVE  AheadInv'
<1>1. [Next]_vars
  BY Zenon DEF Next
<1>2. stream' = stream /\ UNCHANGED reader
  BY DEF vars, ServerStep, ServerDies, Receive, Insert, InsertRefused, CommitPost, SendReplyTask,
     WorkerStep, WorkerStops, TakeJob, InsertDraft, CommitDraft, Checkpoint, AnswerEnds,
     AnswerFails, CommitEnd
<1> QED
  BY <1>1, <1>2, QueueStays, QuietReader

LEMMA ReaderRows ==
  ASSUME ReaderStep
  PROVE  rows' = rows /\ [Next]_vars
<1>1. rows' = rows
  BY ReaderReads DEF Reads, db
<1> QED
  BY <1>1, Zenon DEF ReaderStep, Next

(* A queue that got no longer stays true. *)
LEMMA ShorterQueue ==
  ASSUME QueueTrue, rows' = rows, stream.queue \in Seq(Notices),
         \/ stream'.queue \in {stream.queue, <<>>}
         \/ stream.queue # <<>> /\ stream'.queue = Tail(stream.queue)
  PROVE  QueueTrue'
<1>1. CASE stream'.queue = stream.queue
  BY <1>1 DEF QueueTrue, True
<1>2. CASE stream'.queue = <<>>
  BY <1>2 DEF QueueTrue
<1>3. CASE stream.queue # <<>> /\ stream'.queue = Tail(stream.queue)
  <2> DEFINE rest == Tail(stream.queue)
  <2>1. \A i \in DOMAIN rest : i + 1 \in DOMAIN stream.queue /\ rest[i] = stream.queue[i + 1]
    BY <1>3
  <2>2. \A i \in DOMAIN rest : True(rest[i])
    BY <2>1 DEF QueueTrue
  <2> QED
    BY <1>3, <2>2 DEF QueueTrue, True
<1> QED
  BY <1>1, <1>2, <1>3

LEMMA BegunTells ==
  ASSUME page \in Pages, NEW d \in Drafts
  PROVE  /\ Ended(Begun(d)) => Begun(d) = page.shown[d]
         /\ Begun(d).state \in {"STREAMING", page.shown[d].state}
BY DEF Begun, Ended, Row

LEMMA AppliedTells ==
  ASSUME page \in Pages, NEW n \in Notices, True(n), Tells(page.shown), Ended(Applied(n))
  PROVE  rows[n.draft].state = Applied(n).state
<1> DEFINE row == Begun(n.draft)
<1>1. n.draft \in Drafts /\ n.kind \in {"message.started", "message.delta"} \cup Ends
  BY DEF Notices
<1>2. row \in Rows /\ (Ended(row) => rows[n.draft].state = row.state)
  BY <1>1, BegunTypes, BegunTells DEF Tells
<1> HIDE DEF row
<1>3. CASE n.kind = "message.started"
  BY <1>2, <1>3 DEF Applied, row
<1>4. CASE n.kind = "message.delta"
  <2>1. Applied(n) = [row EXCEPT !.text = @ \o n.text]
    BY <1>4 DEF Applied, row
  <2>2. Applied(n).state = row.state
    BY <1>2, <2>1 DEF Rows
  <2> QED
    BY <1>2, <2>2 DEF Ended
<1>5. CASE n.kind = "message.completed"
  <2>1. Applied(n) = Row("COMPLETED", n.text)
    BY <1>5 DEF Applied
  <2> QED
    BY <1>5, <2>1 DEF True
<1>6. CASE n.kind = "message.failed"
  <2>1. Applied(n).state = "FAILED"
    BY <1>6 DEF Applied, Row
  <2> QED
    BY <1>6, <2>1 DEF True
<1> QED
  BY <1>1, <1>3, <1>4, <1>5, <1>6 DEF Ends

LEMMA ReaderAhead ==
  ASSUME TypeOK, WriterInv, AheadInv, ReaderStep
  PROVE  AheadInv'
<1>1. rows' = rows
  BY ReaderRows
<1>2. /\ stream \in Streams /\ page \in Pages /\ load \in Loads
      /\ Tells(page.shown) /\ Tells(page.copy) /\ Tells(load.rows) /\ QueueTrue
      /\ rows \in [Drafts -> Rows]
  BY DEF TypeOK, ReaderTypes, DbTypes, AheadInv
<1>3. stream.queue \in Seq(Notices)
  BY <1>2, StreamParts
<1>4. \A copy : Tells(copy) => \A d \in Drafts : Ended(copy[d]) => rows'[d].state = copy[d].state
  BY <1>1 DEF Tells
<1>5. QueueTrue'
  <2>1. CASE Poll \/ Yield \/ NoNotice
    <3>1. stream'.queue = stream.queue
      BY <1>2, <2>1 DEF Poll, Yield, NoNotice, Streams
    <3> QED
      BY <1>1, <1>2, <1>3, <3>1, ShorterQueue
  <2>2. CASE Reconnect \/ Disconnect \/ LoadDone \/ RedisFails
    <3>1. stream'.queue = <<>>
      <4>1. \A n : Connect(n) => stream'.queue = <<>>
        BY DEF Connect, Closed
      <4>2. CASE Reconnect \/ LoadDone
        BY <4>1, <4>2 DEF Reconnect, LoadDone
      <4>3. CASE Disconnect
        BY <4>3 DEF Disconnect, Closed
      <4>4. CASE RedisFails
        BY <1>2, <4>4 DEF RedisFails, Streams
      <4> QED
        BY <2>2, <4>2, <4>3, <4>4
    <3> QED
      BY <1>1, <1>2, <1>3, <3>1, ShorterQueue
  <2>3. CASE Forward
    <3>1. stream.queue # <<>> /\ stream'.queue = Tail(stream.queue)
      BY <1>2, <2>3 DEF Forward, Streams
    <3> QED
      BY <1>1, <1>2, <1>3, <3>1, ShorterQueue
  <2>4. CASE LoadMessages \/ LoadEvents \/ RefreshReads \/ RefreshDone \/ RefreshFails
    <3>1. stream' = stream
      BY <2>4 DEF LoadMessages, LoadEvents, RefreshReads, RefreshDone, RefreshFails
    <3> QED
      BY <1>1, <1>2, <1>3, <3>1, ShorterQueue
  <2> QED
    BY <2>1, <2>2, <2>3, <2>4 DEF ReaderStep, StreamStep
<1>6. \A copy : Tells(copy) /\ page'.shown = copy => Tells(page.shown)'
  BY <1>1 DEF Tells
<1>7. \A copy : Tells(copy) /\ page'.copy = copy => Tells(page.copy)'
  BY <1>1 DEF Tells
<1>8. \A copy : Tells(copy) /\ load'.rows = copy => Tells(load.rows)'
  BY <1>1 DEF Tells
<1>9. Tells(rows) /\ Tells([d \in Drafts |-> Absent])
  BY AbsentTells DEF Tells
<1>10. Tells(load.rows)'
  <2>1. CASE load' = load
    BY <1>2, <1>8, <2>1
  <2>2. CASE LoadMessages
    <3>1. load'.rows = rows
      BY <1>2, <2>2 DEF LoadMessages, Loads
    <3> QED
      BY <1>8, <1>9, <3>1
  <2>3. CASE LoadEvents
    <3>1. load'.rows = load.rows
      BY <1>2, <2>3 DEF LoadEvents, Loads
    <3> QED
      BY <1>2, <1>8, <3>1
  <2>4. CASE LoadDone
    <3>1. load'.rows = [d \in Drafts |-> Absent]
      BY <2>4 DEF LoadDone, NewLoad
    <3> QED
      BY <1>8, <1>9, <3>1
  <2> QED
    BY <2>1, <2>2, <2>3, <2>4 DEF ReaderStep, StreamStep, Reconnect, Poll, Yield, Forward,
       NoNotice, Disconnect, RedisFails, RefreshReads, RefreshDone, RefreshFails, reader
<1>11. Tells(page.copy)'
  <2>1. CASE RefreshReads
    <3>1. page'.copy = rows
      BY <1>2, <2>1 DEF RefreshReads, Pages
    <3> QED
      BY <1>7, <1>9, <3>1
  <2>2. CASE RefreshDone \/ RefreshFails
    <3>1. page'.copy = [d \in Drafts |-> Absent]
      BY <1>2, <2>2 DEF RefreshDone, RefreshFails, Refreshed, Pages
    <3> QED
      BY <1>7, <1>9, <3>1
  <2>3. CASE ~RefreshReads /\ ~RefreshDone /\ ~RefreshFails
    <3>1. page'.copy = page.copy
      <4>1. CASE Yield
        BY <1>2, <4>1 DEF Yield, Pages
      <4>2. CASE Forward
        BY <1>2, <4>2 DEF Forward, Pages
      <4>3. CASE LoadDone
        BY <1>2, <4>3 DEF LoadDone, Pages
      <4>4. CASE ~Yield /\ ~Forward /\ ~LoadDone
        BY <2>3, <4>4 DEF ReaderStep, StreamStep, Reconnect, Poll, NoNotice, Disconnect,
           RedisFails, LoadMessages, LoadEvents, reader
      <4> QED
        BY <4>1, <4>2, <4>3, <4>4
    <3> QED
      BY <1>2, <1>7, <3>1
  <2> QED
    BY <2>1, <2>2, <2>3
<1>12. Tells(page.shown)'
  <2>1. CASE Yield
    <3> DEFINE e == Min(stream.batch)
    <3> DEFINE b == events[e].draft
    <3>1. CASE events[e].kind = "message.started"
      <4>1. e \in Ids
        BY <1>2, <2>1, StreamParts, Least DEF Yield, TypeOK, ReaderTypes
      <4>2. b \in Drafts
        BY <3>1, <4>1 DEF TypeOK, DbTypes
      <4>3. page'.shown = [page.shown EXCEPT ![b] = Begun(b)]
        BY <1>2, <2>1, <3>1 DEF Yield, Pages
      <4> HIDE DEF b, e
      <4>4. page.shown \in [Drafts -> Rows]
        BY <1>2, PageParts
      <4>5. \A d \in Drafts : page'.shown[d] = IF d = b THEN Begun(b) ELSE page.shown[d]
        BY <4>2, <4>3, <4>4
      <4>6. \A d \in Drafts : Ended(page'.shown[d]) => page'.shown[d] = page.shown[d]
        BY <1>2, <4>2, <4>5, BegunTells
      <4>7. \A d \in Drafts : Ended(page'.shown[d]) => rows[d].state = page'.shown[d].state
        BY <1>2, <4>6 DEF Tells
      <4> QED
        BY <1>6, <4>7 DEF Tells
    <3>2. CASE events[e].kind # "message.started"
      <4>1. page'.shown = page.shown
        BY <1>2, <2>1, <3>2 DEF Yield, Pages
      <4> QED
        BY <1>2, <1>6, <4>1
    <3> QED
      BY <3>1, <3>2
  <2>2. CASE Forward
    <3> DEFINE n == Head(stream.queue)
    <3>1. stream.queue # <<>> /\ page'.shown = [page.shown EXCEPT ![n.draft] = Applied(n)]
      BY <1>2, <2>2 DEF Forward, Pages
    <3>2. n \in Notices /\ True(n)
      BY <1>2, <1>3, <3>1 DEF QueueTrue
    <3> HIDE DEF n
    <3>3. n.draft \in Drafts /\ page.shown \in [Drafts -> Rows]
      BY <1>2, <3>2, PageParts DEF Notices
    <3>4. \A d \in Drafts : page'.shown[d] = IF d = n.draft THEN Applied(n) ELSE page.shown[d]
      BY <3>1, <3>3
    <3>5. \A d \in Drafts : Ended(page'.shown[d]) => rows[d].state = page'.shown[d].state
      BY <1>2, <3>2, <3>4, AppliedTells DEF Tells
    <3> QED
      BY <1>6, <3>5 DEF Tells
  <2>3. CASE LoadDone
    <3>1. page'.shown = load.rows
      BY <1>2, <2>3 DEF LoadDone, Pages
    <3> QED
      BY <1>2, <1>6, <3>1
  <2>4. CASE RefreshDone
    <3>1. page'.shown = page.copy
      BY <1>2, <2>4 DEF RefreshDone, Refreshed, Pages
    <3> QED
      BY <1>2, <1>6, <3>1
  <2>5. CASE ~Yield /\ ~Forward /\ ~LoadDone /\ ~RefreshDone
    <3>1. page'.shown = page.shown
      <4>1. CASE RefreshReads \/ RefreshFails
        BY <1>2, <4>1 DEF RefreshReads, RefreshFails, Refreshed, Pages
      <4>2. CASE ~RefreshReads /\ ~RefreshFails
        BY <2>5, <4>2 DEF ReaderStep, StreamStep, Reconnect, Poll, NoNotice, Disconnect,
           RedisFails, LoadMessages, LoadEvents, reader
      <4> QED
        BY <4>1, <4>2
    <3> QED
      BY <1>2, <1>6, <3>1
  <2> QED
    BY <2>1, <2>2, <2>3, <2>4, <2>5
<1> QED
  BY <1>5, <1>10, <1>11, <1>12 DEF AheadInv

(* PostgreSQL first, the notice after: no page shows, and no notice tells, an end that *)
(* is not stored, whatever is lost, reordered or read too early (chat_reply_task).     *)
THEOREM NeverAheadCorrect == Spec => []PageNeverAhead
<1>1. ASSUME WriterSafe, AheadInv, [Next]_vars
      PROVE  AheadInv'
  <2>1. TypeOK /\ WriterInv
    BY <1>1 DEF WriterSafe
  <2>2. CASE ReaderStep
    BY <1>1, <2>1, <2>2, ReaderAhead
  <2>3. CASE \E w \in Workers : PublishStarted(w) \/ Delta(w) \/ PublishEnd(w)
    BY <1>1, <2>1, <2>3, NoticeAhead
  <2>4. CASE ~ReaderStep /\ \A w \in Workers : ~PublishStarted(w) /\ ~Delta(w) /\ ~PublishEnd(w)
    BY <1>1, <2>1, <2>4, NextIs, OtherAhead
  <2> QED
    BY <2>2, <2>3, <2>4
<1>2. WriterSafe /\ AheadInv => PageNeverAhead
  BY DEF AheadInv, PageNeverAhead, Tells, QueueTrue, True
<1> QED
  BY <1>1, <1>2, InitAhead, WritersCorrect, PTL DEF Spec

(***************************************************************************)
(* One reply for every request                                             *)
(***************************************************************************)

Due == {s \in Servers : at[s] = "posted"}
Starting == {w \in Workers : Beginning(w)}
Started == {d \in Drafts : rows[d] # Absent}

(* The unique index leaves one transaction that may commit a request's row. *)
Single ==
  /\ \A s \in Servers : at[s] = "flushed" => request[s] \notin posted
  /\ \A r, s \in Servers : r # s /\ at[r] = "flushed" /\ at[s] = "flushed"
                           => request[r] # request[s]

CountInv == OneReplyPerRequest /\ Single

LEMMA Sizes ==
  ASSUME TypeOK
  PROVE  /\ IsFiniteSet(Due) /\ Cardinality(Due) \in Nat
         /\ IsFiniteSet(Starting) /\ Cardinality(Starting) \in Nat
         /\ IsFiniteSet(Started) /\ Cardinality(Started) \in Nat
         /\ IsFiniteSet(posted) /\ Cardinality(posted) \in Nat
         /\ jobs \in Nat /\ faults \in Nat
<1>1. Due \in SUBSET Servers /\ Starting \in SUBSET Workers /\ Started \in SUBSET Drafts
      /\ posted \in SUBSET Requests
  BY DEF Due, Starting, Started, TypeOK, DbTypes
<1>2. /\ IsFiniteSet(Servers) /\ IsFiniteSet(Workers) /\ IsFiniteSet(Drafts)
      /\ IsFiniteSet(Requests)
  BY ProcsAreFinite, IdsAreNumbers
<1>3. IsFiniteSet(Due) /\ IsFiniteSet(Starting) /\ IsFiniteSet(Started) /\ IsFiniteSet(posted)
  BY <1>1, <1>2, FS_Subset
<1> QED
  BY <1>3, FS_CardinalityType DEF TypeOK, ProcTypes

LEMMA SizesAfter ==
  ASSUME TypeOK'
  PROVE  /\ Cardinality(Due') \in Nat /\ Cardinality(Starting') \in Nat
         /\ Cardinality(Started') \in Nat /\ Cardinality(posted') \in Nat
         /\ jobs' \in Nat /\ faults' \in Nat
<1>1. /\ Due' \in SUBSET Servers /\ Starting' \in SUBSET Workers /\ Started' \in SUBSET Drafts
      /\ posted' \in SUBSET Requests
  BY DEF Due, Starting, Started, TypeOK, DbTypes
<1>2. /\ IsFiniteSet(Servers) /\ IsFiniteSet(Workers) /\ IsFiniteSet(Drafts)
      /\ IsFiniteSet(Requests)
  BY ProcsAreFinite, IdsAreNumbers
<1>3. /\ IsFiniteSet(Due') /\ IsFiniteSet(Starting') /\ IsFiniteSet(Started')
      /\ IsFiniteSet(posted')
  BY <1>1, <1>2, FS_Subset
<1> QED
  BY <1>3, FS_CardinalityType DEF TypeOK, ProcTypes

(* The balance that OneReplyPerRequest keeps. *)
LEMMA Balance ==
  OneReplyPerRequest <=>
    jobs + Cardinality(Due) + Cardinality(Starting) + Cardinality(Started)
      <= Cardinality(posted) + faults
BY DEF OneReplyPerRequest, Due, Starting, Started

LEMMA BalanceAfter ==
  OneReplyPerRequest' <=>
    jobs' + Cardinality(Due') + Cardinality(Starting') + Cardinality(Started')
      <= Cardinality(posted') + faults'
BY DEF OneReplyPerRequest, Due, Starting, Started

LEMMA InitCount ==
  ASSUME Init
  PROVE  CountInv
<1>1. Due = {} /\ Starting = {} /\ Started = {} /\ posted = {} /\ jobs = 0 /\ faults = 0
  BY DEF Init, Due, Starting, Started, Beginning, Procs
<1>2. OneReplyPerRequest
  BY <1>1, Balance, FS_EmptySet
<1>3. Single
  BY DEF Init, Single, Procs
<1> QED
  BY <1>2, <1>3 DEF CountInv

(* Steps that begin nothing and ask for nothing. *)
LEMMA CountStays ==
  ASSUME TypeOK, TypeOK', OneReplyPerRequest, posted' = posted, faults <= faults',
         Due' \subseteq Due, Starting' \subseteq Starting, Started' \subseteq Started,
         jobs' - jobs <= faults' - faults
  PROVE  OneReplyPerRequest'
<1>1. /\ Cardinality(Due') <= Cardinality(Due)
      /\ Cardinality(Starting') <= Cardinality(Starting)
      /\ Cardinality(Started') <= Cardinality(Started)
  BY Sizes, FS_Subset
<1> QED
  BY <1>1, Sizes, SizesAfter, Balance, BalanceAfter

LEMMA ServerCount ==
  ASSUME TypeOK, TypeOK', CountInv, NEW s \in Servers,
         ServerStep(s) \/ ServerDies(s) \/ \E c \in Requests : Receive(s, c)
  PROVE  OneReplyPerRequest'
<1>1. /\ \A w \in Workers : w # s /\ w \in Procs
      /\ \A r \in Servers : r \in Procs
      /\ at \in [Procs -> ServerSteps \cup WorkerSteps]
  BY NoneIsNone DEF Procs, TypeOK, ProcTypes
<1>2. UNCHANGED at \/ \E place : Goto(s, place)
  BY DEF ServerStep, ServerDies, Receive, Insert, InsertRefused, CommitPost, SendReplyTask, Load
<1>3. /\ \A w \in Workers : at'[w] = at[w]
      /\ \A r \in Servers : r # s => at'[r] = at[r]
  BY <1>1, <1>2 DEF Goto
<1>4. rows' = rows
  BY DEF ServerStep, ServerDies, Receive, Insert, InsertRefused, CommitPost, SendReplyTask, db
<1>5. Starting' = Starting /\ Started' = Started
  BY <1>3, <1>4 DEF Starting, Started, Beginning
<1>6. CASE CommitPost(s)
  <2>1. at[s] = "flushed" /\ at'[s] = "posted" /\ jobs' = jobs /\ faults' = faults
        /\ posted' = posted \cup {request[s]}
    BY <1>1, <1>6 DEF CommitPost, Goto
  <2>2. Due' = Due \cup {s} /\ s \notin Due
    BY <1>3, <2>1 DEF Due
  <2>3. request[s] \notin posted
    BY <2>1 DEF CountInv, Single
  <2>4. Cardinality(Due') = Cardinality(Due) + 1
    BY <2>2, Sizes, FS_AddElement
  <2>5. Cardinality(posted') = Cardinality(posted) + 1
    BY <2>1, <2>3, Sizes, FS_AddElement
  <2> QED
    BY <1>5, <2>1, <2>4, <2>5, Sizes, Balance, BalanceAfter DEF CountInv
<1>7. CASE SendReplyTask(s)
  <2>1. /\ at[s] = "posted" /\ at'[s] = "idle" /\ jobs' = jobs + 1 /\ faults' = faults
        /\ posted' = posted
    BY <1>1, <1>7 DEF SendReplyTask, Goto, db
  <2>2. Due' = Due \ {s} /\ s \in Due
    BY <1>3, <2>1 DEF Due
  <2>3. Cardinality(Due') = Cardinality(Due) - 1
    BY <2>2, Sizes, FS_RemoveElement
  <2> QED
    BY <1>5, <2>1, <2>3, Sizes, Balance, BalanceAfter DEF CountInv
<1>8. CASE ~CommitPost(s) /\ ~SendReplyTask(s)
  <2>1. jobs' = jobs /\ posted' = posted /\ faults' \in {faults, faults + 1}
    BY <1>8 DEF ServerStep, ServerDies, Receive, Insert, InsertRefused, db
  <2>2. UNCHANGED at \/ \E place \in {"idle", "checked", "flushed"} : Goto(s, place)
    BY <1>8 DEF ServerStep, ServerDies, Receive, Insert, InsertRefused, Load
  <2>3. Due' \subseteq Due
    BY <1>1, <2>2 DEF Due, Goto
  <2> QED
    BY <1>5, <2>1, <2>3, Sizes, CountStays DEF CountInv
<1> QED
  BY <1>6, <1>7, <1>8

LEMMA ServerSingle ==
  ASSUME TypeOK, CountInv, NEW s \in Servers,
         ServerStep(s) \/ ServerDies(s) \/ \E c \in Requests : Receive(s, c)
  PROVE  Single'
<1>1. /\ \A r \in Servers : r \in Procs
      /\ at \in [Procs -> ServerSteps \cup WorkerSteps]
      /\ request \in [Servers -> Requests \cup {NoRequest}]
      /\ Single
  BY DEF Procs, TypeOK, ProcTypes, CountInv
<1>2. CASE Insert(s)
  <2>1. /\ Unique(s) /\ Goto(s, "flushed") /\ posted' = posted /\ request' = request
    BY <1>2 DEF Insert
  <2>2. \A r \in Servers : at'[r] = "flushed" => r = s \/ at[r] = "flushed"
    BY <1>1, <2>1 DEF Goto
  <2> QED
    BY <1>1, <2>1, <2>2 DEF Single, Unique
<1>3. CASE CommitPost(s)
  <2>1. /\ at[s] = "flushed" /\ Goto(s, "posted") /\ posted' = posted \cup {request[s]}
        /\ request' = request
    BY <1>3 DEF CommitPost
  <2>2. \A r \in Servers : at'[r] = "flushed" => r # s /\ at[r] = "flushed"
    BY <1>1, <2>1 DEF Goto
  <2> QED
    BY <1>1, <2>1, <2>2 DEF Single
<1>4. CASE ~Insert(s) /\ ~CommitPost(s)
  <2>1. posted' = posted
    BY <1>4 DEF ServerStep, ServerDies, Receive, InsertRefused, SendReplyTask, db
  <2>2. \/ UNCHANGED <<at, request>>
        \/ \E place \in {"idle", "checked"} : Goto(s, place) /\
             \E c : request' = [request EXCEPT ![s] = c]
    BY <1>4 DEF ServerStep, ServerDies, Receive, InsertRefused, SendReplyTask, Load
  <2>3. \A r \in Servers : at'[r] = "flushed" => at[r] = "flushed" /\ request'[r] = request[r]
    BY <1>1, <2>2 DEF Goto
  <2> QED
    BY <1>1, <2>1, <2>3 DEF Single
<1> QED
  BY <1>2, <1>3, <1>4

LEMMA WorkerCount ==
  ASSUME TypeOK, TypeOK', WriterInv, CountInv, NEW w \in Workers,
         WorkerStep(w) \/ WorkerStops(w)
  PROVE  CountInv'
<1>1. /\ Owned(w) /\ w \in Procs /\ rows \in [Drafts -> Rows] /\ faults \in Nat /\ jobs \in Nat
  BY DEF WriterInv, Procs, TypeOK, DbTypes, ProcTypes
<1>2. posted' = posted /\ request' = request /\ \A s \in Servers : at'[s] = at[s]
  BY Alone DEF WorkerStep, WorkerStops, TakeJob, InsertDraft, CommitDraft, PublishStarted, Delta,
     Checkpoint, AnswerEnds, AnswerFails, CommitEnd, PublishEnd
<1>3. Single' /\ Due' = Due
  BY <1>2 DEF CountInv, Single, Due
<1>4. \A v \in Workers : v # w => at'[v] = at[v]
  BY Alone
<1>5. CASE TakeJob(w)
  <2>1. at'[w] = "loaded"
    BY <1>5, AtPlace DEF TakeJob, Load
  <2>2. at[w] = "idle" /\ jobs' = jobs - 1 /\ rows' = rows /\ faults' = faults
    BY <1>5 DEF TakeJob, db
  <2>3. Starting' = Starting \cup {w} /\ w \notin Starting /\ Started' = Started
    BY <1>4, <2>1, <2>2 DEF Starting, Started, Beginning
  <2>4. Cardinality(Starting') = Cardinality(Starting) + 1
    BY <2>3, Sizes, FS_AddElement
  <2> QED
    BY <1>2, <1>3, <2>2, <2>3, <2>4, Sizes, Balance, BalanceAfter DEF CountInv
<1>6. CASE CommitDraft(w)
  <2>1. at'[w] = "begun" /\ at[w] = "drafted"
    BY <1>6, AtPlace DEF CommitDraft
  <2>2. /\ draft[w] \in Drafts /\ jobs' = jobs /\ faults' = faults
        /\ rows' = [rows EXCEPT ![draft[w]] = Row("STREAMING", <<>>)]
    BY <1>6 DEF CommitDraft, Write, TypeOK, ProcTypes
  <2>3. rows[draft[w]] = Absent /\ Row("STREAMING", <<>>) # Absent
    BY <1>1, <2>1, RowParts DEF Owned, Absent
  <2>4. Starting' = Starting \ {w} /\ w \in Starting
    BY <1>4, <2>1 DEF Starting, Beginning
  <2>5. Started' = Started \cup {draft[w]} /\ draft[w] \notin Started
    BY <1>1, <2>2, <2>3 DEF Started
  <2>6. Cardinality(Starting') = Cardinality(Starting) - 1
    BY <2>4, Sizes, FS_RemoveElement
  <2>7. Cardinality(Started') = Cardinality(Started) + 1
    BY <2>5, Sizes, FS_AddElement
  <2> QED
    BY <1>2, <1>3, <2>2, <2>6, <2>7, Sizes, Balance, BalanceAfter DEF CountInv
<1>7. CASE ~TakeJob(w) /\ ~CommitDraft(w)
  <2>1. Started' \subseteq Started
    <3>1. CASE Checkpoint(w) \/ CommitEnd(w)
      <4>1. rows[draft[w]] = Row("STREAMING", Whole(kept[w]))
        BY <1>1, <3>1 DEF Checkpoint, CommitEnd, Owned, Writing
      <4>2. rows[draft[w]] # Absent
        BY <4>1, RowParts DEF Absent
      <4>3. \A d \in Drafts : rows'[d] = rows[d] \/ d = draft[w]
        BY Alone
      <4> QED
        BY <4>2, <4>3 DEF Started
    <3>2. CASE ~Checkpoint(w) /\ ~CommitEnd(w)
      <4>1. rows' = rows
        BY <1>7, <3>2 DEF WorkerStep, WorkerStops, InsertDraft, PublishStarted, Delta,
           AnswerEnds, AnswerFails, PublishEnd, db
      <4> QED
        BY <4>1 DEF Started
    <3> QED
      BY <3>1, <3>2
  <2>2. at'[w] \in {"loaded", "drafted"} => at[w] \in {"loaded", "drafted"}
    <3>1. CASE \E d \in Drafts : InsertDraft(w, d)
      BY <3>1 DEF InsertDraft
    <3>2. CASE ~\E d \in Drafts : InsertDraft(w, d)
      <4>1. \/ UNCHANGED at
            \/ \E place \in {"streaming", "keeping", "closing", "marking", "completed",
                             "failed", "idle"} : Goto(w, place)
        BY <1>7, <3>2 DEF WorkerStep, WorkerStops, PublishStarted, Delta, Checkpoint,
           AnswerEnds, AnswerFails, CommitEnd, PublishEnd, Leave
      <4> QED
        BY <4>1, AtPlace
    <3> QED
      BY <3>1, <3>2
  <2>3. Starting' \subseteq Starting
    BY <1>4, <2>2 DEF Starting, Beginning
  <2>4. jobs' - jobs <= faults' - faults /\ faults <= faults'
    <3>1. CASE PublishStarted(w) \/ Delta(w) \/ PublishEnd(w)
      <4>1. jobs' = jobs /\ (faults' = faults \/ faults' = faults + 1)
        BY <3>1 DEF PublishStarted, Delta, PublishEnd, Publish
      <4>2. jobs' - jobs = 0 /\ faults' - faults \in {0, 1} /\ faults <= faults'
        BY <1>1, <4>1
      <4> QED
        BY <4>2
    <3>2. CASE WorkerStops(w)
      <4>1. (jobs' = jobs \/ jobs' = jobs + 1) /\ faults' = faults + 1
        BY <3>2 DEF WorkerStops
      <4>2. jobs' - jobs \in {0, 1} /\ faults' - faults = 1 /\ faults <= faults'
        BY <1>1, <4>1
      <4> QED
        BY <4>2
    <3>3. CASE ~PublishStarted(w) /\ ~Delta(w) /\ ~PublishEnd(w) /\ ~WorkerStops(w)
      <4>1. jobs' = jobs /\ faults' = faults
        BY <1>7, <3>3 DEF WorkerStep, InsertDraft, Checkpoint, AnswerEnds, AnswerFails, CommitEnd
      <4> QED
        BY <1>1, <4>1
    <3> QED
      BY <3>1, <3>2, <3>3
  <2>5. OneReplyPerRequest'
    BY <1>2, <1>3, <2>1, <2>3, <2>4, CountStays DEF CountInv
  <2> QED
    BY <1>3, <2>5 DEF CountInv
<1> QED
  BY <1>5, <1>6, <1>7

LEMMA CountStep ==
  ASSUME TypeOK, TypeOK', WriterInv, CountInv, [Next]_vars
  PROVE  CountInv'
<1>1. CASE UNCHANGED vars
  <2>1. UNCHANGED <<posted, rows, jobs, at, request, faults>>
    BY <1>1 DEF vars, db, procs
  <2> QED
    BY <2>1 DEF CountInv, OneReplyPerRequest, Single, Beginning
<1>2. CASE ReaderStep
  <2>1. UNCHANGED <<posted, rows, jobs, at, request>>
    BY <1>2, ReaderReads DEF Reads, db, procs
  <2>2. faults' \in {faults, faults + 1}
    BY <1>2 DEF ReaderStep, StreamStep, Reconnect, Connect, Poll, Yield, Forward, NoNotice,
       Disconnect, RedisFails, LoadMessages, LoadEvents, LoadDone, RefreshReads, RefreshDone,
       RefreshFails
  <2>3. Due' = Due /\ Starting' = Starting /\ Started' = Started
    BY <2>1 DEF Due, Starting, Started, Beginning
  <2>4. OneReplyPerRequest'
    BY <2>1, <2>2, <2>3, Sizes, CountStays DEF CountInv
  <2> QED
    BY <2>1, <2>4 DEF CountInv, Single
<1>3. CASE \E s \in Servers : \/ \E c \in Requests : Receive(s, c)
                              \/ ServerStep(s) \/ ServerDies(s)
  BY <1>3, ServerCount, ServerSingle DEF CountInv
<1>4. CASE \E w \in Workers : WorkerStep(w) \/ WorkerStops(w)
  BY <1>4, WorkerCount
<1> QED
  BY <1>1, <1>2, <1>3, <1>4, NextIs

(* However requests are repeated, race and are delivered again, no more replies are begun *)
(* or due than there are user messages and faults (the index of task_messages).           *)
THEOREM OneReplyCorrect == Spec => []OneReplyPerRequest
<1>1. WriterSafe /\ WriterSafe' /\ CountInv /\ [Next]_vars => CountInv'
  BY CountStep DEF WriterSafe
<1>2. CountInv => OneReplyPerRequest
  BY DEF CountInv
<1> QED
  BY <1>1, <1>2, InitCount, WritersCorrect, PTL DEF Spec
================================================================================
