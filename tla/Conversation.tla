----------------------------- MODULE Conversation -----------------------------
(***************************************************************************)
(* One chat: the requests that post messages to it (api/tasks.py), the     *)
(* worker-chat processes that answer them (worker/tasks.py, chat_reply),   *)
(* the task's event rows, the notices published beside them (realtime.py), *)
(* the stream that serves both to a browser (stream_events) and the page   *)
(* that shows the replies (WorkbenchView.vue).                             *)
(*                                                                         *)
(* An event takes its id when it is flushed and is seen when its           *)
(* transaction commits (services.add_event, READ COMMITTED).  The flush    *)
(* first updates tasks.current_step, and so holds the row's lock to the    *)
(* commit, unless the title equals the one the session has loaded.         *)
(*                                                                         *)
(* A reply is the sequence of its chunks.  Web search, the cap of 20,000   *)
(* characters, the batches of 200 events and the page's own reload after   *)
(* it has posted are left out.  The page is loaded once, at any moment.    *)
(***************************************************************************)
EXTENDS Integers, Sequences, FiniteSets, FiniteSetsExt

CONSTANTS
  Requests,         \* client_message_ids, numbered as the user writes
  Servers,          \* API requests that may be handled at a time
  Workers,          \* processes of worker-chat
  Drafts,           \* ids of the assistant's rows in task_messages, in the order of use
  NoDraft, NoProc,
  Chunks,           \* bound: chunks of an answer
  CheckpointEvery,  \* message_checkpoint_chars, in chunks
  MaxPosts,         \* bound: times a request is sent
  MaxQueue,         \* bound: notices the connection has not read yet
  MaxFaults         \* bound: crashes, unnamed exceptions, lost notices and connections

Procs == Servers \cup Workers

NoRequest == 0

ASSUME IdsAreNumbers ==
  /\ Requests \subseteq Nat \ {0} /\ IsFiniteSet(Requests)
  /\ Drafts \subseteq Nat /\ IsFiniteSet(Drafts)

ASSUME ProcsAreFinite == IsFiniteSet(Servers) /\ IsFiniteSet(Workers)

ASSUME NoneIsNone ==
  /\ NoDraft \notin Drafts
  /\ NoProc \notin Procs
  /\ Servers \cap Workers = {}

ASSUME BoundsAreNaturals ==
  /\ {MaxPosts, MaxFaults} \subseteq Nat
  /\ {Chunks, CheckpointEvery, MaxQueue} \subseteq Nat \ {0}

Kinds == {"message.user", "message.started", "message.completed", "message.failed"}
Titles == Kinds \cup {"task.created"}
NoTitle == "none"
Ends == {"message.completed", "message.failed"}

Whole(n) == [i \in 1..n |-> i]
ErrorText == <<0>>                   \* the sentence that replaces a failed reply
Texts == Seq(0..Chunks)

Row(state, words) == [state |-> state, text |-> words]
Absent == Row("ABSENT", <<>>)
Rows == [state : {"ABSENT", "STREAMING", "COMPLETED", "FAILED"}, text : Texts]
Ended(row) == row.state \in {"COMPLETED", "FAILED"}

Notices == [kind : {"message.started", "message.delta"} \cup Ends, draft : Drafts, text : Texts]

-----------------------------------------------------------------------------
VARIABLES
  posted,    \* requests with a user row
  rows,      \* the assistant's rows
  events,    \* task_events: kind, draft, whether it waited for the lock, transaction
  step,      \* tasks.current_step
  holder,    \* who holds the lock of the task's row
  jobs,      \* chat_reply messages in the queue
  posts,     \* how often each request was sent
  at,        \* where a process is
  title,     \* the current_step its session has loaded
  event,     \* the event of its open transaction
  request,   \* the request a server handles
  draft,     \* the row a worker writes
  told,      \* chunks a worker has received
  kept,      \* checkpoint_length
  stream,    \* the connection: cursor, batch, Redis subscription and its queue
  load,      \* the page's load: what its two parallel requests have returned
  page,      \* what it shows, the events it has, its pending and running refresh
  missed,    \* the page was loaded across a commit, or a notice or refresh was lost
  faults     \* faults so far

db == <<posted, rows, events, step, holder>>
procs == <<at, title, event, request, draft, told, kept>>
reader == <<load, page>>
vars == <<db, jobs, posts, procs, stream, reader, missed, faults>>

ServerSteps == {"idle", "checked", "flushed", "posted"}
WorkerSteps == {"idle", "loaded", "drafted", "begun", "streaming", "keeping",
                "closing", "marking", "completed", "failed"}

Ids == DOMAIN events
Committed == {i \in Ids : events[i].tx = "committed"}

Closed(from) == [open |-> FALSE, live |-> FALSE, from |-> from, cursor |-> from,
                 batch |-> {}, queue |-> <<>>, polled |-> FALSE]

NewPage == [shown |-> [d \in Drafts |-> Absent], seen |-> {}, pending |-> FALSE,
            reading |-> FALSE, copy |-> [d \in Drafts |-> Absent]]
NewLoad == [busy |-> TRUE, todo |-> {"messages", "events"},
            rows |-> [d \in Drafts |-> Absent], events |-> {}]

Init ==
  /\ posted = {}
  /\ rows = [d \in Drafts |-> Absent]
  /\ events = <<>>
  /\ step = "task.created"
  /\ holder = NoProc
  /\ jobs = 0
  /\ posts = [c \in Requests |-> 0]
  /\ at = [p \in Procs |-> "idle"]
  /\ title = [p \in Procs |-> NoTitle]
  /\ event = [p \in Procs |-> 0]
  /\ request = [s \in Servers |-> NoRequest]
  /\ draft = [w \in Workers |-> NoDraft]
  /\ told = [w \in Workers |-> 0]
  /\ kept = [w \in Workers |-> 0]
  /\ stream = Closed(0)
  /\ load = NewLoad
  /\ page = NewPage
  /\ missed = FALSE
  /\ faults = 0

-----------------------------------------------------------------------------
(***************************************************************************)
(* Transactions and notices                                                *)
(***************************************************************************)

\* add_event: the lock of the task's row if the title changes what the session has
\* loaded, then the next id.
AddEvent(p, loaded, kind, d) ==
  LET renames == loaded # kind
  IN  /\ renames => holder = NoProc
      /\ holder' = IF renames THEN p ELSE holder
      /\ events' = Append(events, [kind |-> kind, draft |-> d, locked |-> renames,
                                   tx |-> "open"])
      /\ event' = [event EXCEPT ![p] = Len(events) + 1]
      /\ title' = [title EXCEPT ![p] = NoTitle]

EndTransaction(p, outcome) ==
  /\ events' = IF event[p] = 0 THEN events ELSE [events EXCEPT ![event[p]].tx = outcome]
  /\ step' = IF holder = p /\ outcome = "committed" THEN events[event[p]].kind ELSE step
  /\ holder' = IF holder = p THEN NoProc ELSE holder
  /\ event' = [event EXCEPT ![p] = 0]

Commit(p) == EndTransaction(p, "committed")

Goto(p, place) == at' = [at EXCEPT ![p] = place]
Load(p, place) == Goto(p, place) /\ title' = [title EXCEPT ![p] = step]

\* publish_task_event: reaches the subscriber there is now; an error is swallowed.
Publish(kind, d, words) ==
  \/ /\ Len(stream.queue) < MaxQueue
     /\ stream' = IF stream.live
                  THEN [stream EXCEPT !.queue =
                          Append(@, [kind |-> kind, draft |-> d, text |-> words])]
                  ELSE stream
     /\ UNCHANGED <<missed, faults>>
  \/ /\ faults < MaxFaults
     /\ faults' = faults + 1
     /\ missed' = TRUE
     /\ UNCHANGED stream

-----------------------------------------------------------------------------
(***************************************************************************)
(* POST /tasks/{id}/messages that the router takes for chat                *)
(***************************************************************************)

\* The row of this client_message_id, had it been committed, would be returned.
Receive(s, c) ==
  /\ at[s] = "idle"
  /\ posts[c] < MaxPosts
  /\ \A b \in Requests : b < c => posts[b] > 0
  /\ posts' = [posts EXCEPT ![c] = @ + 1]
  /\ IF c \in posted
     THEN UNCHANGED <<at, title, request>>
     ELSE Load(s, "checked") /\ request' = [request EXCEPT ![s] = c]
  /\ UNCHANGED <<db, jobs, event, draft, told, kept, stream, reader, missed, faults>>

\* Mutant of Unique: only the dedupe of Receive.
NotUnique(s) == TRUE

\* The index ux_task_messages_task_client: no such row, and nobody is about to commit one.
Unique(s) ==
  /\ request[s] \notin posted
  /\ \A r \in Servers \ {s} : at[r] = "flushed" => request[r] # request[s]

Insert(s) ==
  /\ at[s] = "checked"
  /\ Unique(s)
  /\ AddEvent(s, title[s], "message.user", NoDraft)
  /\ Goto(s, "flushed")
  /\ UNCHANGED <<posted, rows, step, jobs, posts, request, draft, told, kept, stream,
                 reader, missed, faults>>

\* The unique index refuses the second row; the request fails.
InsertRefused(s) ==
  /\ at[s] = "checked"
  /\ request[s] \in posted
  /\ Goto(s, "idle")
  /\ request' = [request EXCEPT ![s] = NoRequest]
  /\ title' = [title EXCEPT ![s] = NoTitle]
  /\ UNCHANGED <<db, jobs, posts, event, draft, told, kept, stream, reader, missed, faults>>

CommitPost(s) ==
  /\ at[s] = "flushed"
  /\ Commit(s)
  /\ posted' = posted \cup {request[s]}
  /\ Goto(s, "posted")
  /\ UNCHANGED <<rows, jobs, posts, title, request, draft, told, kept, stream, reader,
                 missed, faults>>

SendReplyTask(s) ==
  /\ at[s] = "posted"
  /\ jobs' = jobs + 1
  /\ Goto(s, "idle")
  /\ request' = [request EXCEPT ![s] = NoRequest]
  /\ UNCHANGED <<db, posts, title, event, draft, told, kept, stream, reader, missed, faults>>

ServerDies(s) ==
  /\ at[s] # "idle"
  /\ faults < MaxFaults
  /\ faults' = faults + 1
  /\ EndTransaction(s, "void")
  /\ Goto(s, "idle")
  /\ request' = [request EXCEPT ![s] = NoRequest]
  /\ title' = [title EXCEPT ![s] = NoTitle]
  /\ UNCHANGED <<posted, rows, jobs, posts, draft, told, kept, stream, reader, missed>>

-----------------------------------------------------------------------------
(***************************************************************************)
(* chat_reply                                                              *)
(***************************************************************************)

\* The message is acknowledged when the task returns (acks_late).
TakeJob(w) ==
  /\ at[w] = "idle"
  /\ jobs > 0
  /\ jobs' = jobs - 1
  /\ Load(w, "loaded")
  /\ UNCHANGED <<db, posts, event, request, draft, told, kept, stream, reader, missed,
                 faults>>

\* Mutant of Unused: the draft of a worker that died is taken up, finished or not.
UnusedNow(d) == \A w \in Workers : draft[w] # d

Unused(d) == rows[d] = Absent /\ \A w \in Workers : draft[w] # d

InsertDraft(w, d) ==
  /\ at[w] = "loaded"
  /\ Unused(d) /\ \A e \in Drafts : Unused(e) => d <= e
  /\ AddEvent(w, title[w], "message.started", d)
  /\ draft' = [draft EXCEPT ![w] = d]
  /\ Goto(w, "drafted")
  /\ UNCHANGED <<posted, rows, step, jobs, posts, request, told, kept, stream, reader,
                 missed, faults>>

Write(w, row) == rows' = [rows EXCEPT ![draft[w]] = row]

CommitDraft(w) ==
  /\ at[w] = "drafted"
  /\ Commit(w)
  /\ Write(w, Row("STREAMING", <<>>))
  /\ Goto(w, "begun")
  /\ UNCHANGED <<posted, jobs, posts, title, request, draft, told, kept, stream, reader,
                 missed, faults>>

PublishStarted(w) ==
  /\ at[w] = "begun"
  /\ Publish("message.started", draft[w], <<>>)
  /\ Goto(w, "streaming")
  /\ UNCHANGED <<db, jobs, posts, title, event, request, draft, told, kept, reader>>

CheckpointDue(w, n) == n - kept[w] >= CheckpointEvery

Delta(w) ==
  /\ at[w] = "streaming"
  /\ told[w] < Chunks
  /\ told' = [told EXCEPT ![w] = @ + 1]
  /\ Publish("message.delta", draft[w], <<told[w] + 1>>)
  /\ IF CheckpointDue(w, told[w] + 1) THEN Goto(w, "keeping") ELSE UNCHANGED at
  /\ UNCHANGED <<db, jobs, posts, title, event, request, draft, kept, reader>>

Checkpoint(w) ==
  /\ at[w] = "keeping"
  /\ Write(w, [rows[draft[w]] EXCEPT !.text = Whole(told[w])])
  /\ kept' = [kept EXCEPT ![w] = told[w]]
  /\ Goto(w, "streaming")
  /\ UNCHANGED <<posted, events, step, holder, jobs, posts, title, event, request, draft,
                 told, stream, reader, missed, faults>>

\* The answer ends after any chunk; the session that writes it loads the task at once.
AnswerEnds(w) ==
  /\ at[w] = "streaming"
  /\ told[w] > 0
  /\ AddEvent(w, step, "message.completed", draft[w])
  /\ Goto(w, "closing")
  /\ UNCHANGED <<posted, rows, step, jobs, posts, request, draft, told, kept, stream,
                 reader, missed, faults>>

Leave(w) ==
  /\ Goto(w, "idle")
  /\ draft' = [draft EXCEPT ![w] = NoDraft]
  /\ told' = [told EXCEPT ![w] = 0]
  /\ kept' = [kept EXCEPT ![w] = 0]

\* Mutant of AnswerFails: the task ends without a word about the draft.
AnswerFailsSilently(w) ==
  /\ at[w] = "streaming"
  /\ Leave(w)
  /\ UNCHANGED <<db, jobs, posts, title, event, request, stream, reader, missed, faults>>

\* MiniTotError: the model fails, or has said nothing.
AnswerFails(w) ==
  /\ at[w] = "streaming"
  /\ AddEvent(w, step, "message.failed", draft[w])
  /\ Goto(w, "marking")
  /\ UNCHANGED <<posted, rows, step, jobs, posts, request, draft, told, kept, stream,
                 reader, missed, faults>>

CommitEnd(w) ==
  /\ at[w] \in {"closing", "marking"}
  /\ Commit(w)
  /\ IF at[w] = "closing"
     THEN Write(w, Row("COMPLETED", Whole(told[w]))) /\ Goto(w, "completed")
     ELSE Write(w, Row("FAILED", ErrorText)) /\ Goto(w, "failed")
  /\ UNCHANGED <<posted, jobs, posts, title, request, draft, told, kept, stream, reader,
                 missed, faults>>

\* Mutant of PublishEnd: the notice comes before the commit.
PublishEndEarly(w) ==
  /\ at[w] = "closing"
  /\ Publish("message.completed", draft[w], Whole(told[w]))
  /\ Goto(w, "marking")
  /\ UNCHANGED <<db, jobs, posts, title, event, request, draft, told, kept, reader>>

PublishEnd(w) ==
  /\ at[w] \in {"completed", "failed"}
  /\ IF at[w] = "completed"
     THEN Publish("message.completed", draft[w], Whole(told[w]))
     ELSE Publish("message.failed", draft[w], ErrorText)
  /\ Leave(w)
  /\ UNCHANGED <<db, jobs, posts, title, event, request, reader>>

\* An exception the task does not name ends it, acknowledged; a container that dies
\* leaves the message to be delivered again.
WorkerStops(w) ==
  /\ at[w] # "idle"
  /\ faults < MaxFaults
  /\ faults' = faults + 1
  /\ EndTransaction(w, "void")
  /\ jobs' \in {jobs, jobs + 1}
  /\ Leave(w)
  /\ title' = [title EXCEPT ![w] = NoTitle]
  /\ missed' = (missed \/ at[w] \in {"completed", "failed"})
  /\ UNCHANGED <<posted, rows, posts, request, stream, reader>>

-----------------------------------------------------------------------------
(***************************************************************************)
(* GET /tasks/{id}/stream                                                  *)
(***************************************************************************)

Reads == UNCHANGED <<db, jobs, posts, procs>>

Later(cursor) == {i \in Committed : i > cursor}

\* Subscribes, or goes on without Redis, and reads from the id of the page's URL.
Connect(from) ==
  \/ stream' = [Closed(from) EXCEPT !.open = TRUE, !.live = TRUE] /\ UNCHANGED faults
  \/ /\ faults < MaxFaults
     /\ faults' = faults + 1
     /\ stream' = [Closed(from) EXCEPT !.open = TRUE]

\* The browser repeats the request; last_event_id in its URL outranks Last-Event-ID.
Reconnect ==
  /\ ~stream.open /\ ~load.busy
  /\ Connect(stream.from)
  /\ Reads /\ UNCHANGED <<reader, missed>>

Poll ==
  /\ stream.open /\ ~stream.polled
  /\ stream' = [stream EXCEPT !.polled = TRUE, !.batch = Later(stream.cursor)]
  /\ Reads /\ UNCHANGED <<reader, missed, faults>>

Begun(d) == IF page.shown[d] = Absent THEN Row("STREAMING", <<>>) ELSE page.shown[d]

\* The page takes an event: it starts a reply and reads the messages again.
Yield ==
  /\ stream.batch # {}
  /\ LET e == Min(stream.batch)
         d == events[e].draft
     IN  /\ stream' = [stream EXCEPT !.cursor = e, !.batch = @ \ {e}]
         /\ page' = [page EXCEPT
               !.seen = @ \cup {e},
               !.pending = TRUE,
               !.shown = IF events[e].kind = "message.started"
                         THEN [@ EXCEPT ![d] = Begun(d)] ELSE @]
  /\ Reads /\ UNCHANGED <<load, missed, faults>>

\* applyStreamMessage
Applied(n) ==
  LET row == Begun(n.draft)
  IN  CASE n.kind = "message.started"   -> row
        [] n.kind = "message.delta"     -> [row EXCEPT !.text = @ \o n.text]
        [] n.kind = "message.completed" -> Row("COMPLETED", n.text)
        [] n.kind = "message.failed"    -> Row("FAILED", IF row.text = <<>> THEN n.text
                                                         ELSE row.text)

\* One notice per look at the database.
Forward ==
  /\ stream.open /\ stream.polled /\ stream.batch = {}
  /\ stream.queue # <<>>
  /\ LET n == Head(stream.queue)
     IN  /\ stream' = [stream EXCEPT !.queue = Tail(@), !.polled = FALSE]
         /\ page' = [page EXCEPT !.shown[n.draft] = Applied(n),
                                 !.pending = @ \/ n.kind # "message.delta"]
  /\ Reads /\ UNCHANGED <<load, missed, faults>>

\* get_message gives up after half a second; left out while there is nothing to read.
NoNotice ==
  /\ stream.open /\ stream.polled /\ stream.batch = {}
  /\ stream.queue = <<>> /\ Later(stream.cursor) # {}
  /\ stream' = [stream EXCEPT !.polled = FALSE]
  /\ Reads /\ UNCHANGED <<reader, missed, faults>>

Disconnect ==
  /\ stream.open
  /\ faults < MaxFaults
  /\ faults' = faults + 1
  /\ stream' = Closed(stream.from)
  /\ Reads /\ UNCHANGED <<reader, missed>>

\* RedisError: the connection goes on with the database alone.
RedisFails ==
  /\ stream.live
  /\ faults < MaxFaults
  /\ faults' = faults + 1
  /\ stream' = [stream EXCEPT !.live = FALSE, !.queue = <<>>]
  /\ missed' = TRUE
  /\ Reads /\ UNCHANGED reader

-----------------------------------------------------------------------------
(***************************************************************************)
(* The page                                                                *)
(***************************************************************************)

LoadMessages ==
  /\ "messages" \in load.todo
  /\ load' = [load EXCEPT !.todo = @ \ {"messages"}, !.rows = rows]
  /\ Reads /\ UNCHANGED <<stream, page, missed, faults>>

LoadEvents ==
  /\ "events" \in load.todo
  /\ load' = [load EXCEPT !.todo = @ \ {"events"}, !.events = Committed]
  /\ Reads /\ UNCHANGED <<stream, page, missed, faults>>

\* The events of the load tell of an end that its messages do not show.
Apart == \E i \in load.events : events[i].kind \in Ends /\ ~Ended(load.rows[events[i].draft])

LoadDone ==
  /\ load.busy /\ load.todo = {}
  /\ LET last == Max(load.events \cup {0})
     IN  /\ page' = [page EXCEPT !.shown = load.rows, !.seen = load.events]
         /\ Connect(last)
  /\ load' = [NewLoad EXCEPT !.busy = FALSE, !.todo = {}]
  /\ missed' = Apart
  /\ Reads

\* The timer fires and the server reads: what comes in between only refreshes once more.
RefreshReads ==
  /\ page.pending /\ ~page.reading
  /\ page' = [page EXCEPT !.pending = FALSE, !.reading = TRUE, !.copy = rows]
  /\ Reads /\ UNCHANGED <<stream, load, missed, faults>>

\* Mutant of Refreshed: clears the sections asked for while the answer was awaited.
RefreshedAndCleared(shown) ==
  [page EXCEPT !.shown = shown, !.reading = FALSE, !.pending = FALSE,
               !.copy = [d \in Drafts |-> Absent]]

Refreshed(shown) == [page EXCEPT !.shown = shown, !.reading = FALSE,
                                 !.copy = [d \in Drafts |-> Absent]]

RefreshDone ==
  /\ page.reading
  /\ page' = Refreshed(page.copy)
  /\ Reads /\ UNCHANGED <<stream, load, missed, faults>>

RefreshFails ==
  /\ page.reading
  /\ faults < MaxFaults
  /\ faults' = faults + 1
  /\ page' = Refreshed(page.shown)
  /\ missed' = TRUE
  /\ Reads /\ UNCHANGED <<stream, load>>

-----------------------------------------------------------------------------
ServerStep(s) == Insert(s) \/ InsertRefused(s) \/ CommitPost(s) \/ SendReplyTask(s)

WorkerStep(w) ==
  \/ TakeJob(w) \/ (\E d \in Drafts : InsertDraft(w, d)) \/ CommitDraft(w)
  \/ PublishStarted(w) \/ Delta(w) \/ Checkpoint(w)
  \/ AnswerEnds(w) \/ AnswerFails(w) \/ CommitEnd(w) \/ PublishEnd(w)

StreamStep == Reconnect \/ Poll \/ Yield \/ Forward \/ NoNotice

Next ==
  \/ \E s \in Servers, c \in Requests : Receive(s, c)
  \/ \E s \in Servers : ServerStep(s) \/ ServerDies(s)
  \/ \E w \in Workers : WorkerStep(w) \/ WorkerStops(w)
  \/ StreamStep \/ Disconnect \/ RedisFails
  \/ LoadMessages \/ LoadEvents \/ LoadDone
  \/ RefreshReads \/ RefreshDone \/ RefreshFails

Spec == Init /\ [][Next]_vars

\* Processes that live go on; nobody has to post or to load the page.
Fairness ==
  /\ \A s \in Servers : WF_vars(ServerStep(s))
  /\ \A w \in Workers : WF_vars(WorkerStep(w))
  /\ WF_vars(StreamStep)
  /\ WF_vars(LoadMessages) /\ WF_vars(LoadEvents) /\ WF_vars(LoadDone)
  /\ WF_vars(RefreshReads) /\ WF_vars(RefreshDone)

FairSpec == Spec /\ Fairness

-----------------------------------------------------------------------------
(***************************************************************************)
(* Properties                                                              *)
(***************************************************************************)

EventRecords == [kind : Kinds, draft : Drafts \cup {NoDraft}, locked : BOOLEAN,
                 tx : {"open", "committed", "void"}]

Streams == [open : BOOLEAN, live : BOOLEAN, from : Nat, cursor : Nat, batch : SUBSET Nat,
            queue : Seq(Notices), polled : BOOLEAN]
Pages == [shown : [Drafts -> Rows], seen : SUBSET Nat, pending : BOOLEAN,
          reading : BOOLEAN, copy : [Drafts -> Rows]]
Loads == [busy : BOOLEAN, todo : SUBSET {"messages", "events"}, rows : [Drafts -> Rows],
          events : SUBSET Nat]

DbTypes ==
  /\ posted \subseteq Requests
  /\ rows \in [Drafts -> Rows]
  /\ events \in Seq(EventRecords)
  /\ \A i \in Ids : events[i].kind # "message.user" => events[i].draft \in Drafts
  /\ step \in Titles
  /\ holder \in Procs \cup {NoProc}
  /\ event \in [Procs -> Ids \cup {0}]
  /\ holder # NoProc => event[holder] # 0

ProcTypes ==
  /\ jobs \in Nat /\ faults \in Nat /\ missed \in BOOLEAN
  /\ posts \in [Requests -> Nat]
  /\ at \in [Procs -> ServerSteps \cup WorkerSteps]
  /\ \A s \in Servers : at[s] \in ServerSteps
  /\ \A w \in Workers : at[w] \in WorkerSteps
  /\ title \in [Procs -> Titles \cup {NoTitle}]
  /\ request \in [Servers -> Requests \cup {NoRequest}]
  /\ \A s \in Servers : at[s] # "idle" => request[s] \in Requests
  /\ draft \in [Workers -> Drafts \cup {NoDraft}]
  /\ \A w \in Workers : at[w] \notin {"idle", "loaded"} => draft[w] \in Drafts
  /\ told \in [Workers -> 0..Chunks] /\ kept \in [Workers -> 0..Chunks]

ReaderTypes ==
  /\ stream \in Streams /\ stream.batch \subseteq Ids
  /\ page \in Pages
  /\ load \in Loads /\ load.events \subseteq Ids

\* Every variable keeps its type; the lock is held by a process with an open event, events
\* of replies and processes that write one name it.
TypeOK == DbTypes /\ ProcTypes /\ ReaderTypes

Beginning(w) == at[w] \in {"loaded", "drafted"}

\* However often a browser repeats a request, whichever of its copies race, and however
\* the queue redelivers: no more replies are begun or due than there are user messages
\* and faults (create_task_message, the index ux_task_messages_task_client, chat_reply).
OneReplyPerRequest ==
  jobs + Cardinality({s \in Servers : at[s] = "posted"})
       + Cardinality({w \in Workers : Beginning(w)})
       + Cardinality({d \in Drafts : rows[d] # Absent})
    <= Cardinality(posted) + faults

\* PostgreSQL first, the notice after (docs/architecture.md, event consistency): a page
\* never shows as ended, nor is about to, a reply that is not stored as ended that way.
PageNeverAhead ==
  /\ \A d \in Drafts : Ended(page.shown[d]) => rows[d].state = page.shown[d].state
  /\ \A i \in DOMAIN stream.queue :
       LET n == stream.queue[i]
       IN  n.kind = "message.completed" => rows[n.draft] = Row("COMPLETED", n.text)

\* The cursor of stream_events passes no event by: what has been committed with an id at or
\* below it is in the page's list (README.md, the recovery from PostgreSQL by event id).
EveryEventIsStreamed ==
  stream.open => \A i \in Committed : i <= stream.cursor => i \in page.seen

Answered == {d \in Drafts : Ended(rows[d])}

\* Without a fault every user message that was posted gets a reply that ends, completed
\* or failed, whatever the model answers (chat_reply's two ends).
RepliesEnd ==
  <>[](faults = 0 => /\ jobs = 0
                     /\ \A p \in Procs : at[p] = "idle"
                     /\ Cardinality(Answered) = Cardinality(posted))

\* Every transaction held the lock of the task's row, so ids are in the order of commits.
AllLocked == \A i \in Ids : events[i].locked

PageIsCurrent == \A d \in Answered : page.shown[d] = rows[d]

\* The page comes to show the replies that ended as they are stored, whatever deltas it
\* missed and wherever its connection broke; except when it was loaded across the commit of
\* an end, a notice or refresh was lost, or an event was overtaken (connectStream,
\* applyStreamMessage, scheduleRefresh).
PageSettles == []<>(missed \/ ~AllLocked) \/ <>[]PageIsCurrent

\* The stored replies live as module Replies promises.
Promise == INSTANCE Replies WITH asked <- posted, replies <- rows
StoredAsPromised == Promise!Spec
==============================================================================
