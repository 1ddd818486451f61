-------------------------------- MODULE Memory --------------------------------
(***************************************************************************)
(* The global memories of one user: the extraction that archiving a task   *)
(* queues (api/tasks.py), its analysis by the one process of worker-memory *)
(* (worker/tasks.py, memory.py), and the owner's own requests              *)
(* (api/memories.py).                                                      *)
(*                                                                         *)
(* Sessions read rows, change their copies and write at commit only the    *)
(* columns they changed (READ COMMITTED, expire_on_commit off); with       *)
(* autoflush off a query selects by the stored rows, not by the copies.    *)
(* Row locks are left out: a commit is one step.  A profile is the set of  *)
(* statements it was built from; its order and its limits (80 rows, 12 a   *)
(* category, 6,000 characters) are left out, and so are the memories of    *)
(* projects, of which each analysis makes its own.                         *)
(***************************************************************************)
EXTENDS Integers, Sequences, FiniteSets, FiniteSetsExt

CONSTANTS
  Tasks,        \* the user's tasks
  Clients,      \* requests of the owner that may be open at a time
  Ids,          \* ids of memory rows
  Categories, Names, Statements,
  Analyses,     \* what the model may answer: sequences of items
  Edits,        \* bodies of PATCH requests
  Keep,         \* a column a PATCH leaves out
  NoRow,        \* no such row
  MaxMemories,  \* max_memories_per_user
  MaxRetries,   \* max_retries of the Celery task
  MaxAsks,      \* bound: requests of the owner
  MaxFaults     \* bound: crashes of the worker and exceptions it does not name

Confidences == 0..10   \* in tenths
Strong == 8

Items == [category : Categories, name : Names, statement : Statements,
          confidence : Confidences, explicit : BOOLEAN]

ASSUME AnalysesAreValid == Analyses \subseteq Seq(Items)

ASSUME EditsAreValid ==
  Edits \subseteq [category : Categories \cup {Keep}, statement : Statements \cup {Keep},
                   confidence : Confidences \cup {Keep}]

ASSUME BoundsAreNaturals ==
  /\ IsFiniteSet(Ids) /\ IsFiniteSet(Tasks)
  /\ {MaxMemories, MaxRetries, MaxAsks, MaxFaults} \subseteq Nat

Statuses == {"CANDIDATE", "ACTIVE", "DISABLED"}

Rows == [category : Categories, name : Names, statement : Statements,
         confidence : Confidences, status : Statuses, occurrences : Nat]

ASSUME NoRowIsNoRow == NoRow \notin Rows \cup Ids

-----------------------------------------------------------------------------
VARIABLES
  memory,      \* user_memories
  evidence,    \* memory_revisions CREATED and MERGED: how many of a task
  activated,   \* memory_revisions ACTIVATED: of which memories
  profile,     \* user_memory_profiles: whether it exists, its statements
  archived,    \* tasks with deleted_at set
  extraction,  \* memory_extractions: the status of each task's
  queue,       \* messages in queue "memory", by task and Celery retries
  unsent,      \* API requests that committed and have yet to send
  retrying,    \* requests to retry that found the extraction at rest
  session,     \* requests to api/memories.py
  worker,      \* the session of worker-memory
  asks, faults,\* how much of the bounds is used
  stated,      \* history: memories an explicit item supported
  raised,      \* history: tasks whose analysis raised an unnamed exception
  asked,       \* history: how often an analysis was asked for
  merges       \* history: how often an analysis was merged

vars == <<memory, evidence, activated, profile, archived, extraction, queue, unsent,
          retrying, session, worker, asks, faults, stated, raised, asked, merges>>

rows == <<memory, evidence, activated, stated>>
requests == <<archived, unsent, retrying, session, asks, asked>>

Exists(r) == r # NoRow
Live(r) == Exists(r) /\ r.status \in {"CANDIDATE", "ACTIVE"}
IsActive(r) == Exists(r) /\ r.status = "ACTIVE"

NoSession == [act |-> "none", id |-> NoRow, edit |-> Keep,
              read |-> [i \in Ids |-> NoRow], profiled |-> FALSE]

NotLoaded == [i \in Ids |-> NoRow]

Idle == [pc |-> "idle", task |-> NoRow, retries |-> 0, items |-> <<>>, count |-> 0,
         base |-> NotLoaded, copy |-> NotLoaded, flushed |-> {}, stated |-> {},
         revised |-> [i \in Ids |-> 0]]

Init ==
  /\ memory = [i \in Ids |-> NoRow]
  /\ evidence = [i \in Ids |-> [t \in Tasks |-> 0]]
  /\ activated = {} /\ stated = {} /\ raised = {}
  /\ profile = [exists |-> FALSE, summary |-> {}]
  /\ archived = {}
  /\ extraction = [t \in Tasks |-> "NONE"]
  /\ queue = [t \in Tasks |-> [r \in 0..MaxRetries |-> 0]]
  /\ unsent = [t \in Tasks |-> 0]
  /\ retrying = [t \in Tasks |-> 0]
  /\ session = [c \in Clients |-> NoSession]
  /\ worker = Idle
  /\ asks = 0 /\ faults = 0
  /\ asked = [t \in Tasks |-> 0] /\ merges = [t \in Tasks |-> 0]

(* What a commit leaves in a row: the columns the session changed are its  *)
(* own, the others are as they are stored.                                 *)
Column(base, copy, stored) == IF copy = base THEN stored ELSE copy
Written(base, copy, stored) ==
  [category    |-> Column(base.category, copy.category, stored.category),
   name        |-> stored.name,
   statement   |-> Column(base.statement, copy.statement, stored.statement),
   confidence  |-> Column(base.confidence, copy.confidence, stored.confidence),
   status      |-> Column(base.status, copy.status, stored.status),
   occurrences |-> Column(base.occurrences, copy.occurrences, stored.occurrences)]

(* rebuild_profile: the rows stored as ACTIVE, with the statements of the  *)
(* session's copies.                                                       *)
Summary(stored, copy) == {<<i, copy[i].statement>> : i \in {j \in Ids : IsActive(stored[j])}}

HasKey(r, category, name) == Exists(r) /\ r.category = category /\ r.name = name
UniqueKeys(m) ==
  \A i, j \in Ids : Exists(m[i]) /\ i # j => ~HasKey(m[j], m[i].category, m[i].name)

-----------------------------------------------------------------------------
(* Archiving a task queues its analysis once; restoring it leaves the      *)
(* extraction as it is.  The other statuses of the task are not its        *)
(* concern.                                                                *)
MayAsk == asks < MaxAsks

Archive(t) ==
  /\ MayAsk /\ t \notin archived
  /\ asks' = asks + 1
  /\ archived' = archived \cup {t}
  /\ IF extraction[t] = "NONE"
       THEN /\ extraction' = [extraction EXCEPT ![t] = "QUEUED"]
            /\ unsent' = [unsent EXCEPT ![t] = @ + 1]
            /\ asked' = [asked EXCEPT ![t] = @ + 1]
       ELSE UNCHANGED <<extraction, unsent, asked>>
  /\ UNCHANGED <<rows, profile, raised, queue, retrying, session, worker, faults, merges>>

Restore(t) ==
  /\ MayAsk /\ t \in archived
  /\ asks' = asks + 1
  /\ archived' = archived \ {t}
  /\ UNCHANGED <<rows, profile, raised, extraction, queue, unsent, retrying, session, worker,
                 faults, asked, merges>>

Send(t) ==
  /\ unsent[t] > 0
  /\ unsent' = [unsent EXCEPT ![t] = @ - 1]
  /\ queue' = [queue EXCEPT ![t][0] = @ + 1]
  /\ UNCHANGED <<rows, profile, raised, archived, extraction, retrying, session, worker,
                 asks, faults, asked, merges>>

(* POST .../archive-analysis/retry: its two halves.  A task archived       *)
(* before extractions existed is refused too: its new row is QUEUED.       *)
MayRetry(t) == t \in archived /\ extraction[t] \in {"SUCCEEDED", "FAILED"}

RetryOpen(t) ==
  /\ MayAsk /\ MayRetry(t)
  /\ asks' = asks + 1
  /\ retrying' = [retrying EXCEPT ![t] = @ + 1]
  /\ UNCHANGED <<rows, profile, raised, archived, extraction, queue, unsent, session, worker,
                 faults, asked, merges>>

RetryCommit(t) ==
  /\ retrying[t] > 0
  /\ retrying' = [retrying EXCEPT ![t] = @ - 1]
  /\ extraction' = [extraction EXCEPT ![t] = "QUEUED"]
  /\ unsent' = [unsent EXCEPT ![t] = @ + 1]
  /\ asked' = [asked EXCEPT ![t] = @ + 1]
  /\ UNCHANGED <<rows, profile, raised, archived, queue, session, worker, asks, faults, merges>>

-----------------------------------------------------------------------------
(* The owner's requests: loaded and changed, then committed.               *)
OrOld(new, old) == IF new = Keep THEN old ELSE new

NewStatus(act, old) ==
  CASE act = "activate" -> "ACTIVE"
    [] act = "disable" -> "DISABLED"
    [] act = "edit" -> old

Edited(act, edit, r) ==
  IF act = "edit"
    THEN [category |-> OrOld(edit.category, r.category), name |-> r.name,
          statement |-> OrOld(edit.statement, r.statement),
          confidence |-> OrOld(edit.confidence, r.confidence),
          status |-> r.status, occurrences |-> r.occurrences]
    ELSE [category |-> r.category, name |-> r.name, statement |-> r.statement,
          confidence |-> r.confidence, status |-> NewStatus(act, r.status),
          occurrences |-> r.occurrences]

CopyOf(s) == Edited(s.act, s.edit, s.read[s.id])
CopiesOf(s) == [s.read EXCEPT ![s.id] = CopyOf(s)]
(* Mutant of Rebuilt: the summary is built from the rows as they are stored. *)
RebuiltFromStored(s) == Summary(s.read, s.read)
Rebuilt(s) == IF s.id \in Ids THEN Summary(s.read, CopiesOf(s)) ELSE Summary(s.read, s.read)

Open(c, act, i, edit) ==
  /\ MayAsk /\ session[c].act = "none"
  /\ asks' = asks + 1
  /\ session' = [session EXCEPT ![c] =
       [act |-> act, id |-> i, edit |-> edit, read |-> memory, profiled |-> profile.exists]]
  /\ UNCHANGED <<rows, profile, raised, archived, extraction, queue, unsent, retrying, worker,
                 faults, asked, merges>>

ActivateMemory(c, i) == Exists(memory[i]) /\ Open(c, "activate", i, Keep)
DisableMemory(c, i) == Exists(memory[i]) /\ Open(c, "disable", i, Keep)
UpdateMemory(c, i, e) == Exists(memory[i]) /\ Open(c, "edit", i, e)
GetMemoryProfile(c) == ~profile.exists /\ Open(c, "profile", NoRow, Keep)

Stored(s) ==
  IF s.id \in Ids
    THEN [memory EXCEPT ![s.id] = Written(s.read[s.id], CopyOf(s), memory[s.id])]
    ELSE memory

(* The unique indexes: a second profile, or a second memory of one key.    *)
Refused(m, profiled) == ~UniqueKeys(m) \/ (~profiled /\ profile.exists)

Commit(c) ==
  LET s == session[c] IN
  /\ s.act # "none" /\ ~Refused(Stored(s), s.profiled)
  /\ memory' = Stored(s)
  /\ activated' = IF s.act = "activate" THEN activated \cup {s.id} ELSE activated
  /\ profile' = [exists |-> TRUE, summary |-> Rebuilt(s)]
  /\ session' = [session EXCEPT ![c] = NoSession]
  /\ UNCHANGED <<evidence, stated, raised, archived, extraction, queue, unsent, retrying, worker,
                 asks, faults, asked, merges>>

Rollback(c) ==
  LET s == session[c] IN
  /\ s.act # "none" /\ Refused(Stored(s), s.profiled)
  /\ session' = [session EXCEPT ![c] = NoSession]
  /\ UNCHANGED <<rows, profile, raised, archived, extraction, queue, unsent, retrying, worker,
                 asks, faults, asked, merges>>

-----------------------------------------------------------------------------
(* The worker.  A message is acknowledged when its task has returned; one  *)
(* that was not is delivered again after a crash.                          *)
Receive(t, r) ==
  /\ worker.pc = "idle" /\ queue[t][r] > 0
  /\ queue' = [queue EXCEPT ![t][r] = @ - 1]
  /\ worker' = [Idle EXCEPT !.pc = "received", !.task = t, !.retries = r]
  /\ UNCHANGED <<rows, profile, raised, extraction, faults, merges, requests>>

At(pc) == worker.pc = pc
Goes(pc) == worker' = [worker EXCEPT !.pc = pc]
Marked(status) == extraction' = [extraction EXCEPT ![worker.task] = status]

(* Mutant of IsMerged: a message delivered again is analysed again. *)
IsNeverMerged == FALSE
IsMerged == extraction[worker.task] = "SUCCEEDED"

Skip ==
  /\ At("received") /\ IsMerged
  /\ Goes("returned")
  /\ UNCHANGED <<rows, profile, raised, extraction, queue, faults, merges, requests>>

Begin ==
  /\ At("received") /\ ~IsMerged
  /\ Marked("RUNNING") /\ Goes("analysing")
  /\ UNCHANGED <<rows, profile, raised, queue, faults, merges, requests>>

Fail ==
  /\ At("analysing")
  /\ Marked("FAILED") /\ Goes("failed")
  /\ UNCHANGED <<rows, profile, raised, queue, faults, merges, requests>>

HasRetry == worker.retries < MaxRetries

Retry ==
  /\ At("failed")
  /\ queue' = IF HasRetry
                THEN [queue EXCEPT ![worker.task][worker.retries + 1] = @ + 1] ELSE queue
  /\ Goes("returned")
  /\ UNCHANGED <<rows, profile, raised, extraction, faults, merges, requests>>

(* merge_analysis begins: the memories are counted. *)
LiveIds(m) == {i \in Ids : Live(m[i])}

Merge(items) ==
  /\ At("analysing")
  /\ worker' = [worker EXCEPT !.pc = "merging", !.items = items,
                              !.count = Cardinality(LiveIds(memory))]
  /\ UNCHANGED <<rows, profile, raised, extraction, queue, faults, merges, requests>>

(* Mutant of Strongest: confidences add up. *)
Strengthened(a, b) == a + b
Strongest(a, b) == IF a < b THEN b ELSE a

(* Mutant of Promotes: a memory its owner disabled counts as well. *)
PromotesDisabled(r, item) ==
  r.status # "ACTIVE" /\ ((item.explicit /\ item.confidence >= Strong) \/ r.occurrences + 1 >= 2)
Promotes(r, item) ==
  r.status = "CANDIDATE" /\ ((item.explicit /\ item.confidence >= Strong) \/ r.occurrences + 1 >= 2)

(* Mutant of Created: what the model is sure of need not be explicit. *)
CreatedIfSure(item) ==
  [category |-> item.category, name |-> item.name, statement |-> item.statement,
   confidence |-> item.confidence, occurrences |-> 1,
   status |-> IF item.confidence >= Strong THEN "ACTIVE" ELSE "CANDIDATE"]
Created(item) ==
  [category |-> item.category, name |-> item.name, statement |-> item.statement,
   confidence |-> item.confidence, occurrences |-> 1,
   status |-> IF item.explicit /\ item.confidence >= Strong THEN "ACTIVE" ELSE "CANDIDATE"]

MergedWith(r, item) ==
  [category |-> r.category, name |-> r.name,
   statement |-> IF item.explicit \/ item.confidence >= r.confidence
                   THEN item.statement ELSE r.statement,
   confidence |-> Strongest(r.confidence, item.confidence),
   occurrences |-> r.occurrences + 1,
   status |-> IF Promotes(r, item) THEN "ACTIVE" ELSE r.status]

(* The rows a query of the worker's session can find: those stored and     *)
(* those it has created.                                                   *)
Visible(i) == IF Exists(memory[i]) THEN memory[i] ELSE worker.copy[i]
Loaded(i) == IF Exists(worker.copy[i]) THEN worker.copy[i] ELSE memory[i]
Found(item) == {i \in Ids : HasKey(Visible(i), item.category, item.name)}
Free == {i \in Ids : ~Exists(memory[i]) /\ ~Exists(worker.copy[i])}

Supported(item, i) ==
  IF item.explicit THEN worker.stated \cup {i} ELSE worker.stated

MergeItem ==
  LET item == Head(worker.items) IN
  /\ At("merging") /\ worker.items # <<>>
  /\ \E i \in Found(item) :
       worker' = [worker EXCEPT
         !.items = Tail(worker.items),
         !.base[i] = IF Exists(worker.copy[i]) THEN worker.base[i] ELSE memory[i],
         !.copy[i] = MergedWith(Loaded(i), item),
         !.revised[i] = @ + 1, !.stated = Supported(item, i)]
  /\ UNCHANGED <<rows, profile, raised, extraction, queue, faults, merges, requests>>

(* Mutant of HasRoom: what this analysis has created is not counted. *)
HasRoomAtFirst == Cardinality(LiveIds(memory)) < MaxMemories
HasRoom == worker.count < MaxMemories

(* A creation is flushed, and with it everything the session has changed.  *)
CreateItem ==
  LET item == Head(worker.items) IN
  /\ At("merging") /\ worker.items # <<>> /\ Found(item) = {} /\ HasRoom
  /\ \E i \in Free :
       worker' = [worker EXCEPT
         !.items = Tail(worker.items), !.count = @ + 1,
         !.copy[i] = Created(item),
         !.flushed = {j \in Ids : Exists(worker.copy[j])} \cup {i},
         !.revised[i] = 1, !.stated = Supported(item, i)]
  /\ UNCHANGED <<rows, profile, raised, extraction, queue, faults, merges, requests>>

SkipItem ==
  LET item == Head(worker.items) IN
  /\ At("merging") /\ worker.items # <<>> /\ Found(item) = {} /\ ~HasRoom
  /\ worker' = [worker EXCEPT !.items = Tail(worker.items)]
  /\ UNCHANGED <<rows, profile, raised, extraction, queue, faults, merges, requests>>

(* Items with a secret in them are never merged: Analyses leaves them out. *)

Merged(i) ==
  CASE ~Exists(worker.copy[i]) -> memory[i]
    [] Exists(worker.copy[i]) /\ ~Exists(worker.base[i]) -> worker.copy[i]
    [] OTHER -> Written(worker.base[i], worker.copy[i], memory[i])

Flushed(i) == IF i \in worker.flushed THEN worker.copy[i] ELSE memory[i]

MergedRows == [i \in Ids |-> Merged(i)]
IsAnalysed == At("merging") /\ worker.items = <<>>

(* The profile, the extraction and the rows: one commit.                   *)
MergeCommit ==
  /\ IsAnalysed /\ UniqueKeys(MergedRows)
  /\ memory' = MergedRows
  /\ evidence' = [i \in Ids |->
       [evidence[i] EXCEPT ![worker.task] = @ + worker.revised[i]]]
  /\ stated' = stated \cup worker.stated
  /\ profile' = [exists |-> TRUE,
                 summary |-> Summary([i \in Ids |-> Flushed(i)], [i \in Ids |-> Loaded(i)])]
  /\ Marked("SUCCEEDED") /\ Goes("returned")
  /\ merges' = [merges EXCEPT ![worker.task] = @ + 1]
  /\ UNCHANGED <<activated, raised, queue, faults, requests>>

(* An exception other than MiniTotError, a unique index among them: the    *)
(* message is acknowledged and the extraction stays RUNNING.               *)
Raise ==
  /\ \/ IsAnalysed /\ ~UniqueKeys(MergedRows) /\ UNCHANGED faults
     \/ At("analysing") /\ faults < MaxFaults /\ faults' = faults + 1
  /\ Goes("returned")
  /\ raised' = raised \cup {worker.task}
  /\ UNCHANGED <<rows, profile, extraction, queue, merges, requests>>

Acknowledge ==
  /\ At("returned")
  /\ worker' = Idle
  /\ UNCHANGED <<rows, profile, raised, extraction, queue, faults, merges, requests>>

(* Mutant of Redelivered: the message was acknowledged when it came. *)
Lost == queue
Redelivered == [queue EXCEPT ![worker.task][worker.retries] = @ + 1]

Crash ==
  /\ ~At("idle") /\ faults < MaxFaults
  /\ faults' = faults + 1
  /\ queue' = Redelivered
  /\ worker' = Idle
  /\ UNCHANGED <<rows, profile, raised, extraction, merges, requests>>

-----------------------------------------------------------------------------
Owner(c) ==
  \/ \E i \in Ids :
       \/ ActivateMemory(c, i)
       \/ DisableMemory(c, i)
       \/ \E e \in Edits : UpdateMemory(c, i, e)
  \/ GetMemoryProfile(c)

Analyse ==
  \/ Skip \/ Begin \/ Fail \/ Retry
  \/ \E items \in Analyses : Merge(items)
  \/ MergeItem \/ CreateItem \/ SkipItem \/ MergeCommit \/ Raise \/ Acknowledge

Next ==
  \/ \E t \in Tasks : Archive(t) \/ Restore(t) \/ Send(t) \/ RetryOpen(t) \/ RetryCommit(t)
  \/ \E c \in Clients : Owner(c) \/ Commit(c) \/ Rollback(c)
  \/ \E t \in Tasks, r \in 0..MaxRetries : Receive(t, r)
  \/ Analyse \/ Crash

Spec == Init /\ [][Next]_vars

(* A request that has begun is served to its end, and so is a message; the *)
(* queue is served in turn, so that no task's message waits for ever.      *)
Fairness ==
  /\ \A t \in Tasks : WF_vars(Send(t)) /\ WF_vars(RetryCommit(t))
  /\ \A t \in Tasks : SF_vars(\E r \in 0..MaxRetries : Receive(t, r))
  /\ WF_vars(Analyse)

FairSpec == Spec /\ Fairness

-----------------------------------------------------------------------------
Maybe(S) == S \cup {NoRow}

Session == [act : {"none", "profile"}, id : {NoRow}, edit : {Keep},
            read : [Ids -> Maybe(Rows)], profiled : BOOLEAN]
           \cup [act : {"activate", "disable", "edit"}, id : Ids, edit : Edits \cup {Keep},
                 read : [Ids -> Maybe(Rows)], profiled : BOOLEAN]

WorkerType ==
  [pc : {"idle", "received", "analysing", "failed", "merging", "returned"},
   task : Maybe(Tasks), retries : 0..MaxRetries, items : Seq(Items), count : Nat,
   base : [Ids -> Maybe(Rows)], copy : [Ids -> Maybe(Rows)], flushed : SUBSET Ids,
   revised : [Ids -> Nat], stated : SUBSET Ids]

TypeOK ==
  /\ memory \in [Ids -> Maybe(Rows)]
  /\ evidence \in [Ids -> [Tasks -> Nat]]
  /\ activated \subseteq Ids /\ stated \subseteq Ids
  /\ raised \subseteq Tasks /\ archived \subseteq Tasks
  /\ profile \in [exists : BOOLEAN, summary : SUBSET (Ids \X Statements)]
  /\ extraction \in [Tasks -> {"NONE", "QUEUED", "RUNNING", "SUCCEEDED", "FAILED"}]
  /\ queue \in [Tasks -> [0..MaxRetries -> Nat]]
  /\ unsent \in [Tasks -> Nat] /\ retrying \in [Tasks -> Nat]
  /\ session \in [Clients -> Session]
  /\ worker \in WorkerType
  /\ asks \in Nat /\ faults \in Nat
  /\ asked \in [Tasks -> Nat] /\ merges \in [Tasks -> Nat]

(* An analysis is merged at most as often as it was asked for (by the      *)
(* first archiving or by a retry): neither a message that is delivered     *)
(* again after a crash nor Celery's retry counts the same evidence twice.  *)
MergedAsAsked == \A t \in Tasks : merges[t] <= asked[t]

(* max_memories_per_user: archiving never brings the memories that count   *)
(* above the limit; only the owner, who activates disabled ones, does.     *)
AutomaticLimit == Cardinality(LiveIds(memory) \ activated) <= MaxMemories

(* An inferred memory, one that no explicit item and not its owner ever    *)
(* confirmed, is not injected before it has occurred twice.                *)
InferredOccursTwice ==
  \A i \in Ids : IsActive(memory[i]) /\ i \notin activated \cup stated
                   => memory[i].occurrences >= 2

(* A memory its owner has disabled comes back by the owner alone, or by a  *)
(* merge that had loaded it before it was disabled.                        *)
IsDisabled(r) == Exists(r) /\ r.status = "DISABLED"
OwnersWordHolds ==
  [][\A i \in Ids : IsDisabled(memory[i]) /\ IsActive(memory'[i])
       => \/ \E c \in Clients : session[c].act = "activate" /\ session[c].id = i
                                /\ session'[c] = NoSession
          \/ /\ Exists(worker.base[i]) /\ ~IsDisabled(worker.base[i])
             /\ merges' # merges]_vars

(* An edit that met no other commit leaves a profile that says what the    *)
(* ACTIVE memories say, also when it was stale before.                     *)
EditRebuilds ==
  [][\A c \in Clients : session[c].act = "edit" /\ session'[c].act = "none"
                         /\ session[c].read = memory /\ UniqueKeys(Stored(session[c]))
                         /\ session[c].profiled
       => profile'.summary = Summary(memory', memory')]_vars

(* An extraction that is queued or running comes to rest, unless its       *)
(* analysis raised an exception the worker does not name.                  *)
ExtractionEnds ==
  \A t \in Tasks : []<>(extraction[t] \in {"NONE", "SUCCEEDED", "FAILED"} \/ t \in raised)

(* README.md:44 reads the memories that are enabled: a memory that is      *)
(* disabled, with no request of its owner open, is not in memory_context.  *)
MemoryContext ==
  profile.summary \cup {<<i, memory[i].statement>> : i \in {j \in Ids : IsActive(memory[j])}}
OnlyEnabledIsInjected ==
  \A i \in Ids : IsDisabled(memory[i]) => \A w \in Statements : <<i, w>> \notin MemoryContext

(* README.md:82: an inferred habit needs two independent pieces of         *)
(* evidence, that is, the archives of two tasks.                           *)
InferredIsIndependent ==
  \A i \in Ids : IsActive(memory[i]) /\ i \notin activated \cup stated
                   => \E t, u \in Tasks : t # u /\ evidence[i][t] > 0 /\ evidence[i][u] > 0
=============================================================================
