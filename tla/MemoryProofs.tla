----------------------------- MODULE MemoryProofs -----------------------------
(* Proofs about Memory for any tasks, clients, memories, analyses and edits. *)
EXTENDS Memory, FiniteSetTheorems, TLAPS

(* What TypeOK says of each variable, to be cited by name. *)
LEMMA TypeParts ==
  ASSUME TypeOK
  PROVE  /\ memory \in [Ids -> Maybe(Rows)]
         /\ evidence \in [Ids -> [Tasks -> Nat]]
         /\ activated \subseteq Ids /\ stated \subseteq Ids
         /\ raised \subseteq Tasks /\ archived \subseteq Tasks
         /\ profile \in [exists : BOOLEAN, summary : SUBSET (Ids \X Statements)]
         /\ extraction \in [Tasks -> {"NONE", "QUEUED", "RUNNING", "SUCCEEDED", "FAILED"}]
         /\ queue \in [Tasks -> [0..MaxRetries -> Nat]]
         /\ unsent \in [Tasks -> Nat] /\ retrying \in [Tasks -> Nat]
         /\ session \in [Clients -> Session]
         /\ worker \in WorkerType
         /\ asks \in Nat /\ faults \in Nat
         /\ asked \in [Tasks -> Nat] /\ merges \in [Tasks -> Nat]
BY DEF TypeOK

LEMMA WorkerParts ==
  ASSUME NEW w \in WorkerType
  PROVE  /\ w.pc \in {"idle", "received", "analysing", "failed", "merging", "returned"}
         /\ w.task \in Maybe(Tasks) /\ w.retries \in 0..MaxRetries /\ w.items \in Seq(Items)
         /\ w.count \in Nat /\ w.base \in [Ids -> Maybe(Rows)] /\ w.copy \in [Ids -> Maybe(Rows)]
         /\ w.flushed \subseteq Ids /\ w.revised \in [Ids -> Nat] /\ w.stated \subseteq Ids
BY DEF WorkerType

LEMMA BoundsAreIntegers ==
  MaxMemories \in Nat /\ MaxRetries \in Nat /\ MaxAsks \in Nat /\ MaxFaults \in Nat
BY BoundsAreNaturals

-----------------------------------------------------------------------------
(* Rows. *)
LEMMA RowParts ==
  ASSUME NEW r \in Maybe(Rows), Exists(r)
  PROVE  /\ r \in Rows
         /\ r.category \in Categories /\ r.name \in Names /\ r.statement \in Statements
         /\ r.confidence \in Confidences /\ r.status \in Statuses /\ r.occurrences \in Nat
BY DEF Exists, Maybe, Rows

LEMMA RowsExist ==
  ASSUME NEW r \in Rows
  PROVE  Exists(r) /\ r \in Maybe(Rows)
BY NoRowIsNoRow DEF Exists, Maybe

(* A commit changes the columns the session changed. *)
LEMMA WrittenRow ==
  ASSUME NEW base \in Rows, NEW copy \in Rows, NEW stored \in Rows
  PROVE  /\ Written(base, copy, stored) \in Rows
         /\ Written(base, copy, stored).status =
              IF copy.status = base.status THEN stored.status ELSE copy.status
BY DEF Written, Column, Rows

LEMMA WrittenAlone ==
  ASSUME NEW base \in Rows, NEW copy \in Rows, copy.name = base.name
  PROVE  Written(base, copy, base) = copy
BY DEF Written, Column, Rows

LEMMA ConfidencesAreIntegers ==
  \A a \in Confidences : a \in Int
BY DEF Confidences

LEMMA MergedRow ==
  ASSUME NEW r \in Rows, NEW item \in Items
  PROVE  /\ MergedWith(r, item) \in Rows
         /\ MergedWith(r, item).status # r.status =>
              r.status = "CANDIDATE" /\ MergedWith(r, item).status = "ACTIVE"
<1>1. Strongest(r.confidence, item.confidence) \in Confidences
  BY DEF Strongest, Rows, Items
<1>2. /\ r.category \in Categories /\ r.name \in Names /\ r.statement \in Statements
      /\ item.statement \in Statements /\ r.status \in Statuses /\ r.occurrences + 1 \in Nat
  BY DEF Rows, Items
<1>3. /\ (IF item.explicit \/ item.confidence >= r.confidence
           THEN item.statement ELSE r.statement) \in Statements
      /\ (IF Promotes(r, item) THEN "ACTIVE" ELSE r.status) \in Statuses
  BY <1>2 DEF Statuses
<1>4. MergedWith(r, item) \in Rows
  BY <1>1, <1>2, <1>3 DEF MergedWith, Rows
<1>5. MergedWith(r, item).status = IF Promotes(r, item) THEN "ACTIVE" ELSE r.status
  BY DEF MergedWith
<1> QED
  BY <1>4, <1>5 DEF Promotes

LEMMA CreatedRow ==
  ASSUME NEW item \in Items
  PROVE  Created(item) \in Rows
BY DEF Created, Rows, Items, Statuses

LEMMA EditedRow ==
  ASSUME NEW r \in Rows, NEW act \in {"activate", "disable", "edit"}, NEW edit,
         act = "edit" => edit \in Edits
  PROVE  /\ Edited(act, edit, r) \in Rows
         /\ Edited(act, edit, r).name = r.name
         /\ act = "edit" => Edited(act, edit, r).status = r.status
         /\ act = "activate" => Edited(act, edit, r).status = "ACTIVE"
         /\ act = "disable" => Edited(act, edit, r).status = "DISABLED"
<1>1. CASE act = "edit"
  <2>1. /\ edit.category \in Categories \cup {Keep} /\ edit.statement \in Statements \cup {Keep}
        /\ edit.confidence \in Confidences \cup {Keep}
    BY <1>1, EditsAreValid
  <2>2. /\ OrOld(edit.category, r.category) \in Categories
        /\ OrOld(edit.statement, r.statement) \in Statements
        /\ OrOld(edit.confidence, r.confidence) \in Confidences
    BY <2>1 DEF OrOld, Rows
  <2> QED
    BY <1>1, <2>2 DEF Edited, Rows
<1>2. CASE act = "activate"
  BY <1>2 DEF Edited, NewStatus, Rows, Statuses
<1>3. CASE act = "disable"
  BY <1>3 DEF Edited, NewStatus, Rows, Statuses
<1> QED
  BY <1>1, <1>2, <1>3

(* A profile names memories and statements. *)
LEMMA SummaryTyped ==
  ASSUME NEW stored \in [Ids -> Maybe(Rows)], NEW copy \in [Ids -> Maybe(Rows)],
         \A i \in Ids : IsActive(stored[i]) => Exists(copy[i])
  PROVE  Summary(stored, copy) \subseteq Ids \X Statements
<1>1. \A i \in Ids : IsActive(stored[i]) => copy[i].statement \in Statements
  BY RowParts
<1> QED
  BY <1>1 DEF Summary

-----------------------------------------------------------------------------
(* Sessions have read what they change; nothing is ever deleted.           *)
SessionsRead ==
  \A c \in Clients :
    LET s == session[c] IN
    /\ \A i \in Ids : Exists(s.read[i]) => Exists(memory[i])
    /\ s.id \in Ids => Exists(s.read[s.id])
    /\ s.act = "edit" => s.edit \in Edits

(* What the worker has loaded is stored, what it has created is not yet,   *)
(* and only a candidate changes its status.                                *)
LoadedRow(base, copy, stored) ==
  /\ Exists(copy) /\ Exists(base) =>
       Exists(stored) /\ (copy.status # base.status =>
                            base.status = "CANDIDATE" /\ copy.status = "ACTIVE")
  /\ Exists(copy) /\ ~Exists(base) => ~Exists(stored)
  /\ ~Exists(copy) => ~Exists(base)

WorkerLoaded ==
  /\ worker.pc # "idle" => worker.task \in Tasks
  /\ worker.pc = "merging" =>
       \A i \in Ids : LoadedRow(worker.base[i], worker.copy[i], memory[i])
  /\ worker.pc \in {"idle", "received", "analysing", "failed"} =>
       worker.copy = NotLoaded /\ worker.base = NotLoaded

Inv == TypeOK /\ SessionsRead /\ WorkerLoaded

LEMMA SessionParts ==
  ASSUME NEW s \in Session
  PROVE  /\ s.id \in Ids \cup {NoRow} /\ s.read \in [Ids -> Maybe(Rows)] /\ s.profiled \in BOOLEAN
         /\ s.act \in {"none", "profile", "activate", "disable", "edit"}
         /\ s.id \in Ids <=> s.act \in {"activate", "disable", "edit"}
BY NoRowIsNoRow DEF Session

(* The row a request writes. *)
LEMMA CopyRow ==
  ASSUME Inv, NEW c \in Clients, session[c].id \in Ids
  PROVE  /\ session[c].act \in {"activate", "disable", "edit"}
         /\ session[c].read[session[c].id] \in Rows /\ memory[session[c].id] \in Rows
         /\ CopyOf(session[c]) \in Rows
         /\ CopyOf(session[c]).name = session[c].read[session[c].id].name
         /\ session[c].act = "edit" => CopyOf(session[c]).status = session[c].read[session[c].id].status
         /\ session[c].act = "activate" => CopyOf(session[c]).status = "ACTIVE"
         /\ session[c].act = "disable" => CopyOf(session[c]).status = "DISABLED"
<1> DEFINE s == session[c]
<1>1. s \in Session
  BY TypeParts DEF Inv
<1>2. /\ s.read \in [Ids -> Maybe(Rows)] /\ s.act \in {"activate", "disable", "edit"}
  BY <1>1, SessionParts
<1>3. /\ Exists(s.read[s.id]) /\ Exists(memory[s.id])
      /\ s.act = "edit" => s.edit \in Edits
  BY DEF Inv, SessionsRead
<1>4. s.read[s.id] \in Rows /\ memory[s.id] \in Rows
  BY <1>2, <1>3, RowParts, TypeParts DEF Inv
<1> QED
  BY <1>2, <1>3, <1>4, EditedRow DEF CopyOf

LEMMA StoredRows ==
  ASSUME Inv, NEW c \in Clients
  PROVE  /\ Stored(session[c]) \in [Ids -> Maybe(Rows)]
         /\ \A i \in Ids : Exists(Stored(session[c])[i]) <=> Exists(memory[i])
         /\ \A i \in Ids : Stored(session[c])[i] # memory[i] =>
              i = session[c].id
<1> DEFINE s == session[c]
<1>1. memory \in [Ids -> Maybe(Rows)]
  BY TypeParts DEF Inv
<1>2. CASE s.id \in Ids
  <2> DEFINE r == Written(s.read[s.id], CopyOf(s), memory[s.id])
  <2>1. r \in Rows /\ memory[s.id] \in Rows
    BY <1>2, CopyRow, WrittenRow
  <2>2. Exists(r) /\ r \in Maybe(Rows) /\ Exists(memory[s.id])
    BY <2>1, RowsExist
  <2>3. Stored(s) = [memory EXCEPT ![s.id] = r]
    BY <1>2 DEF Stored
  <2> HIDE DEF r
  <2> QED
    BY <1>1, <1>2, <2>2, <2>3
<1>3. CASE s.id \notin Ids
  BY <1>1, <1>3 DEF Stored
<1> QED
  BY <1>2, <1>3

-----------------------------------------------------------------------------
(* The invariant, step by step. *)
LEMMA InitInv ==
  Init => Inv
<1> SUFFICES ASSUME Init PROVE Inv
  OBVIOUS
<1>1. NoSession \in Session
  BY DEF NoSession, Session, Maybe
<1>2. Idle \in WorkerType
  <2>1. <<>> \in Seq(Items)
    OBVIOUS
  <2>2. NotLoaded \in [Ids -> Maybe(Rows)]
    BY DEF NotLoaded, Maybe
  <2> QED
    BY <2>1, <2>2, BoundsAreIntegers DEF Idle, WorkerType, Maybe
<1>3. memory \in [Ids -> Maybe(Rows)]
  BY DEF Init, Maybe
<1>4. TypeOK
  BY <1>1, <1>2, <1>3, BoundsAreIntegers DEF Init, TypeOK
<1>5. SessionsRead
  BY NoRowIsNoRow DEF Init, SessionsRead, NoSession, Exists
<1>6. WorkerLoaded
  BY DEF Init, WorkerLoaded, Idle
<1> QED
  BY <1>4, <1>5, <1>6 DEF Inv

(* Requests that archive, restore, send and retry. *)
Asking ==
  \E t \in Tasks : Archive(t) \/ Restore(t) \/ Send(t) \/ RetryOpen(t) \/ RetryCommit(t)

LEMMA AskingInv ==
  ASSUME Inv, Asking
  PROVE  Inv'
<1>0. /\ extraction \in [Tasks -> {"NONE", "QUEUED", "RUNNING", "SUCCEEDED", "FAILED"}]
      /\ queue \in [Tasks -> [0..MaxRetries -> Nat]] /\ unsent \in [Tasks -> Nat]
      /\ retrying \in [Tasks -> Nat] /\ asked \in [Tasks -> Nat] /\ asks \in Nat
      /\ archived \subseteq Tasks
  BY TypeParts DEF Inv
<1>1. UNCHANGED <<memory, evidence, activated, stated, profile, raised, session, worker, faults, merges>>
  BY DEF Asking, Archive, Restore, Send, RetryOpen, RetryCommit, rows
<1>2. PICK t \in Tasks : Archive(t) \/ Restore(t) \/ Send(t) \/ RetryOpen(t) \/ RetryCommit(t)
  BY DEF Asking
<1>3. extraction' \in [Tasks -> {"NONE", "QUEUED", "RUNNING", "SUCCEEDED", "FAILED"}]
  BY <1>0, <1>2 DEF Archive, Restore, Send, RetryOpen, RetryCommit
<1>4. /\ asks' \in Nat /\ archived' \subseteq Tasks
  BY <1>0, <1>2 DEF Archive, Restore, Send, RetryOpen, RetryCommit
<1>5. unsent' \in [Tasks -> Nat] /\ retrying' \in [Tasks -> Nat] /\ asked' \in [Tasks -> Nat]
  <2>1. /\ \/ unsent' = unsent \/ unsent' = [unsent EXCEPT ![t] = unsent[t] + 1]
           \/ unsent[t] > 0 /\ unsent' = [unsent EXCEPT ![t] = unsent[t] - 1]
        /\ \/ retrying' = retrying \/ retrying' = [retrying EXCEPT ![t] = retrying[t] + 1]
           \/ retrying[t] > 0 /\ retrying' = [retrying EXCEPT ![t] = retrying[t] - 1]
        /\ asked' = asked \/ asked' = [asked EXCEPT ![t] = asked[t] + 1]
    BY <1>2 DEF Archive, Restore, Send, RetryOpen, RetryCommit
  <2>2. unsent' \in [Tasks -> Nat]
    <3>1. unsent[t] \in Nat /\ (unsent[t] > 0 => unsent[t] - 1 \in Nat)
      BY <1>0
    <3> QED
      BY <1>0, <2>1, <3>1
  <2>3. retrying' \in [Tasks -> Nat]
    <3>1. retrying[t] \in Nat /\ (retrying[t] > 0 => retrying[t] - 1 \in Nat)
      BY <1>0
    <3> QED
      BY <1>0, <2>1, <3>1
  <2>4. asked' \in [Tasks -> Nat]
    BY <1>0, <2>1
  <2> QED
    BY <2>2, <2>3, <2>4
<1>6. queue' \in [Tasks -> [0..MaxRetries -> Nat]]
  <2>1. \/ queue' = queue
        \/ queue' = [queue EXCEPT ![t] = [queue[t] EXCEPT ![0] = queue[t][0] + 1]]
    BY <1>2 DEF Archive, Restore, Send, RetryOpen, RetryCommit
  <2>2. 0 \in 0..MaxRetries /\ queue[t] \in [0..MaxRetries -> Nat]
    BY <1>0, BoundsAreIntegers
  <2>3. queue[t][0] \in Nat
    BY <2>2
  <2>4. [queue[t] EXCEPT ![0] = queue[t][0] + 1] \in [0..MaxRetries -> Nat]
    BY <2>2, <2>3
  <2> QED
    BY <1>0, <2>1, <2>4
<1>7. TypeOK'
  BY <1>1, <1>3, <1>4, <1>5, <1>6, TypeParts DEF Inv, TypeOK
<1>8. SessionsRead' /\ WorkerLoaded'
  BY <1>1 DEF Inv, SessionsRead, WorkerLoaded
<1> QED
  BY <1>7, <1>8 DEF Inv

LEMMA OpenInv ==
  ASSUME Inv, NEW c \in Clients, Owner(c)
  PROVE  Inv'
<1>0. session \in [Clients -> Session] /\ memory \in [Ids -> Maybe(Rows)] /\ asks \in Nat
      /\ profile.exists \in BOOLEAN
  BY TypeParts DEF Inv
<1>1. PICK act \in {"activate", "disable", "edit", "profile"}, i \in Ids \cup {NoRow},
           edit \in Edits \cup {Keep} :
        /\ Open(c, act, i, edit)
        /\ \/ act # "profile" /\ i \in Ids /\ Exists(memory[i]) /\ (act = "edit" => edit \in Edits)
           \/ act = "profile" /\ i = NoRow /\ edit = Keep
  BY DEF Owner, ActivateMemory, DisableMemory, UpdateMemory, GetMemoryProfile
<1> DEFINE s == [act |-> act, id |-> i, edit |-> edit, read |-> memory, profiled |-> profile.exists]
<1>2. s \in Session
  BY <1>0, <1>1 DEF Session
<1>3. /\ session' = [session EXCEPT ![c] = s]
      /\ UNCHANGED <<rows, profile, raised, archived, extraction, queue, unsent, retrying, worker,
                     faults, asked, merges>>
      /\ asks' = asks + 1
  BY <1>1 DEF Open
<1>4. /\ \A j \in Ids : Exists(s.read[j]) => Exists(memory[j])
      /\ s.id \in Ids => Exists(s.read[s.id])
      /\ s.act = "edit" => s.edit \in Edits
  BY <1>1, NoRowIsNoRow
<1> HIDE DEF s
<1>5. TypeOK'
  BY <1>0, <1>2, <1>3, TypeParts DEF Inv, TypeOK, rows
<1>6. \A d \in Clients : session'[d] = IF d = c THEN s ELSE session[d]
  BY <1>0, <1>3
<1>7. memory' = memory
  BY <1>3 DEF rows
<1>8. SessionsRead'
  BY <1>4, <1>6, <1>7 DEF Inv, SessionsRead
<1>9. WorkerLoaded'
  BY <1>3, <1>7 DEF Inv, WorkerLoaded
<1> QED
  BY <1>5, <1>8, <1>9 DEF Inv

(* A request's end leaves no session; rows stay. *)
LEMMA ClosedInv ==
  ASSUME Inv, NEW c \in Clients, session' = [session EXCEPT ![c] = NoSession],
         memory' \in [Ids -> Maybe(Rows)],
         \A i \in Ids : Exists(memory[i]) <=> Exists(memory'[i]),
         profile' \in [exists : BOOLEAN, summary : SUBSET (Ids \X Statements)],
         activated' \subseteq Ids,
         UNCHANGED <<evidence, stated, raised, archived, extraction, queue, unsent, retrying, worker,
                     asks, faults, asked, merges>>
  PROVE  Inv'
<1>1. NoSession \in Session
  BY DEF NoSession, Session, Maybe
<1>2. session \in [Clients -> Session]
  BY TypeParts DEF Inv
<1>3. TypeOK'
  BY <1>1, <1>2, TypeParts DEF Inv, TypeOK
<1>4. \A d \in Clients : session'[d] = IF d = c THEN NoSession ELSE session[d]
  BY <1>2
<1>5. /\ \A j \in Ids : ~Exists(NoSession.read[j])
      /\ NoSession.id \notin Ids /\ NoSession.act # "edit"
  BY NoRowIsNoRow DEF NoSession, Exists
<1>6. SessionsRead'
  BY <1>4, <1>5 DEF Inv, SessionsRead
<1>7. WorkerLoaded'
  BY DEF Inv, WorkerLoaded, LoadedRow
<1> QED
  BY <1>3, <1>6, <1>7 DEF Inv

LEMMA RebuiltTyped ==
  ASSUME Inv, NEW c \in Clients
  PROVE  Rebuilt(session[c]) \subseteq Ids \X Statements
<1> DEFINE s == session[c]
<1>1. s.read \in [Ids -> Maybe(Rows)]
  BY TypeParts, SessionParts DEF Inv
<1>2. CASE s.id \in Ids
  <2>1. CopyOf(s) \in Rows
    BY <1>2, CopyRow
  <2>2. CopyOf(s) \in Maybe(Rows) /\ Exists(CopyOf(s))
    BY <2>1, RowsExist
  <2>3. CopiesOf(s) \in [Ids -> Maybe(Rows)]
    BY <1>1, <2>2 DEF CopiesOf
  <2>4. \A i \in Ids : IsActive(s.read[i]) => Exists(CopiesOf(s)[i])
    BY <1>1, <2>2 DEF CopiesOf, IsActive
  <2>5. Rebuilt(s) = Summary(s.read, CopiesOf(s))
    BY <1>2 DEF Rebuilt
  <2> QED
    BY <1>1, <2>3, <2>4, <2>5, SummaryTyped
<1>3. CASE s.id \notin Ids
  <2>1. \A i \in Ids : IsActive(s.read[i]) => Exists(s.read[i])
    BY DEF IsActive
  <2>2. Rebuilt(s) = Summary(s.read, s.read)
    BY <1>3 DEF Rebuilt
  <2> QED
    BY <1>1, <2>1, <2>2, SummaryTyped
<1> QED
  BY <1>2, <1>3

LEMMA CommitInv ==
  ASSUME Inv, NEW c \in Clients, Commit(c)
  PROVE  Inv'
<1>1. /\ memory' = Stored(session[c])
      /\ activated' = IF session[c].act = "activate" THEN activated \cup {session[c].id} ELSE activated
      /\ profile' = [exists |-> TRUE, summary |-> Rebuilt(session[c])]
      /\ session' = [session EXCEPT ![c] = NoSession]
      /\ UNCHANGED <<evidence, stated, raised, archived, extraction, queue, unsent, retrying, worker,
                     asks, faults, asked, merges>>
  BY DEF Commit
<1>2. profile' \in [exists : BOOLEAN, summary : SUBSET (Ids \X Statements)]
  BY <1>1, RebuiltTyped
<1>3. activated' \subseteq Ids
  BY <1>1, TypeParts, SessionParts DEF Inv
<1> QED
  BY <1>1, <1>2, <1>3, StoredRows, ClosedInv

LEMMA RollbackInv ==
  ASSUME Inv, NEW c \in Clients, Rollback(c)
  PROVE  Inv'
<1>1. /\ session' = [session EXCEPT ![c] = NoSession]
      /\ UNCHANGED <<memory, evidence, activated, stated, profile, raised, archived, extraction, queue,
                     unsent, retrying, worker, asks, faults, asked, merges>>
  BY DEF Rollback, rows
<1> QED
  BY <1>1, ClosedInv, TypeParts DEF Inv

-----------------------------------------------------------------------------
(* The worker's steps before and after it merges. *)
LEMMA ControlInv ==
  ASSUME Inv, worker' \in WorkerType,
         worker'.pc # "idle" => worker'.task \in Tasks,
         worker'.pc # "returned" => worker'.copy = NotLoaded /\ worker'.base = NotLoaded,
         extraction' \in [Tasks -> {"NONE", "QUEUED", "RUNNING", "SUCCEEDED", "FAILED"}],
         queue' \in [Tasks -> [0..MaxRetries -> Nat]],
         raised' \subseteq Tasks, faults' \in Nat,
         UNCHANGED <<rows, profile, merges, requests>>
  PROVE  Inv'
<1>1. UNCHANGED <<memory, evidence, activated, stated, profile, merges, archived, unsent, retrying,
                  session, asks, asked>>
  BY DEF rows, requests
<1>2. TypeOK'
  BY <1>1, TypeParts DEF Inv, TypeOK
<1>3. SessionsRead'
  BY <1>1 DEF Inv, SessionsRead
<1>4. \A i \in Ids : ~Exists(NotLoaded[i])
  BY DEF NotLoaded, Exists
<1>5. WorkerLoaded'
  BY <1>4 DEF WorkerLoaded, LoadedRow
<1> QED
  BY <1>2, <1>3, <1>5 DEF Inv

LEMMA WorkerIs ==
  ASSUME Inv
  PROVE  /\ worker \in WorkerType
         /\ worker.pc # "idle" => worker.task \in Tasks
         /\ worker.pc \in {"idle", "received", "analysing", "failed"} =>
              worker.copy = NotLoaded /\ worker.base = NotLoaded
         /\ extraction \in [Tasks -> {"NONE", "QUEUED", "RUNNING", "SUCCEEDED", "FAILED"}]
         /\ queue \in [Tasks -> [0..MaxRetries -> Nat]]
         /\ raised \subseteq Tasks /\ faults \in Nat
BY TypeParts DEF Inv, WorkerLoaded

LEMMA MovedTyped ==
  ASSUME NEW w \in WorkerType,
         NEW pc \in {"idle", "received", "analysing", "failed", "merging", "returned"},
         NEW v, v = [w EXCEPT !.pc = pc]
  PROVE  /\ v \in WorkerType /\ v.pc = pc /\ v.task = w.task /\ v.retries = w.retries
         /\ v.copy = w.copy /\ v.base = w.base /\ v.items = w.items /\ v.count = w.count
         /\ v.flushed = w.flushed /\ v.revised = w.revised /\ v.stated = w.stated
BY DEF WorkerType

LEMMA IdleTyped ==
  Idle \in WorkerType /\ Idle.pc = "idle" /\ Idle.copy = NotLoaded /\ Idle.base = NotLoaded
<1>1. <<>> \in Seq(Items)
  OBVIOUS
<1>2. NotLoaded \in [Ids -> Maybe(Rows)]
  BY DEF NotLoaded, Maybe
<1> QED
  BY <1>1, <1>2, BoundsAreIntegers DEF Idle, WorkerType, Maybe

LEMMA ReceivedTyped ==
  ASSUME NEW t \in Tasks, NEW r \in 0..MaxRetries, NEW w,
         w = [Idle EXCEPT !.pc = "received", !.task = t, !.retries = r]
  PROVE  /\ w \in WorkerType /\ w.pc = "received" /\ w.task = t /\ w.retries = r
         /\ w.copy = NotLoaded /\ w.base = NotLoaded
BY IdleTyped DEF WorkerType, Maybe

LEMMA QueueTyped ==
  ASSUME queue \in [Tasks -> [0..MaxRetries -> Nat]], NEW t \in Tasks, NEW r \in 0..MaxRetries
  PROVE  /\ [queue EXCEPT ![t][r] = @ + 1] \in [Tasks -> [0..MaxRetries -> Nat]]
         /\ queue[t][r] > 0 => [queue EXCEPT ![t][r] = @ - 1] \in [Tasks -> [0..MaxRetries -> Nat]]
<1>1. queue[t] \in [0..MaxRetries -> Nat]
  OBVIOUS
<1>2. queue[t][r] \in Nat /\ (queue[t][r] > 0 => queue[t][r] - 1 \in Nat)
  BY <1>1
<1>3. /\ [queue[t] EXCEPT ![r] = queue[t][r] + 1] \in [0..MaxRetries -> Nat]
      /\ queue[t][r] > 0 => [queue[t] EXCEPT ![r] = queue[t][r] - 1] \in [0..MaxRetries -> Nat]
  BY <1>1, <1>2
<1> QED
  BY <1>3

LEMMA ReceiveInv ==
  ASSUME Inv, NEW t \in Tasks, NEW r \in 0..MaxRetries, Receive(t, r)
  PROVE  Inv'
<1>1. /\ queue[t][r] > 0 /\ queue' = [queue EXCEPT ![t][r] = @ - 1]
      /\ worker' = [Idle EXCEPT !.pc = "received", !.task = t, !.retries = r]
      /\ UNCHANGED <<rows, profile, raised, extraction, faults, merges, requests>>
  BY DEF Receive
<1>2. queue' \in [Tasks -> [0..MaxRetries -> Nat]]
  BY <1>1, WorkerIs, QueueTyped
<1>3. /\ worker' \in WorkerType /\ worker'.task = t
      /\ worker'.copy = NotLoaded /\ worker'.base = NotLoaded
  BY <1>1, IdleTyped DEF WorkerType, Maybe
<1> QED
  BY <1>1, <1>2, <1>3, WorkerIs, ControlInv

(* A step that only moves the worker on. *)
LEMMA MovesInv ==
  ASSUME Inv, NEW pc \in {"received", "analysing", "failed", "returned"}, worker.pc # "idle",
         worker' = [worker EXCEPT !.pc = pc],
         worker.pc \in {"received", "analysing", "failed"} \/ pc = "returned",
         extraction' = extraction \/ \E status \in {"RUNNING", "FAILED"} : Marked(status),
         queue' \in [Tasks -> [0..MaxRetries -> Nat]],
         raised' \subseteq Tasks, faults' \in Nat,
         UNCHANGED <<rows, profile, merges, requests>>
  PROVE  Inv'
<1>1. /\ worker' \in WorkerType /\ worker'.pc = pc /\ worker'.task = worker.task
      /\ worker'.copy = worker.copy /\ worker'.base = worker.base
  <2>1. worker \in WorkerType
    BY WorkerIs
  <2>2. pc \in {"idle", "received", "analysing", "failed", "merging", "returned"}
    OBVIOUS
  <2> QED
    BY <2>1, <2>2, MovedTyped
<1>2. extraction' \in [Tasks -> {"NONE", "QUEUED", "RUNNING", "SUCCEEDED", "FAILED"}]
  BY WorkerIs DEF Marked
<1> QED
  BY <1>1, <1>2, WorkerIs, ControlInv

LEMMA ControlStepsInv ==
  ASSUME Inv, Skip \/ Begin \/ Fail \/ Retry \/ Raise \/ Acknowledge \/ Crash
  PROVE  Inv'
<1>1. CASE Skip
  BY <1>1, WorkerIs, MovesInv DEF Skip, At, Goes
<1>2. CASE Begin
  BY <1>2, WorkerIs, MovesInv DEF Begin, At, Goes
<1>3. CASE Fail
  BY <1>3, WorkerIs, MovesInv DEF Fail, At, Goes
<1>4. CASE Retry
  <2>1. worker.retries \in 0..MaxRetries /\ worker.task \in Tasks
    BY <1>4, WorkerIs, WorkerParts DEF Retry, At
  <2>2. HasRetry => worker.retries + 1 \in 0..MaxRetries
    BY <2>1, BoundsAreIntegers DEF HasRetry
  <2>3. queue' \in [Tasks -> [0..MaxRetries -> Nat]]
    BY <1>4, <2>1, <2>2, WorkerIs, QueueTyped DEF Retry
  <2> QED
    BY <1>4, <2>3, WorkerIs, MovesInv DEF Retry, At, Goes
<1>5. CASE Raise
  <2>1. /\ worker.pc \in {"merging", "analysing"}
        /\ worker' = [worker EXCEPT !.pc = "returned"] /\ raised' = raised \cup {worker.task}
        /\ faults' = faults \/ faults' = faults + 1
        /\ UNCHANGED <<rows, profile, extraction, queue, merges, requests>>
    BY <1>5 DEF Raise, Goes, At, IsAnalysed
  <2>2. raised' \subseteq Tasks /\ faults' \in Nat
    BY <2>1, WorkerIs
  <2> QED
    BY <2>1, <2>2, WorkerIs, MovesInv
<1>6. CASE Acknowledge
  BY <1>6, WorkerIs, IdleTyped, ControlInv DEF Acknowledge
<1>7. CASE Crash
  <2>1. worker.retries \in 0..MaxRetries /\ worker.task \in Tasks
    BY <1>7, WorkerIs, WorkerParts DEF Crash, At
  <2>2. queue' \in [Tasks -> [0..MaxRetries -> Nat]]
    BY <1>7, <2>1, WorkerIs, QueueTyped DEF Crash, Redelivered
  <2>3. faults' \in Nat
    BY <1>7, WorkerIs DEF Crash
  <2> QED
    BY <1>7, <2>2, <2>3, WorkerIs, IdleTyped, ControlInv DEF Crash
<1> QED
  BY <1>1, <1>2, <1>3, <1>4, <1>5, <1>6, <1>7

LEMMA LiveFinite ==
  ASSUME NEW m
  PROVE  /\ LiveIds(m) \subseteq Ids /\ IsFiniteSet(LiveIds(m)) /\ Cardinality(LiveIds(m)) \in Nat
<1>1. LiveIds(m) \subseteq Ids /\ IsFiniteSet(Ids)
  BY BoundsAreNaturals DEF LiveIds
<1> QED
  BY <1>1, FS_Subset, FS_CardinalityType

LEMMA MergeInv ==
  ASSUME Inv, NEW items \in Analyses, Merge(items)
  PROVE  Inv'
<1>1. items \in Seq(Items) /\ Cardinality(LiveIds(memory)) \in Nat
  BY AnalysesAreValid, LiveFinite
<1>2. worker' = [worker EXCEPT !.pc = "merging", !.items = items,
                               !.count = Cardinality(LiveIds(memory))]
  BY DEF Merge
<1>3. /\ worker' \in WorkerType /\ worker'.task = worker.task
      /\ worker'.copy = worker.copy /\ worker'.base = worker.base
  BY <1>1, <1>2, WorkerIs DEF WorkerType
<1> QED
  BY <1>3, WorkerIs, ControlInv DEF Merge, At

-----------------------------------------------------------------------------
(* The worker's steps while it merges. *)
LEMMA MergingInv ==
  ASSUME Inv, At("merging"), worker' \in WorkerType, worker'.pc = "merging",
         worker'.task = worker.task,
         \A i \in Ids : LoadedRow(worker'.base[i], worker'.copy[i], memory[i]),
         UNCHANGED <<rows, profile, raised, extraction, queue, faults, merges, requests>>
  PROVE  Inv'
<1>1. UNCHANGED <<memory, evidence, activated, stated, profile, merges, archived, unsent, retrying,
                  session, asks, asked, raised, extraction, queue, faults>>
  BY DEF rows, requests
<1>2. TypeOK'
  BY <1>1, TypeParts DEF Inv, TypeOK
<1>3. SessionsRead'
  BY <1>1 DEF Inv, SessionsRead
<1>4. WorkerLoaded'
  BY <1>1, WorkerIs DEF WorkerLoaded, At
<1> QED
  BY <1>2, <1>3, <1>4 DEF Inv

LEMMA Items1 ==
  ASSUME Inv, worker.items # <<>>
  PROVE  Head(worker.items) \in Items /\ Tail(worker.items) \in Seq(Items)
<1>1. worker.items \in Seq(Items)
  BY WorkerIs, WorkerParts
<1> QED
  BY <1>1

LEMMA MergingParts ==
  ASSUME Inv, At("merging"), NEW i \in Ids
  PROVE  /\ LoadedRow(worker.base[i], worker.copy[i], memory[i])
         /\ worker.base[i] \in Maybe(Rows) /\ worker.copy[i] \in Maybe(Rows)
         /\ memory[i] \in Maybe(Rows)
BY WorkerIs, WorkerParts, TypeParts DEF Inv, WorkerLoaded, At

LEMMA SupportedTyped ==
  ASSUME Inv, NEW item \in Items, NEW i \in Ids
  PROVE  Supported(item, i) \subseteq Ids
BY WorkerIs, WorkerParts DEF Supported

(* A row that is found is changed in the session's copy. *)
LEMMA MergeItemParts ==
  ASSUME Inv, MergeItem
  PROVE  \E i \in Ids : \E r \in Rows :
           /\ r = Loaded(i) /\ At("merging")
           /\ worker' \in WorkerType /\ worker'.pc = "merging" /\ worker'.task = worker.task
           /\ worker'.count = worker.count
           /\ worker'.base = [worker.base EXCEPT
                ![i] = IF Exists(worker.copy[i]) THEN worker.base[i] ELSE memory[i]]
           /\ worker'.copy = [worker.copy EXCEPT ![i] = MergedWith(r, Head(worker.items))]
           /\ Head(worker.items) \in Items
           /\ UNCHANGED <<rows, profile, raised, extraction, queue, faults, merges, requests>>
<1> DEFINE item == Head(worker.items)
<1>0. At("merging") /\ worker.items # <<>>
  BY DEF MergeItem
<1>1. item \in Items /\ Tail(worker.items) \in Seq(Items)
  BY <1>0, Items1
<1> HIDE DEF item
<1>2. PICK i \in Found(item) :
       worker' = [worker EXCEPT
         !.items = Tail(worker.items),
         !.base[i] = IF Exists(worker.copy[i]) THEN worker.base[i] ELSE memory[i],
         !.copy[i] = MergedWith(Loaded(i), item),
         !.revised[i] = @ + 1, !.stated = Supported(item, i)]
  BY DEF MergeItem, item
<1>3. i \in Ids /\ Exists(Visible(i))
  BY DEF Found, HasKey
<1>4. Exists(Loaded(i)) /\ Loaded(i) \in Maybe(Rows)
  BY <1>0, <1>3, MergingParts DEF Visible, Loaded
<1>5. Loaded(i) \in Rows
  BY <1>4, RowParts
<1>6. MergedWith(Loaded(i), item) \in Rows
  BY <1>1, <1>5, MergedRow
<1>7. MergedWith(Loaded(i), item) \in Maybe(Rows)
  BY <1>6, RowsExist
<1>8. Supported(item, i) \subseteq Ids
  BY <1>1, <1>3, SupportedTyped
<1> DEFINE b == IF Exists(worker.copy[i]) THEN worker.base[i] ELSE memory[i]
           m == MergedWith(Loaded(i), item)
           u == Supported(item, i)
           rest == Tail(worker.items)
<1>9. b \in Maybe(Rows)
  BY <1>0, <1>3, MergingParts
<1>10. worker' = [worker EXCEPT !.items = rest, !.base[i] = b, !.copy[i] = m,
                                !.revised[i] = @ + 1, !.stated = u]
  BY <1>2
<1>11. m \in Maybe(Rows) /\ u \subseteq Ids /\ rest \in Seq(Items)
  BY <1>1, <1>7, <1>8
<1> HIDE DEF b, m, u, rest
<1>12. /\ worker' \in WorkerType /\ worker'.pc = worker.pc /\ worker'.task = worker.task
       /\ worker'.count = worker.count
       /\ worker'.base = [worker.base EXCEPT ![i] = b]
       /\ worker'.copy = [worker.copy EXCEPT ![i] = m]
  <2>0. worker \in WorkerType
    BY WorkerIs
  <2> DEFINE bs == [worker.base EXCEPT ![i] = b]
             cs == [worker.copy EXCEPT ![i] = m]
             rs == [worker.revised EXCEPT ![i] = @ + 1]
  <2>1. worker' = [worker EXCEPT !.items = rest, !.base = bs, !.copy = cs, !.revised = rs,
                                 !.stated = u]
    BY <1>10
  <2>2. /\ worker.base \in [Ids -> Maybe(Rows)] /\ worker.copy \in [Ids -> Maybe(Rows)]
        /\ worker.revised \in [Ids -> Nat]
    BY <2>0, WorkerParts
  <2>3. bs \in [Ids -> Maybe(Rows)] /\ cs \in [Ids -> Maybe(Rows)] /\ rs \in [Ids -> Nat]
    BY <1>3, <1>9, <1>11, <2>2
  <2> HIDE DEF bs, cs, rs
  <2>4. /\ worker' \in WorkerType /\ worker'.pc = worker.pc /\ worker'.task = worker.task
        /\ worker'.count = worker.count /\ worker'.base = bs /\ worker'.copy = cs
    BY <1>11, <2>0, <2>1, <2>3 DEF WorkerType
  <2> QED
    BY <2>4 DEF bs, cs
<1>13. UNCHANGED <<rows, profile, raised, extraction, queue, faults, merges, requests>>
  BY DEF MergeItem
<1> QED
  BY <1>0, <1>1, <1>3, <1>5, <1>12, <1>13 DEF At, b, m, item

LEMMA MergeItemInv ==
  ASSUME Inv, MergeItem
  PROVE  Inv'
<1>1. PICK i \in Ids, r \in Rows :
           /\ r = Loaded(i) /\ At("merging")
           /\ worker' \in WorkerType /\ worker'.pc = "merging" /\ worker'.task = worker.task
           /\ worker'.base = [worker.base EXCEPT
                ![i] = IF Exists(worker.copy[i]) THEN worker.base[i] ELSE memory[i]]
           /\ worker'.copy = [worker.copy EXCEPT ![i] = MergedWith(r, Head(worker.items))]
           /\ Head(worker.items) \in Items
           /\ UNCHANGED <<rows, profile, raised, extraction, queue, faults, merges, requests>>
  BY MergeItemParts
<1> DEFINE m == MergedWith(r, Head(worker.items))
<1>2. /\ m \in Rows
      /\ m.status # r.status => r.status = "CANDIDATE" /\ m.status = "ACTIVE"
  BY <1>1, MergedRow
<1>3. Exists(m) /\ Exists(r)
  BY <1>2, RowsExist
<1> HIDE DEF m
<1>4. worker.base \in [Ids -> Maybe(Rows)] /\ worker.copy \in [Ids -> Maybe(Rows)]
  BY WorkerIs, WorkerParts
<1>5. ASSUME NEW j \in Ids
      PROVE  LoadedRow(worker'.base[j], worker'.copy[j], memory[j])
  <2>0. LoadedRow(worker.base[j], worker.copy[j], memory[j])
    BY <1>1, MergingParts
  <2>1. CASE j # i
    BY <1>1, <1>4, <2>0, <2>1
  <2>2. CASE j = i /\ Exists(worker.copy[i])
    <3>1. worker'.base[j] = worker.base[i] /\ worker'.copy[j] = m /\ r = worker.copy[i]
      BY <1>1, <1>4, <2>2 DEF Loaded, m
    <3>2. LoadedRow(worker.base[i], r, memory[i])
      BY <2>0, <2>2, <3>1
    <3>3. LoadedRow(worker.base[i], m, memory[i])
      BY <1>2, <1>3, <3>2 DEF LoadedRow
    <3> QED
      BY <2>2, <3>1, <3>3
  <2>3. CASE j = i /\ ~Exists(worker.copy[i])
    <3>1. worker'.base[j] = memory[i] /\ worker'.copy[j] = m /\ r = memory[i]
      BY <1>1, <1>4, <2>3 DEF Loaded, m
    <3> QED
      BY <1>2, <1>3, <2>3, <3>1 DEF LoadedRow
  <2> QED
    BY <2>1, <2>2, <2>3
<1> QED
  BY <1>1, <1>5, MergingInv

LEMMA CreateItemParts ==
  ASSUME Inv, CreateItem
  PROVE  \E i \in Free : \E r \in Rows :
           /\ At("merging") /\ worker.count < MaxMemories
           /\ worker' \in WorkerType /\ worker'.pc = "merging" /\ worker'.task = worker.task
           /\ worker'.count = worker.count + 1
           /\ worker'.base = worker.base
           /\ worker'.copy = [worker.copy EXCEPT ![i] = r]
           /\ UNCHANGED <<rows, profile, raised, extraction, queue, faults, merges, requests>>
<1> DEFINE item == Head(worker.items)
<1>0. At("merging") /\ worker.items # <<>> /\ HasRoom
  BY DEF CreateItem
<1>1. item \in Items /\ Tail(worker.items) \in Seq(Items)
  BY <1>0, Items1
<1> HIDE DEF item
<1>2. PICK i \in Free :
       worker' = [worker EXCEPT
         !.items = Tail(worker.items), !.count = @ + 1,
         !.copy[i] = Created(item),
         !.flushed = {j \in Ids : Exists(worker.copy[j])} \cup {i},
         !.revised[i] = 1, !.stated = Supported(item, i)]
  BY DEF CreateItem, item
<1>3. i \in Ids
  BY DEF Free
<1>4. Created(item) \in Rows
  BY <1>1, CreatedRow
<1>5. Created(item) \in Maybe(Rows)
  BY <1>4, RowsExist
<1> DEFINE r == Created(item)
           u == Supported(item, i)
           rest == Tail(worker.items)
           fl == {j \in Ids : Exists(worker.copy[j])} \cup {i}
<1>6. r \in Maybe(Rows) /\ u \subseteq Ids /\ rest \in Seq(Items) /\ fl \subseteq Ids
  BY <1>1, <1>3, <1>5, SupportedTyped
<1>7. worker' = [worker EXCEPT !.items = rest, !.count = @ + 1, !.copy[i] = r,
                               !.flushed = fl, !.revised[i] = 1, !.stated = u]
  BY <1>2
<1> HIDE DEF r, u, rest, fl
<1>8. /\ worker' \in WorkerType /\ worker'.pc = worker.pc /\ worker'.task = worker.task
      /\ worker'.count = worker.count + 1 /\ worker'.base = worker.base
      /\ worker'.copy = [worker.copy EXCEPT ![i] = r]
  <2>0. worker \in WorkerType
    BY WorkerIs
  <2> DEFINE cs == [worker.copy EXCEPT ![i] = r]
             rs == [worker.revised EXCEPT ![i] = 1]
             n == worker.count + 1
  <2>1. worker' = [worker EXCEPT !.items = rest, !.count = n, !.copy = cs, !.flushed = fl,
                                 !.revised = rs, !.stated = u]
    BY <1>7
  <2>2. /\ worker.copy \in [Ids -> Maybe(Rows)] /\ worker.revised \in [Ids -> Nat]
        /\ worker.count \in Nat
    BY <2>0, WorkerParts
  <2>3. cs \in [Ids -> Maybe(Rows)] /\ rs \in [Ids -> Nat] /\ n \in Nat
    BY <1>3, <1>6, <2>2
  <2> HIDE DEF cs, rs, n
  <2>4. /\ worker' \in WorkerType /\ worker'.pc = worker.pc /\ worker'.task = worker.task
        /\ worker'.count = n /\ worker'.base = worker.base /\ worker'.copy = cs
    BY <1>6, <2>0, <2>1, <2>3 DEF WorkerType
  <2> QED
    BY <2>4 DEF cs, n
<1>9. UNCHANGED <<rows, profile, raised, extraction, queue, faults, merges, requests>>
  BY DEF CreateItem
<1>10. r \in Rows
  BY <1>4 DEF r
<1> QED
  BY <1>0, <1>8, <1>9, <1>10 DEF At, HasRoom

LEMMA CreateItemInv ==
  ASSUME Inv, CreateItem
  PROVE  Inv'
<1>1. PICK i \in Free, r \in Rows :
           /\ At("merging")
           /\ worker' \in WorkerType /\ worker'.pc = "merging" /\ worker'.task = worker.task
           /\ worker'.base = worker.base
           /\ worker'.copy = [worker.copy EXCEPT ![i] = r]
           /\ UNCHANGED <<rows, profile, raised, extraction, queue, faults, merges, requests>>
  BY CreateItemParts
<1>2. i \in Ids /\ ~Exists(memory[i]) /\ ~Exists(worker.copy[i])
  BY DEF Free
<1>3. worker.copy \in [Ids -> Maybe(Rows)]
  BY WorkerIs, WorkerParts
<1>4. ASSUME NEW j \in Ids
      PROVE  LoadedRow(worker'.base[j], worker'.copy[j], memory[j])
  <2>0. LoadedRow(worker.base[j], worker.copy[j], memory[j])
    BY <1>1, MergingParts
  <2>1. CASE j # i
    BY <1>1, <1>3, <2>0, <2>1
  <2>2. CASE j = i
    BY <1>1, <1>2, <1>3, <2>0, <2>2 DEF LoadedRow
  <2> QED
    BY <2>1, <2>2
<1> QED
  BY <1>1, <1>4, MergingInv

LEMMA SkipItemInv ==
  ASSUME Inv, SkipItem
  PROVE  /\ Inv'
         /\ worker'.pc = "merging" /\ worker'.copy = worker.copy /\ worker'.base = worker.base
         /\ worker'.count = worker.count
<1>1. At("merging") /\ worker.items # <<>> /\ worker' = [worker EXCEPT !.items = Tail(worker.items)]
  BY DEF SkipItem
<1>2. Tail(worker.items) \in Seq(Items)
  BY <1>1, Items1
<1>3. /\ worker' \in WorkerType /\ worker'.pc = worker.pc /\ worker'.task = worker.task
      /\ worker'.copy = worker.copy /\ worker'.base = worker.base /\ worker'.count = worker.count
  BY <1>1, <1>2, WorkerIs DEF WorkerType
<1>4. \A i \in Ids : LoadedRow(worker'.base[i], worker'.copy[i], memory[i])
  BY <1>1, <1>3, MergingParts
<1> QED
  BY <1>1, <1>3, <1>4, MergingInv DEF SkipItem, At

-----------------------------------------------------------------------------
(* The merge's commit. *)
LEMMA MergedAt ==
  ASSUME Inv, At("merging"), NEW i \in Ids
  PROVE  /\ Merged(i) \in Maybe(Rows)
         /\ Exists(memory[i]) => Exists(Merged(i))
         /\ Live(Merged(i)) => Live(memory[i]) \/ Live(worker.copy[i])
         /\ IsDisabled(memory[i]) /\ IsActive(Merged(i)) =>
              Exists(worker.base[i]) /\ ~IsDisabled(worker.base[i])
<1>0. /\ LoadedRow(worker.base[i], worker.copy[i], memory[i])
      /\ worker.base[i] \in Maybe(Rows) /\ worker.copy[i] \in Maybe(Rows)
      /\ memory[i] \in Maybe(Rows)
  BY MergingParts
<1>1. CASE ~Exists(worker.copy[i])
  <2>1. Merged(i) = memory[i]
    BY <1>1 DEF Merged
  <2> QED
    BY <1>0, <2>1 DEF IsDisabled, IsActive
<1>2. CASE Exists(worker.copy[i]) /\ ~Exists(worker.base[i])
  <2>1. Merged(i) = worker.copy[i] /\ ~Exists(memory[i])
    BY <1>0, <1>2 DEF Merged, LoadedRow
  <2> QED
    BY <1>0, <1>2, <2>1 DEF IsDisabled, IsActive
<1>3. CASE Exists(worker.copy[i]) /\ Exists(worker.base[i])
  <2>1. Merged(i) = Written(worker.base[i], worker.copy[i], memory[i])
    BY <1>3 DEF Merged
  <2>2. /\ worker.base[i] \in Rows /\ worker.copy[i] \in Rows /\ memory[i] \in Rows
    BY <1>0, <1>3, RowParts DEF LoadedRow
  <2>3. /\ Merged(i) \in Rows
        /\ Merged(i).status = IF worker.copy[i].status = worker.base[i].status
                                THEN memory[i].status ELSE worker.copy[i].status
    BY <2>1, <2>2, WrittenRow
  <2>4. Exists(Merged(i)) /\ Merged(i) \in Maybe(Rows) /\ Exists(memory[i])
    BY <2>2, <2>3, RowsExist
  <2>5. worker.copy[i].status # worker.base[i].status => worker.base[i].status = "CANDIDATE"
    BY <1>0, <1>3 DEF LoadedRow
  <2> QED
    BY <1>3, <2>3, <2>4, <2>5 DEF Live, IsDisabled, IsActive
<1> QED
  BY <1>1, <1>2, <1>3

LEMMA MergeCommitInv ==
  ASSUME Inv, MergeCommit
  PROVE  Inv'
<1>0. At("merging") /\ worker.task \in Tasks
  BY WorkerIs DEF MergeCommit, IsAnalysed, At
<1>1. /\ memory' = MergedRows
      /\ evidence' = [i \in Ids |-> [evidence[i] EXCEPT ![worker.task] = @ + worker.revised[i]]]
      /\ stated' = stated \cup worker.stated
      /\ profile' = [exists |-> TRUE,
                     summary |-> Summary([i \in Ids |-> Flushed(i)], [i \in Ids |-> Loaded(i)])]
      /\ extraction' = [extraction EXCEPT ![worker.task] = "SUCCEEDED"]
      /\ worker' = [worker EXCEPT !.pc = "returned"]
      /\ merges' = [merges EXCEPT ![worker.task] = @ + 1]
      /\ UNCHANGED <<activated, raised, queue, faults, archived, unsent, retrying, session, asks, asked>>
  BY DEF MergeCommit, Marked, Goes, requests
<1>2. memory' \in [Ids -> Maybe(Rows)] /\ \A i \in Ids : Exists(memory[i]) => Exists(memory'[i])
  BY <1>0, <1>1, MergedAt DEF MergedRows
<1>3. evidence' \in [Ids -> [Tasks -> Nat]]
  <2>1. worker.revised \in [Ids -> Nat] /\ evidence \in [Ids -> [Tasks -> Nat]]
    BY WorkerIs, WorkerParts, TypeParts DEF Inv
  <2>2. \A i \in Ids : [evidence[i] EXCEPT ![worker.task] = @ + worker.revised[i]] \in [Tasks -> Nat]
    <3> TAKE i \in Ids
    <3>1. evidence[i] \in [Tasks -> Nat] /\ worker.revised[i] \in Nat
      BY <2>1
    <3>2. evidence[i][worker.task] + worker.revised[i] \in Nat
      BY <1>0, <3>1
    <3> QED
      BY <3>1, <3>2
  <2> QED
    BY <1>1, <2>2
<1>4. profile' \in [exists : BOOLEAN, summary : SUBSET (Ids \X Statements)]
  <2> DEFINE f == [i \in Ids |-> Flushed(i)]
             l == [i \in Ids |-> Loaded(i)]
  <2>1. f \in [Ids -> Maybe(Rows)] /\ l \in [Ids -> Maybe(Rows)]
    BY <1>0, MergingParts DEF Flushed, Loaded
  <2>2. \A i \in Ids : IsActive(f[i]) => Exists(l[i])
    BY DEF Flushed, Loaded, IsActive
  <2> HIDE DEF f, l
  <2>3. Summary(f, l) \subseteq Ids \X Statements
    BY <2>1, <2>2, SummaryTyped
  <2>4. profile' = [exists |-> TRUE, summary |-> Summary(f, l)]
    BY <1>1 DEF f, l
  <2> QED
    BY <2>3, <2>4
<1>5. stated' \subseteq Ids
  BY <1>1, WorkerIs, WorkerParts, TypeParts DEF Inv
<1>6. /\ extraction' \in [Tasks -> {"NONE", "QUEUED", "RUNNING", "SUCCEEDED", "FAILED"}]
      /\ merges' \in [Tasks -> Nat]
  BY <1>0, <1>1, TypeParts DEF Inv
<1>7. worker' \in WorkerType /\ worker'.pc = "returned" /\ worker'.task = worker.task
  BY <1>1, WorkerIs DEF WorkerType
<1>8. TypeOK'
  BY <1>1, <1>2, <1>3, <1>4, <1>5, <1>6, <1>7, TypeParts DEF Inv, TypeOK
<1>9. SessionsRead'
  BY <1>1, <1>2 DEF Inv, SessionsRead
<1>10. WorkerLoaded'
  BY <1>0, <1>7 DEF WorkerLoaded
<1> QED
  BY <1>8, <1>9, <1>10 DEF Inv

LEMMA NextIs ==
  ASSUME Next
  PROVE  \/ Asking
         \/ \E c \in Clients : Owner(c)
         \/ \E c \in Clients : Commit(c)
         \/ \E c \in Clients : Rollback(c)
         \/ \E t \in Tasks, r \in 0..MaxRetries : Receive(t, r)
         \/ Skip \/ Begin \/ Fail \/ Retry \/ Raise \/ Acknowledge \/ Crash
         \/ \E items \in Analyses : Merge(items)
         \/ MergeItem \/ CreateItem \/ SkipItem \/ MergeCommit
BY DEF Next, Asking, Analyse

LEMMA StepInv ==
  Inv /\ [Next]_vars => Inv'
<1> SUFFICES ASSUME Inv, [Next]_vars PROVE Inv'
  OBVIOUS
<1>1. CASE UNCHANGED vars
  BY <1>1 DEF vars, Inv, TypeOK, SessionsRead, WorkerLoaded, LoadedRow
<1>2. CASE Next
  BY <1>2, NextIs, AskingInv, OpenInv, CommitInv, RollbackInv, ReceiveInv, ControlStepsInv,
     MergeInv, MergeItemInv, CreateItemInv, SkipItemInv, MergeCommitInv
<1> QED
  BY <1>1, <1>2

(* Memories, evidence, profile, extractions, messages, sessions and the    *)
(* worker keep their types: Memory.TypeOK.                                 *)
THEOREM TypeCorrect == Spec => []TypeOK
<1>1. Inv => TypeOK
  BY DEF Inv
<1> QED
  BY <1>1, InitInv, StepInv, PTL DEF Spec

-----------------------------------------------------------------------------
(* How often an analysis is merged.  An extraction that has been asked for *)
(* and is not merged yet has a merge to its credit.                        *)
MergesAccounted ==
  /\ \A t \in Tasks : /\ merges[t] <= asked[t]
                      /\ extraction[t] \in {"QUEUED", "RUNNING", "FAILED"} => merges[t] < asked[t]
  /\ worker.pc \in {"analysing", "merging"} =>
       extraction[worker.task] \in {"QUEUED", "RUNNING", "FAILED"}

LEMMA InitMerges ==
  Init => MergesAccounted
BY DEF Init, MergesAccounted, Idle

(* A message, or an analysis, is of an extraction that exists. *)
MessagesOfExtractions ==
  /\ \A t \in Tasks : extraction[t] = "NONE" =>
       unsent[t] = 0 /\ \A r \in 0..MaxRetries : queue[t][r] = 0
  /\ worker.pc # "idle" => extraction[worker.task] # "NONE"

LEMMA InitMessages ==
  Init => MessagesOfExtractions
BY BoundsAreIntegers DEF Init, MessagesOfExtractions, Idle

LEMMA AskingMessages ==
  ASSUME Inv, MessagesOfExtractions, Asking
  PROVE  MessagesOfExtractions'
<1>1. PICK t \in Tasks : Archive(t) \/ Restore(t) \/ Send(t) \/ RetryOpen(t) \/ RetryCommit(t)
  BY DEF Asking
<1>2. /\ extraction \in [Tasks -> {"NONE", "QUEUED", "RUNNING", "SUCCEEDED", "FAILED"}]
      /\ unsent \in [Tasks -> Nat] /\ queue \in [Tasks -> [0..MaxRetries -> Nat]]
  BY TypeParts DEF Inv
<1>3. /\ worker' = worker
      /\ \A u \in Tasks : u # t => unsent'[u] = unsent[u] /\ queue'[u] = queue[u]
                                   /\ extraction'[u] = extraction[u]
      /\ \/ extraction'[t] = extraction[t] /\ unsent' = unsent /\ queue' = queue
         \/ extraction'[t] = extraction[t] /\ unsent[t] > 0
         \/ extraction'[t] = "QUEUED"
  BY <1>1, <1>2 DEF Archive, Restore, Send, RetryOpen, RetryCommit
<1>4. \A u \in Tasks : extraction'[u] = "NONE" =>
        unsent'[u] = 0 /\ \A r \in 0..MaxRetries : queue'[u][r] = 0
  BY <1>2, <1>3 DEF MessagesOfExtractions
<1>5. worker'.pc # "idle" => extraction'[worker'.task] # "NONE"
  BY <1>3, WorkerIs DEF MessagesOfExtractions
<1> QED
  BY <1>4, <1>5 DEF MessagesOfExtractions

LEMMA ReceiveMessages ==
  ASSUME Inv, MessagesOfExtractions, NEW t \in Tasks, NEW r \in 0..MaxRetries, Receive(t, r)
  PROVE  MessagesOfExtractions'
<1>1. /\ queue[t][r] > 0 /\ worker'.task = t /\ UNCHANGED <<extraction, unsent>>
      /\ \A u \in Tasks : u # t => queue'[u] = queue[u]
  <2>1. queue \in [Tasks -> [0..MaxRetries -> Nat]]
    BY WorkerIs
  <2>2. queue' = [queue EXCEPT ![t][r] = @ - 1] /\ queue[t][r] > 0
        /\ UNCHANGED <<extraction, unsent>>
    BY DEF Receive, requests
  <2>3. worker'.task = t
    BY IdleTyped DEF Receive, WorkerType, Maybe
  <2> QED
    BY <2>1, <2>2, <2>3
<1>2. extraction[t] # "NONE"
  BY <1>1 DEF MessagesOfExtractions
<1> QED
  BY <1>1, <1>2 DEF MessagesOfExtractions

(* The worker's steps after it has received a message. *)
LEMMA AnalyseKeeps ==
  ASSUME Inv, Analyse \/ Crash
  PROVE  /\ worker.pc # "idle" /\ worker.task \in Tasks
         /\ worker'.pc = "idle" \/ worker'.task = worker.task
         /\ extraction' = extraction \/
              \E status \in {"RUNNING", "FAILED", "SUCCEEDED"} :
                extraction' = [extraction EXCEPT ![worker.task] = status]
         /\ \A u \in Tasks : u # worker.task => queue'[u] = queue[u]
         /\ unsent' = unsent /\ asked' = asked
<1>0. /\ worker \in WorkerType /\ queue \in [Tasks -> [0..MaxRetries -> Nat]]
      /\ worker.retries \in 0..MaxRetries
  BY WorkerIs, WorkerParts
<1>1. worker.pc # "idle" /\ worker.task \in Tasks
  BY WorkerIs DEF Analyse, Crash, At, Skip, Begin, Fail, Retry, Merge, MergeItem, CreateItem, SkipItem,
     MergeCommit, IsAnalysed, Raise, Acknowledge
<1>2. unsent' = unsent /\ asked' = asked
  BY DEF Analyse, Crash, requests, Skip, Begin, Fail, Retry, Merge, MergeItem, CreateItem, SkipItem,
     MergeCommit, Raise, Acknowledge
<1>3. extraction' = extraction \/
        \E status \in {"RUNNING", "FAILED", "SUCCEEDED"} :
          extraction' = [extraction EXCEPT ![worker.task] = status]
  BY DEF Analyse, Crash, Skip, Begin, Fail, Retry, Merge, MergeItem, CreateItem, SkipItem,
     MergeCommit, Raise, Acknowledge, Marked
<1>4. \A u \in Tasks : u # worker.task => queue'[u] = queue[u]
  <2>1. queue' = queue \/ \E r : queue' = [queue EXCEPT ![worker.task][r] = @ + 1]
    BY DEF Analyse, Crash, Skip, Begin, Fail, Retry, Merge, MergeItem, CreateItem, SkipItem,
       MergeCommit, Raise, Acknowledge, Redelivered
  <2> QED
    BY <1>0, <2>1
<1>5. worker'.pc = "idle" \/ worker'.task = worker.task
  <2>1. CASE Acknowledge \/ Crash
    BY <2>1, IdleTyped DEF Acknowledge, Crash
  <2>2. CASE MergeItem
    BY <2>2, MergeItemParts
  <2>3. CASE CreateItem
    BY <2>3, CreateItemParts
  <2>4. CASE SkipItem
    BY <1>0, <2>4 DEF SkipItem, WorkerType
  <2>5. CASE \E items \in Analyses : Merge(items)
    BY <1>0, <2>5 DEF Merge, WorkerType
  <2>6. CASE Skip \/ Begin \/ Fail \/ Retry \/ MergeCommit \/ Raise
    BY <1>0, <2>6, MovedTyped DEF Skip, Begin, Fail, Retry, MergeCommit, Raise, Goes
  <2> QED
    BY <2>1, <2>2, <2>3, <2>4, <2>5, <2>6 DEF Analyse
<1> QED
  BY <1>1, <1>2, <1>3, <1>4, <1>5

LEMMA AnalyseMessages ==
  ASSUME Inv, MessagesOfExtractions, Analyse \/ Crash
  PROVE  MessagesOfExtractions'
<1>1. extraction \in [Tasks -> {"NONE", "QUEUED", "RUNNING", "SUCCEEDED", "FAILED"}]
  BY WorkerIs
<1>2. extraction[worker.task] # "NONE" /\ worker.task \in Tasks
  BY AnalyseKeeps DEF MessagesOfExtractions
<1>3. \A u \in Tasks : extraction'[u] = "NONE" => extraction[u] = "NONE" /\ u # worker.task
  BY <1>1, <1>2, AnalyseKeeps
<1>4. \A u \in Tasks : extraction'[u] = "NONE" =>
        unsent'[u] = 0 /\ \A r \in 0..MaxRetries : queue'[u][r] = 0
  BY <1>3, AnalyseKeeps DEF MessagesOfExtractions
<1>5. worker'.pc # "idle" => extraction'[worker'.task] # "NONE"
  BY <1>2, <1>3, AnalyseKeeps
<1> QED
  BY <1>4, <1>5 DEF MessagesOfExtractions

LEMMA AskingMerges ==
  ASSUME Inv, MergesAccounted, Asking
  PROVE  MergesAccounted'
<1>1. PICK t \in Tasks : Archive(t) \/ Restore(t) \/ Send(t) \/ RetryOpen(t) \/ RetryCommit(t)
  BY DEF Asking
<1>2. /\ extraction \in [Tasks -> {"NONE", "QUEUED", "RUNNING", "SUCCEEDED", "FAILED"}]
      /\ asked \in [Tasks -> Nat] /\ merges \in [Tasks -> Nat]
  BY TypeParts DEF Inv
<1>3. /\ merges' = merges /\ worker' = worker
      /\ \/ extraction' = extraction /\ asked' = asked
         \/ /\ extraction' = [extraction EXCEPT ![t] = "QUEUED"]
            /\ asked' = [asked EXCEPT ![t] = asked[t] + 1]
  BY <1>1 DEF Archive, Restore, Send, RetryOpen, RetryCommit
<1>4. \A u \in Tasks : /\ merges[u] <= asked[u] /\ merges[u] \in Nat /\ asked[u] \in Nat
                       /\ extraction[u] \in {"QUEUED", "RUNNING", "FAILED"} => merges[u] < asked[u]
  BY <1>2 DEF MergesAccounted
<1>5. ASSUME NEW u \in Tasks
      PROVE  /\ merges'[u] <= asked'[u]
             /\ extraction'[u] \in {"QUEUED", "RUNNING", "FAILED"} => merges'[u] < asked'[u]
  BY <1>2, <1>3, <1>4
<1>6. worker'.pc \in {"analysing", "merging"} =>
        extraction'[worker'.task] \in {"QUEUED", "RUNNING", "FAILED"}
  BY <1>2, <1>3, WorkerIs DEF MergesAccounted
<1> QED
  BY <1>5, <1>6 DEF MergesAccounted

LEMMA WorkerMerges ==
  ASSUME Inv, MessagesOfExtractions, MergesAccounted, Analyse \/ Crash
  PROVE  MergesAccounted'
<1>1. /\ extraction \in [Tasks -> {"NONE", "QUEUED", "RUNNING", "SUCCEEDED", "FAILED"}]
      /\ asked \in [Tasks -> Nat] /\ merges \in [Tasks -> Nat] /\ asked' = asked
      /\ worker \in WorkerType /\ worker.task \in Tasks
      /\ worker'.pc = "idle" \/ worker'.task = worker.task
  BY TypeParts, AnalyseKeeps DEF Inv
<1>2. CASE MergeCommit
  <2>1. /\ worker.pc = "merging" /\ worker'.pc = "returned"
        /\ extraction' = [extraction EXCEPT ![worker.task] = "SUCCEEDED"]
        /\ merges' = [merges EXCEPT ![worker.task] = merges[worker.task] + 1]
    BY <1>1, <1>2, MovedTyped DEF MergeCommit, IsAnalysed, At, Marked, Goes
  <2> QED
    BY <1>1, <2>1 DEF MergesAccounted
<1>3. CASE Begin
  <2>1. /\ extraction[worker.task] \in {"QUEUED", "RUNNING", "FAILED"} /\ merges' = merges
        /\ extraction' = [extraction EXCEPT ![worker.task] = "RUNNING"]
        /\ worker'.task = worker.task
    BY <1>1, <1>3, MovedTyped DEF Begin, At, Marked, Goes, IsMerged, MessagesOfExtractions
  <2> QED
    BY <1>1, <2>1 DEF MergesAccounted
<1>4. CASE Fail
  <2>1. /\ worker'.pc = "failed" /\ worker.pc = "analysing" /\ merges' = merges
        /\ extraction' = [extraction EXCEPT ![worker.task] = "FAILED"]
    BY <1>1, <1>4, MovedTyped DEF Fail, At, Marked, Goes
  <2> QED
    BY <1>1, <2>1 DEF MergesAccounted
<1>5. CASE ~(MergeCommit \/ Begin \/ Fail)
  <2>1. merges' = merges /\ extraction' = extraction
    BY <1>5 DEF Analyse, Crash, Skip, Retry, Merge, MergeItem, CreateItem, SkipItem, Raise, Acknowledge
  <2>2. worker'.pc \in {"analysing", "merging"} => worker.pc \in {"analysing", "merging"}
    <3>1. CASE Acknowledge \/ Crash
      BY <3>1, IdleTyped DEF Acknowledge, Crash
    <3>2. CASE MergeItem \/ CreateItem \/ SkipItem \/ \E items \in Analyses : Merge(items)
      BY <3>2 DEF MergeItem, CreateItem, SkipItem, Merge, At
    <3>3. CASE Skip \/ Retry \/ Raise
      BY <1>1, <3>3, MovedTyped DEF Skip, Retry, Raise, Goes
    <3> QED
      BY <1>5, <3>1, <3>2, <3>3 DEF Analyse
  <2>3. worker'.pc \in {"analysing", "merging"} => worker'.task = worker.task
    BY <1>1
  <2> QED
    BY <1>1, <2>1, <2>2, <2>3 DEF MergesAccounted
<1> QED
  BY <1>2, <1>3, <1>4, <1>5

LEMMA OthersMerges ==
  ASSUME Inv, MessagesOfExtractions, MergesAccounted,
         UNCHANGED vars \/ \E c \in Clients : Owner(c) \/ Commit(c) \/ Rollback(c)
  PROVE  MessagesOfExtractions' /\ MergesAccounted'
<1>1. UNCHANGED <<extraction, unsent, queue, worker, merges, asked>>
  BY DEF vars, Owner, ActivateMemory, DisableMemory, UpdateMemory, GetMemoryProfile, Open, Commit,
     Rollback
<1> QED
  BY <1>1 DEF MessagesOfExtractions, MergesAccounted

LEMMA ReceiveMerges ==
  ASSUME Inv, MergesAccounted, NEW t \in Tasks, NEW r \in 0..MaxRetries, Receive(t, r)
  PROVE  MergesAccounted'
<1>1. UNCHANGED <<extraction, merges, asked>>
  BY DEF Receive, requests
<1>2. worker'.pc = "received"
  BY IdleTyped DEF Receive, WorkerType, Maybe
<1> QED
  BY <1>1, <1>2 DEF MergesAccounted

LEMMA StepMerges ==
  Inv /\ MessagesOfExtractions /\ MergesAccounted /\ [Next]_vars =>
    MessagesOfExtractions' /\ MergesAccounted'
<1> SUFFICES ASSUME Inv, MessagesOfExtractions, MergesAccounted, [Next]_vars
             PROVE  MessagesOfExtractions' /\ MergesAccounted'
  OBVIOUS
<1>1. CASE Asking
  BY <1>1, AskingMessages, AskingMerges
<1>2. CASE \E t \in Tasks, r \in 0..MaxRetries : Receive(t, r)
  BY <1>2, ReceiveMessages, ReceiveMerges
<1>3. CASE Analyse \/ Crash
  BY <1>3, AnalyseMessages, WorkerMerges
<1>4. CASE UNCHANGED vars \/ \E c \in Clients : Owner(c) \/ Commit(c) \/ Rollback(c)
  BY <1>4, OthersMerges
<1> QED
  BY <1>1, <1>2, <1>3, <1>4 DEF Next, Asking

(* No evidence is counted twice, whatever is delivered again after a crash *)
(* or retried: Memory.MergedAsAsked.                                       *)
THEOREM MergesCorrect == Spec => []MergedAsAsked
<1>1. MergesAccounted => MergedAsAsked
  BY DEF MergesAccounted, MergedAsAsked
<1> QED
  BY <1>1, InitInv, StepInv, InitMessages, InitMerges, StepMerges, PTL DEF Spec

-----------------------------------------------------------------------------
(* What a request's commit does to statuses. *)
LEMMA StoredStatus ==
  ASSUME Inv, NEW c \in Clients, NEW i \in Ids
  PROVE  /\ Live(Stored(session[c])[i]) =>
              Live(memory[i]) \/ (session[c].act = "activate" /\ session[c].id = i)
         /\ IsDisabled(memory[i]) /\ IsActive(Stored(session[c])[i]) =>
              session[c].act = "activate" /\ session[c].id = i
<1> DEFINE s == session[c]
<1>1. CASE s.id \in Ids /\ i = s.id
  <2>1. /\ s.act \in {"activate", "disable", "edit"}
        /\ s.read[s.id] \in Rows /\ memory[s.id] \in Rows /\ CopyOf(s) \in Rows
        /\ s.act = "edit" => CopyOf(s).status = s.read[s.id].status
        /\ s.act = "disable" => CopyOf(s).status = "DISABLED"
    BY <1>1, CopyRow
  <2> DEFINE r == Written(s.read[s.id], CopyOf(s), memory[s.id])
  <2>2. r.status = IF CopyOf(s).status = s.read[s.id].status
                     THEN memory[s.id].status ELSE CopyOf(s).status
    BY <2>1, WrittenRow
  <2>3. memory \in [Ids -> Maybe(Rows)]
    BY TypeParts DEF Inv
  <2>4. Stored(s)[i] = r
    BY <1>1, <2>3 DEF Stored
  <2>5. Exists(memory[i])
    BY <1>1, <2>1, RowsExist
  <2> HIDE DEF r
  <2> QED
    BY <1>1, <2>1, <2>2, <2>4, <2>5 DEF Live, IsDisabled, IsActive
<1>2. CASE ~(s.id \in Ids /\ i = s.id)
  <2>1. Stored(s)[i] = memory[i]
    BY <1>2, StoredRows
  <2> QED
    BY <2>1 DEF IsDisabled, IsActive
<1> QED
  BY <1>1, <1>2

-----------------------------------------------------------------------------
(* The memories that count, those the worker is about to write included.   *)
Counting ==
  {i \in Ids : Live(memory[i]) \/ (worker.pc = "merging" /\ Live(worker.copy[i]))} \ activated

RoomLeft ==
  /\ Cardinality(Counting) <= MaxMemories
  /\ worker.pc = "merging" => Cardinality(Counting) <= worker.count

LEMMA CountingFinite ==
  /\ Counting \subseteq Ids /\ IsFiniteSet(Counting) /\ Cardinality(Counting) \in Nat
<1>1. Counting \subseteq Ids /\ IsFiniteSet(Ids)
  BY BoundsAreNaturals DEF Counting
<1> QED
  BY <1>1, FS_Subset, FS_CardinalityType

LEMMA CountingShrinks ==
  ASSUME Inv, RoomLeft, Counting' \subseteq Counting,
         worker'.pc = "merging" => worker.pc = "merging" /\ worker'.count = worker.count
  PROVE  RoomLeft'
<1>1. Cardinality(Counting) \in Nat /\ IsFiniteSet(Counting)
  BY CountingFinite
<1>2. Cardinality(Counting') \in Nat /\ Cardinality(Counting') <= Cardinality(Counting)
  BY <1>1, FS_Subset, FS_CardinalityType
<1>3. worker.count \in Nat
  BY WorkerIs, WorkerParts
<1>4. Cardinality(Counting') <= MaxMemories
  BY <1>1, <1>2, BoundsAreIntegers DEF RoomLeft
<1>5. worker'.pc = "merging" => Cardinality(Counting') <= worker'.count
  BY <1>1, <1>2, <1>3 DEF RoomLeft
<1> QED
  BY <1>4, <1>5 DEF RoomLeft

LEMMA InitRoom ==
  Init => RoomLeft
<1> SUFFICES ASSUME Init PROVE RoomLeft
  OBVIOUS
<1>1. Counting = {}
  BY DEF Init, Counting, Live, Exists, Idle
<1>2. Cardinality({}) = 0
  BY FS_EmptySet
<1>3. worker.pc # "merging"
  BY DEF Init, Idle
<1> QED
  BY <1>1, <1>2, <1>3, BoundsAreIntegers DEF RoomLeft

LEMMA CommitRoom ==
  ASSUME Inv, RoomLeft, NEW c \in Clients, Commit(c)
  PROVE  RoomLeft'
<1>1. /\ memory' = Stored(session[c]) /\ worker' = worker
      /\ activated' = IF session[c].act = "activate" THEN activated \cup {session[c].id} ELSE activated
  BY DEF Commit
<1>2. \A i \in Ids : Live(memory'[i]) => Live(memory[i]) \/ i \in activated'
  BY <1>1, StoredStatus
<1>3. Counting' \subseteq Counting
  BY <1>1, <1>2 DEF Counting
<1> QED
  BY <1>1, <1>3, CountingShrinks

LEMMA NothingMerging ==
  ASSUME Inv, RoomLeft, memory' = memory, activated' = activated, worker'.pc # "merging"
  PROVE  RoomLeft'
<1>1. Counting' \subseteq Counting
  BY DEF Counting
<1> QED
  BY <1>1, CountingShrinks

LEMMA MergeRoom ==
  ASSUME Inv, RoomLeft, NEW items \in Analyses, Merge(items)
  PROVE  RoomLeft'
<1>1. /\ memory' = memory /\ activated' = activated /\ worker.copy = NotLoaded
  BY WorkerIs DEF Merge, rows, At
<1>2. /\ worker'.copy = worker.copy /\ worker'.count = Cardinality(LiveIds(memory))
      /\ worker'.pc = "merging"
  BY WorkerIs DEF Merge, WorkerType
<1>3. \A i \in Ids : ~Live(NotLoaded[i])
  BY DEF NotLoaded, Live, Exists
<1>4. Counting' \subseteq LiveIds(memory) /\ Counting' \subseteq Counting
  BY <1>1, <1>2, <1>3 DEF Counting, LiveIds
<1>5. IsFiniteSet(LiveIds(memory)) /\ IsFiniteSet(Counting) /\ Cardinality(Counting) \in Nat
  BY LiveFinite, CountingFinite
<1>6. /\ Cardinality(Counting') <= Cardinality(LiveIds(memory))
      /\ Cardinality(Counting') <= Cardinality(Counting) /\ Cardinality(Counting') \in Nat
  BY <1>4, <1>5, FS_Subset, FS_CardinalityType
<1> QED
  BY <1>2, <1>5, <1>6, BoundsAreIntegers DEF RoomLeft

LEMMA MergeItemRoom ==
  ASSUME Inv, RoomLeft, MergeItem
  PROVE  RoomLeft'
<1>1. PICK i \in Ids, r \in Rows :
           /\ r = Loaded(i) /\ At("merging") /\ worker'.pc = "merging" /\ worker'.count = worker.count
           /\ worker'.copy = [worker.copy EXCEPT ![i] = MergedWith(r, Head(worker.items))]
           /\ Head(worker.items) \in Items
           /\ UNCHANGED <<rows, profile, raised, extraction, queue, faults, merges, requests>>
  BY MergeItemParts
<1> DEFINE m == MergedWith(r, Head(worker.items))
<1>2. m.status # r.status => r.status = "CANDIDATE"
  BY <1>1, MergedRow
<1>3. Live(m) => Live(r)
  BY <1>2, RowsExist DEF Live
<1> HIDE DEF m
<1>4. worker.copy \in [Ids -> Maybe(Rows)]
  BY WorkerIs, WorkerParts
<1>5. \A j \in Ids : worker'.copy[j] = IF j = i THEN m ELSE worker.copy[j]
  BY <1>1, <1>4 DEF m
<1>6. Live(r) => Live(memory[i]) \/ Live(worker.copy[i])
  BY <1>1 DEF Loaded
<1>7. memory' = memory /\ activated' = activated
  BY <1>1 DEF rows
<1>8. Counting' \subseteq Counting
  BY <1>1, <1>3, <1>5, <1>6, <1>7 DEF Counting, At
<1> QED
  BY <1>1, <1>8, CountingShrinks DEF At

LEMMA CreateItemRoom ==
  ASSUME Inv, RoomLeft, CreateItem
  PROVE  RoomLeft'
<1>1. PICK i \in Free, r \in Rows :
           /\ At("merging") /\ worker.count < MaxMemories
           /\ worker'.pc = "merging" /\ worker'.count = worker.count + 1
           /\ worker'.copy = [worker.copy EXCEPT ![i] = r]
           /\ UNCHANGED <<rows, profile, raised, extraction, queue, faults, merges, requests>>
  BY CreateItemParts
<1>2. memory' = memory /\ activated' = activated
  BY <1>1 DEF rows
<1>3. worker.copy \in [Ids -> Maybe(Rows)] /\ worker.count \in Nat
  BY WorkerIs, WorkerParts
<1>4. \A j \in Ids : j # i => worker'.copy[j] = worker.copy[j]
  BY <1>1, <1>3
<1>5. Counting' \subseteq Counting \cup {i}
  BY <1>1, <1>2, <1>4 DEF Counting, At
<1>6. IsFiniteSet(Counting) /\ Cardinality(Counting) \in Nat
  BY CountingFinite
<1>7. /\ IsFiniteSet(Counting \cup {i})
      /\ Cardinality(Counting \cup {i}) <= Cardinality(Counting) + 1
      /\ Cardinality(Counting \cup {i}) \in Nat
  BY <1>6, FS_AddElement, FS_CardinalityType
<1>8. Cardinality(Counting') <= Cardinality(Counting \cup {i}) /\ Cardinality(Counting') \in Nat
  BY <1>5, <1>7, FS_Subset, FS_CardinalityType
<1>9. Cardinality(Counting) <= worker.count
  BY <1>1 DEF RoomLeft, At
<1> QED
  BY <1>1, <1>3, <1>6, <1>7, <1>8, <1>9, BoundsAreIntegers DEF RoomLeft

LEMMA MergeCommitRoom ==
  ASSUME Inv, RoomLeft, MergeCommit
  PROVE  RoomLeft'
<1>1. /\ At("merging") /\ memory' = MergedRows /\ activated' = activated
      /\ worker' = [worker EXCEPT !.pc = "returned"]
  BY DEF MergeCommit, IsAnalysed, Goes
<1>2. worker'.pc = "returned"
  BY <1>1, WorkerIs DEF WorkerType
<1>3. \A i \in Ids : Live(memory'[i]) => Live(memory[i]) \/ Live(worker.copy[i])
  BY <1>1, MergedAt DEF MergedRows
<1>4. Counting' \subseteq Counting
  BY <1>1, <1>2, <1>3 DEF Counting, At
<1> QED
  BY <1>2, <1>4, CountingShrinks

LEMMA ControlRoom ==
  ASSUME Inv, RoomLeft, Skip \/ Begin \/ Fail \/ Retry \/ Raise \/ Acknowledge \/ Crash
  PROVE  RoomLeft'
<1>1. worker \in WorkerType
  BY WorkerIs
<1>2. worker'.pc # "merging"
  BY <1>1, IdleTyped DEF Skip, Begin, Fail, Retry, Raise, Acknowledge, Crash, Goes, WorkerType
<1>3. memory' = memory /\ activated' = activated
  BY DEF Skip, Begin, Fail, Retry, Raise, Acknowledge, Crash, rows
<1> QED
  BY <1>2, <1>3, NothingMerging

LEMMA StepRoom ==
  Inv /\ RoomLeft /\ [Next]_vars => RoomLeft'
<1> SUFFICES ASSUME Inv, RoomLeft, [Next]_vars PROVE RoomLeft'
  OBVIOUS
<1>1. CASE UNCHANGED vars \/ Asking \/ \E c \in Clients : Owner(c) \/ Rollback(c)
  <2>1. UNCHANGED <<memory, activated, worker>>
    BY <1>1 DEF vars, rows, Asking, Archive, Restore, Send, RetryOpen, RetryCommit, Owner,
       ActivateMemory, DisableMemory, UpdateMemory, GetMemoryProfile, Open, Rollback
  <2>2. Counting' \subseteq Counting
    BY <2>1 DEF Counting
  <2> QED
    BY <2>1, <2>2, CountingShrinks
<1>2. ASSUME NEW t \in Tasks, NEW r \in 0..MaxRetries, Receive(t, r)
      PROVE  RoomLeft'
  <2>1. worker'.pc = "received" /\ memory' = memory /\ activated' = activated
    BY <1>2, IdleTyped DEF Receive, rows, WorkerType, Maybe
  <2> QED
    BY <2>1, NothingMerging
<1>3. CASE SkipItem
  <2>1. /\ worker'.pc = "merging" /\ worker'.copy = worker.copy /\ worker'.count = worker.count
        /\ worker.pc = "merging" /\ memory' = memory /\ activated' = activated
    BY <1>3, SkipItemInv DEF SkipItem, At, rows
  <2>2. Counting' \subseteq Counting
    BY <2>1 DEF Counting
  <2> QED
    BY <2>1, <2>2, CountingShrinks
<1> QED
  BY <1>1, <1>2, <1>3, NextIs, CommitRoom, ControlRoom, MergeRoom, MergeItemRoom, CreateItemRoom,
     MergeCommitRoom

(* However many archives and requests meet, the memories that count and    *)
(* that their owner did not activate are within the limit:                 *)
(* Memory.AutomaticLimit.                                                  *)
THEOREM LimitCorrect == Spec => []AutomaticLimit
<1>1. Inv /\ RoomLeft => AutomaticLimit
  <2> SUFFICES ASSUME Inv, RoomLeft PROVE Cardinality(LiveIds(memory) \ activated) <= MaxMemories
    BY DEF AutomaticLimit
  <2>1. LiveIds(memory) \ activated \subseteq Counting
    BY DEF LiveIds, Counting
  <2>2. IsFiniteSet(Counting) /\ Cardinality(Counting) \in Nat
    BY CountingFinite
  <2>3. /\ Cardinality(LiveIds(memory) \ activated) <= Cardinality(Counting)
        /\ Cardinality(LiveIds(memory) \ activated) \in Nat
    BY <2>1, <2>2, FS_Subset, FS_CardinalityType
  <2> QED
    BY <2>2, <2>3, BoundsAreIntegers DEF RoomLeft
<1> QED
  BY <1>1, InitInv, StepInv, InitRoom, StepRoom, PTL DEF Spec

-----------------------------------------------------------------------------
LEMMA MemoryStep ==
  ASSUME Inv, [Next]_vars
  PROVE  \/ memory' = memory
         \/ \E c \in Clients : Commit(c)
         \/ MergeCommit
<1>1. CASE UNCHANGED vars
  BY <1>1 DEF vars
<1>2. CASE Asking \/ \E c \in Clients : Owner(c) \/ Rollback(c)
  BY <1>2 DEF rows, Asking, Archive, Restore, Send, RetryOpen, RetryCommit, Owner,
       ActivateMemory, DisableMemory, UpdateMemory, GetMemoryProfile, Open, Rollback
<1>3. CASE \E t \in Tasks, r \in 0..MaxRetries : Receive(t, r)
  BY <1>3 DEF Receive, rows
<1>4. CASE Skip \/ Begin \/ Fail \/ Retry \/ Raise \/ Acknowledge \/ Crash
  BY <1>4 DEF Skip, Begin, Fail, Retry, Raise, Acknowledge, Crash, rows
<1>5. CASE (\E items \in Analyses : Merge(items)) \/ MergeItem \/ CreateItem \/ SkipItem
  BY <1>5 DEF Merge, MergeItem, CreateItem, SkipItem, rows
<1> QED
  BY <1>1, <1>2, <1>3, <1>4, <1>5, NextIs

LEMMA StepOwner ==
  ASSUME Inv, [Next]_vars, NEW i \in Ids, IsDisabled(memory[i]), IsActive(memory'[i])
  PROVE  \/ \E c \in Clients : session[c].act = "activate" /\ session[c].id = i
                               /\ session'[c] = NoSession
         \/ /\ Exists(worker.base[i]) /\ ~IsDisabled(worker.base[i])
            /\ merges' # merges
<1>1. CASE memory' = memory
  BY <1>1 DEF IsDisabled, IsActive
<1>2. ASSUME NEW c \in Clients, Commit(c)
      PROVE  /\ session[c].act = "activate" /\ session[c].id = i
             /\ session'[c] = NoSession
  <2>1. memory' = Stored(session[c]) /\ session' = [session EXCEPT ![c] = NoSession]
    BY <1>2 DEF Commit
  <2>2. session \in [Clients -> Session]
    BY TypeParts DEF Inv
  <2> QED
    BY <2>1, <2>2, StoredStatus
<1>3. CASE MergeCommit
  <2>1. /\ At("merging") /\ memory' = MergedRows /\ worker.task \in Tasks
        /\ merges' = [merges EXCEPT ![worker.task] = @ + 1] /\ merges \in [Tasks -> Nat]
    BY <1>3, WorkerIs, TypeParts DEF MergeCommit, IsAnalysed, At, Inv
  <2>2. memory'[i] = Merged(i)
    BY <2>1 DEF MergedRows
  <2>3. Exists(worker.base[i]) /\ ~IsDisabled(worker.base[i])
    BY <2>1, <2>2, MergedAt
  <2>4. merges'[worker.task] = merges[worker.task] + 1 /\ merges[worker.task] \in Nat
    BY <2>1
  <2> QED
    BY <2>3, <2>4
<1> QED
  BY <1>1, <1>2, <1>3, MemoryStep

(* A memory its owner has disabled comes back by the owner alone, or by a  *)
(* merge that had loaded it before: Memory.OwnersWordHolds.                *)
THEOREM OwnerCorrect == Spec => OwnersWordHolds
<1>1. Inv /\ [Next]_vars =>
        [\A i \in Ids : IsDisabled(memory[i]) /\ IsActive(memory'[i])
           => \/ \E c \in Clients : session[c].act = "activate" /\ session[c].id = i
                                    /\ session'[c] = NoSession
              \/ /\ Exists(worker.base[i]) /\ ~IsDisabled(worker.base[i])
                 /\ merges' # merges]_vars
  BY StepOwner
<1> QED
  BY <1>1, InitInv, StepInv, PTL DEF Spec, OwnersWordHolds

-----------------------------------------------------------------------------
LEMMA SessionStep ==
  ASSUME Inv, [Next]_vars, NEW c \in Clients, session[c].act = "edit", session'[c].act = "none"
  PROVE  Commit(c) \/ Rollback(c)
<1>0. session \in [Clients -> Session]
  BY TypeParts DEF Inv
<1>1. session' # session
  OBVIOUS
<1>2. ~UNCHANGED vars /\ ~Asking /\ ~\E t \in Tasks, r \in 0..MaxRetries : Receive(t, r)
  BY <1>1 DEF vars, Asking, Archive, Restore, Send, RetryOpen, RetryCommit, Receive, requests
<1>3. ~(Analyse \/ Crash)
  BY <1>1 DEF Analyse, Crash, Skip, Begin, Fail, Retry, Merge, MergeItem, CreateItem, SkipItem,
     MergeCommit, Raise, Acknowledge, requests
<1>4. PICK d \in Clients : Owner(d) \/ Commit(d) \/ Rollback(d)
  BY <1>2, <1>3 DEF Next, Asking
<1>5. d = c
  <2>1. \A e \in Clients : e # d => session'[e] = session[e]
    BY <1>0, <1>4 DEF Owner, ActivateMemory, DisableMemory, UpdateMemory, GetMemoryProfile, Open,
       Commit, Rollback
  <2> QED
    BY <2>1
<1>6. ~Owner(c)
  BY DEF Owner, ActivateMemory, DisableMemory, UpdateMemory, GetMemoryProfile, Open
<1> QED
  BY <1>4, <1>5, <1>6

LEMMA StepEdit ==
  ASSUME Inv, [Next]_vars, NEW c \in Clients, session[c].act = "edit", session'[c].act = "none",
         session[c].read = memory, UniqueKeys(Stored(session[c])), session[c].profiled
  PROVE  profile'.summary = Summary(memory', memory')
<1> DEFINE s == session[c]
<1>0. s \in Session /\ memory \in [Ids -> Maybe(Rows)]
  BY TypeParts DEF Inv
<1>1. s.id \in Ids
  BY <1>0, SessionParts
<1>2. ~Refused(Stored(s), s.profiled)
  BY DEF Refused
<1>3. Commit(c)
  BY <1>2, SessionStep DEF Rollback
<1>4. memory' = Stored(s) /\ profile'.summary = Rebuilt(s)
  BY <1>3 DEF Commit
<1>5. /\ memory[s.id] \in Rows /\ CopyOf(s) \in Rows
      /\ CopyOf(s).name = memory[s.id].name /\ CopyOf(s).status = memory[s.id].status
  BY <1>1, CopyRow
<1>6. Written(memory[s.id], CopyOf(s), memory[s.id]) = CopyOf(s)
  BY <1>5, WrittenAlone
<1>7. memory' = CopiesOf(s)
  BY <1>1, <1>4, <1>6 DEF Stored, CopiesOf
<1>8. \A i \in Ids : IsActive(memory'[i]) <=> IsActive(memory[i])
  <2>1. \A i \in Ids : memory'[i] = IF i = s.id THEN CopyOf(s) ELSE memory[i]
    BY <1>0, <1>7 DEF CopiesOf
  <2>2. IsActive(CopyOf(s)) <=> IsActive(memory[s.id])
    BY <1>5, RowsExist DEF IsActive
  <2> QED
    BY <2>1, <2>2
<1>9. Rebuilt(s) = Summary(memory, memory')
  BY <1>1, <1>7 DEF Rebuilt
<1>10. Summary(memory, memory') = Summary(memory', memory')
  BY <1>8 DEF Summary
<1> QED
  BY <1>4, <1>9, <1>10

(* An edit that met no other commit leaves a profile that says what the    *)
(* ACTIVE memories say: Memory.EditRebuilds.                               *)
THEOREM EditCorrect == Spec => EditRebuilds
<1>1. Inv /\ [Next]_vars =>
        [\A c \in Clients : session[c].act = "edit" /\ session'[c].act = "none"
                            /\ session[c].read = memory /\ UniqueKeys(Stored(session[c]))
                            /\ session[c].profiled
           => profile'.summary = Summary(memory', memory')]_vars
  BY StepEdit
<1> QED
  BY <1>1, InitInv, StepInv, PTL DEF Spec, EditRebuilds
=============================================================================
