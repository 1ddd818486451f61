---------------------------- MODULE DeliveryProofs ----------------------------
(* Proofs about Delivery for any plan, any paths, calls, slots and retries. *)
EXTENDS Delivery, FiniteSetTheorems, TLAPS

Tools == Readers \cup Creators \cup Copiers \cup Scripts \cup {"move_file", "move_to_trash"}
Files == [Paths -> Contents \cup {Absent, "no_content", "good"}]
Artifact == [node : Producers \cup {NoNode}, final : BOOLEAN,
             status : {"NONE", "READY", "MISSING", "VERIFIED"}]
Request == [id : 1..MaxCalls, node : Nodes, tool : Tools,
            source : Paths \cup {NoPath}, target : Paths \cup {NoPath},
            granted : BOOLEAN, working : BOOLEAN, awaited : BOOLEAN]

(* What TypeOK says of each variable, to be cited by name. *)
LEMMA TypeParts ==
  ASSUME TypeOK
  PROVE  /\ file \in Files
         /\ writer \in [Paths -> Nodes \cup {NoNode}]
         /\ artifact \in [Paths -> Artifact]
         /\ node \in [Nodes -> {"PENDING", "READY", "RUNNING", "SUCCEEDED", "FAILED"}]
         /\ requests \subseteq Request
         /\ examined \in [Nodes -> SUBSET (Readers \X Paths)]
         /\ calls \in 0..MaxCalls /\ retries \in 0..MaxReviewRetries /\ late \in 0..MaxLate
         /\ task \in {"EXECUTING", "SUCCEEDED", "FAILED"}
BY DEF TypeOK, Files, Artifact, Request, Tools

LEMMA BoundsAreIntegers ==
  MaxCalls \in Nat /\ MaxReviewRetries \in Nat /\ MaxLate \in Nat /\ Slots \in Nat /\ MinFiles \in Nat
BY BoundsAreNaturals

(* What the Runner is asked for is in the scope of its node, and only      *)
(* conversions and scripts are at work for longer.                         *)
RequestsInScope ==
  \A q \in requests : InScope(q) /\ (q.working => q.tool \in Converters \cup Scripts)

Inv == TypeOK /\ RequestsInScope

-----------------------------------------------------------------------------
(* Scopes. *)
LEMMA Scopes ==
  ASSUME NEW n \in Nodes
  PROVE  /\ Writable[n] \subseteq Paths /\ Readable[n] \subseteq Paths
         /\ \A a \in Areas : Own(a, n) \subseteq All(a) /\ All(a) \subseteq Paths
<1>1. \A a \in Areas, m \in Nodes : Own(a, m) \subseteq All(a) /\ All(a) \subseteq Paths
  BY DEF Own, All
<1>2. Writable[n] \subseteq Paths
  BY <1>1 DEF Writable, Areas
<1>3. \A m \in {n} \cup DependsOn[n] : m \in Nodes
  BY PathsAreTyped DEF Nodes
<1>4. UNION {Own("shared", m) \cup Own("output", m) : m \in {n} \cup DependsOn[n]} \subseteq Paths
  BY <1>1, <1>3 DEF Areas
<1>5. Readable[n] \subseteq Paths
  BY <1>1, <1>4 DEF Readable, Areas
<1> QED
  BY <1>1, <1>2, <1>5

LEMMA ToolsAreTools ==
  ASSUME NEW n \in Nodes
  PROVE  ToolsOf(n) \subseteq Tools
BY DEF ToolsOf, Tools, Copiers, Converters, Readers

LEMMA CallParts ==
  ASSUME NEW n \in Nodes, NEW c \in CallsOf[n]
  PROVE  /\ c = [tool |-> c.tool, source |-> c.source, target |-> c.target]
         /\ c.tool \in Tools /\ c.tool \in ToolsOf(n)
         /\ c.source \in Readable[n] \cup {NoPath} /\ c.target \in Writable[n] \cup {NoPath}
         /\ c.source = NoPath <=> c.tool \in Creators \cup Scripts
         /\ c.target = NoPath <=> c.tool \in Readers \cup Scripts \cup {"move_to_trash"}
         /\ c.tool \in {"move_file", "move_to_trash"} => c.source \in Writable[n]
<1>1. c \in [tool : ToolsOf(n), source : Readable[n] \cup {NoPath},
             target : Writable[n] \cup {NoPath}]
  BY DEF CallsOf
<1>2. /\ c.source = NoPath <=> c.tool \in Creators \cup Scripts
      /\ c.target = NoPath <=> c.tool \in Readers \cup Scripts \cup {"move_to_trash"}
      /\ c.tool \in {"move_file", "move_to_trash"} => c.source \in Writable[n]
  BY DEF CallsOf
<1> QED
  BY <1>1, <1>2, ToolsAreTools

(* The same of a request in scope. *)
LEMMA RequestParts ==
  ASSUME NEW q \in Request, InScope(q)
  PROVE  /\ q.node \in Nodes /\ q.tool \in ToolsOf(q.node) /\ q.tool \in Tools
         /\ q.tool \in Tools \ (Creators \cup Scripts) => q.source \in Readable[q.node]
         /\ q.tool \in Creators \cup Copiers \cup {"move_file"} => q.target \in Writable[q.node]
         /\ q.tool \in {"move_file", "move_to_trash"} => q.source \in Writable[q.node]
         /\ Writable[q.node] \subseteq Paths /\ Readable[q.node] \subseteq Paths
<1> DEFINE c == [tool |-> q.tool, source |-> q.source, target |-> q.target]
<1>1. q.node \in Nodes
  BY DEF Request
<1>2. c \in CallsOf[q.node]
  BY DEF InScope
<1>3. /\ c.tool = q.tool /\ c.source = q.source /\ c.target = q.target
  OBVIOUS
<1> HIDE DEF c
<1>4. /\ q.tool \in Tools /\ q.tool \in ToolsOf(q.node)
      /\ q.source \in Readable[q.node] \cup {NoPath} /\ q.target \in Writable[q.node] \cup {NoPath}
      /\ q.source = NoPath <=> q.tool \in Creators \cup Scripts
      /\ q.target = NoPath <=> q.tool \in Readers \cup Scripts \cup {"move_to_trash"}
      /\ q.tool \in {"move_file", "move_to_trash"} => q.source \in Writable[q.node]
  BY <1>1, <1>2, <1>3, CallParts
<1>5. q.tool \in Creators \cup Copiers \cup {"move_file"} =>
        q.tool \notin Readers \cup Scripts \cup {"move_to_trash"}
  BY DEF Creators, Copiers, Converters, Readers, Scripts
<1>6. Writable[q.node] \subseteq Paths /\ Readable[q.node] \subseteq Paths
  BY <1>1, Scopes
<1> QED
  BY <1>1, <1>4, <1>5, <1>6

-----------------------------------------------------------------------------
(* What a tool leaves in the workspace. *)
LEMMA OneChange ==
  ASSUME file \in Files, NEW p \in Paths, NEW c \in Contents \cup {Absent, "no_content", "good"}
  PROVE  /\ Changed(p, c) \in Files
         /\ \A x \in Paths : Changed(p, c)[x] # file[x] => x = p
BY DEF Changed, Files

Outcome == [ok : BOOLEAN, file : Files]

LEMMA OutcomeMakers ==
  ASSUME NEW f \in Files
  PROVE  /\ Ok(f) \in Outcome /\ Fails(f) \in Outcome
         /\ Ok(f).file = f /\ Fails(f).file = f
BY DEF Ok, Fails, Outcome

LEMMA PassesIsBoolean ==
  ASSUME NEW kind, NEW content
  PROVE  Passes(kind, content) \in BOOLEAN
BY DEF Passes

(* An executed request gives back a typed workspace and changes only what  *)
(* its node may write: its target, or the file it moves or removes.        *)
LEMMA OutcomeParts ==
  ASSUME TypeOK, NEW q \in Request, InScope(q), NEW o \in Outcomes(q)
  PROVE  /\ o \in Outcome
         /\ \A p \in Paths : o.file[p] # file[p] => p \in Writable[q.node]
         /\ q.tool \in Readers \cup Scripts => o.file = file
         /\ q.tool \in Overwriting =>
              \A p \in Paths : o.file[p] # file[p] => p = q.target
<1> DEFINE Any == Contents \cup {Absent, "no_content", "good"}
<1>1. /\ file \in Files /\ \A p \in Paths : file[p] \in Any
  BY TypeParts DEF Files
<1>2. /\ q.tool \in Tools
      /\ q.tool \in Tools \ (Creators \cup Scripts) => q.source \in Readable[q.node]
      /\ q.tool \in Creators \cup Copiers \cup {"move_file"} => q.target \in Writable[q.node]
      /\ q.tool \in {"move_file", "move_to_trash"} => q.source \in Writable[q.node]
      /\ Writable[q.node] \subseteq Paths /\ Readable[q.node] \subseteq Paths
  BY RequestParts
<1> DEFINE Good(f, x) == f \in Files /\ \A p \in Paths : f[p] # file[p] => p = x
<1> DEFINE Goal == /\ o \in Outcome
                   /\ \A p \in Paths : o.file[p] # file[p] => p \in Writable[q.node]
                   /\ q.tool \in Readers \cup Scripts => o.file = file
                   /\ q.tool \in Overwriting =>
                        \A p \in Paths : o.file[p] # file[p] => p = q.target
<1> SUFFICES Goal
  OBVIOUS
<1>3. ASSUME q.tool \in Creators \cup Copiers,
             NEW c \in Any, o \in {Ok(Changed(q.target, c)), Fails(Changed(q.target, c))}
      PROVE  Goal
  <2>1. q.target \in Writable[q.node] /\ q.target \in Paths
    BY <1>2, <1>3
  <2>2. Good(Changed(q.target, c), q.target)
    BY <1>1, <1>3, <2>1, OneChange
  <2>3. o \in Outcome /\ o.file = Changed(q.target, c)
    BY <1>3, <2>2, OutcomeMakers
  <2>4. q.tool \notin Readers \cup Scripts
    BY <1>3 DEF Creators, Copiers, Converters, Readers, Scripts
  <2> QED
    BY <2>1, <2>2, <2>3, <2>4
<1> HIDE DEF Goal
<1>4. CASE q.tool = "write_text"
  <2>1. PICK c \in Contents \cap {"text", "empty"} : o = Ok(Changed(q.target, c))
    BY <1>4 DEF Outcomes, Scripts
  <2> QED
    BY <1>3, <1>4, <2>1 DEF Creators
<1>5. CASE q.tool = "copy_skill_file"
  <2>1. PICK c \in Contents : o = Ok(Changed(q.target, c))
    BY <1>5 DEF Outcomes, Scripts
  <2> QED
    BY <1>3, <1>5, <2>1 DEF Creators
<1>6. CASE q.tool = "copy_file"
  <2>1. o = Ok(Changed(q.target, file[q.source]))
    BY <1>6 DEF Outcomes, Scripts
  <2>2. q.source \in Paths
    BY <1>2, <1>6 DEF Tools, Creators, Scripts, Copiers
  <2> QED
    BY <1>1, <1>3, <1>6, <2>1, <2>2 DEF Copiers
<1>7. CASE q.tool = "create_zip"
  <2>1. \/ o = Fails(Changed(q.target, "no_content")) \/ o = Ok(Changed(q.target, "good"))
    BY <1>7 DEF Outcomes, Scripts
  <2> QED
    BY <1>3, <1>7, <2>1 DEF Copiers
<1>8. CASE q.tool = "move_file"
  <2> DEFINE f == [Changed(q.source, Absent) EXCEPT ![q.target] = file[q.source]]
  <2>1. o = Ok(f)
    BY <1>8 DEF Outcomes, Scripts
  <2>2. q.source \in Writable[q.node] /\ q.target \in Writable[q.node]
        /\ q.source \in Paths /\ q.target \in Paths
    BY <1>2, <1>8
  <2>3. /\ f \in Files
        /\ \A p \in Paths : f[p] # file[p] => p = q.source \/ p = q.target
    BY <1>1, <2>2 DEF Files, Changed
  <2> HIDE DEF f
  <2>4. o \in Outcome /\ o.file = f
    BY <2>1, <2>3, OutcomeMakers
  <2>5. q.tool \notin Readers \cup Scripts \cup Overwriting
    BY <1>8 DEF Creators, Copiers, Converters, Readers, Scripts, Overwriting
  <2> QED
    BY <2>2, <2>3, <2>4, <2>5 DEF Goal
<1>9. CASE q.tool = "move_to_trash"
  <2>1. o = Ok(Changed(q.source, Absent))
    BY <1>9 DEF Outcomes, Scripts
  <2>2. q.source \in Writable[q.node] /\ q.source \in Paths
    BY <1>2, <1>9
  <2>3. Good(Changed(q.source, Absent), q.source)
    BY <1>1, <2>2, OneChange
  <2>4. o \in Outcome /\ o.file = Changed(q.source, Absent)
    BY <2>1, <2>3, OutcomeMakers
  <2>5. q.tool \notin Readers \cup Scripts \cup Overwriting
    BY <1>9 DEF Creators, Copiers, Converters, Readers, Scripts, Overwriting
  <2> QED
    BY <2>2, <2>3, <2>4, <2>5 DEF Goal
<1>10. CASE q.tool \in Readers
  <2>1. q.source \in Paths
    BY <1>2, <1>10 DEF Tools, Readers, Creators, Scripts
  <2>2. Passes(Kind[q.source], file[q.source]) \in BOOLEAN
    BY PassesIsBoolean
  <2>3. IsText(Kind[q.source], file[q.source]) \in BOOLEAN
    BY DEF IsText
  <2>4. \/ o = [ok |-> IsText(Kind[q.source], file[q.source]), file |-> file]
        \/ o = [ok |-> Passes(Kind[q.source], file[q.source]), file |-> file]
    BY <1>10 DEF Outcomes, Readers, Scripts
  <2>5. o \in Outcome /\ o.file = file
    BY <1>1, <2>2, <2>3, <2>4 DEF Outcome
  <2>6. q.tool \notin Overwriting
    BY <1>10 DEF Overwriting, Creators, Copiers, Converters, Readers
  <2> QED
    BY <2>5, <2>6 DEF Goal
<1>11. CASE q.tool = "convert_document"
  <2>1. PICK c \in Contents : o = Ok(Changed(q.target, c))
    BY <1>11 DEF Outcomes, Scripts
  <2> QED
    BY <1>3, <1>11, <2>1 DEF Copiers, Converters
<1>12. CASE q.tool = "convert_to_markdown"
  <2>1. PICK c \in Contents : o = Ok(Changed(q.target, c))
    BY <1>12 DEF Outcomes, Scripts
  <2> QED
    BY <1>3, <1>12, <2>1 DEF Copiers, Converters
<1>13. CASE q.tool \in Scripts
  <2>1. o = Ok(file) \/ o = Fails(file)
    BY <1>13 DEF Outcomes, Scripts
  <2>2. o \in Outcome /\ o.file = file
    BY <1>1, <2>1, OutcomeMakers
  <2>3. q.tool \notin Overwriting
    BY <1>13 DEF Overwriting, Creators, Copiers, Converters, Scripts
  <2> QED
    BY <2>2, <2>3 DEF Goal
<1> QED
  BY <1>2, <1>4, <1>5, <1>6, <1>7, <1>8, <1>9, <1>10, <1>11, <1>12, <1>13
     DEF Tools, Creators, Copiers, Converters

-----------------------------------------------------------------------------
(* Steps that answer a request, seen as one: the workspace becomes f.      *)
Answers(q, ok, f) ==
  /\ f \in Files
  /\ \A p \in Paths : f[p] # file[p] => p \in Writable[q.node]
  /\ q.tool \in Readers => f = file
  /\ \A p \in Paths : f[p] # file[p] => file[p] = Absent \/ q.granted \/ ~Quick(q)
  /\ file' = f /\ writer' = Wrote(q.node, f) /\ Answered(q, ok)
  /\ UNCHANGED <<artifact, node, calls, retries, task, late>>

LEMMA NothingWritten ==
  ASSUME TypeOK, NEW n
  PROVE  file \in Files /\ Wrote(n, file) = writer
BY TypeParts DEF Wrote

LEMMA ReturnsAnswers ==
  ASSUME Inv, NEW q \in requests, Returns(q), q.working \/ ~Refused(q),
         UNCHANGED <<artifact, node, calls, retries, task, late>>
  PROVE  \E ok \in BOOLEAN, f \in Files : Answers(q, ok, f)
<1>1. q \in Request /\ InScope(q)
  BY TypeParts DEF Inv, RequestsInScope
<1>2. PICK o \in Outcomes(q) : file' = o.file /\ writer' = Wrote(q.node, o.file) /\ Answered(q, o.ok)
  BY DEF Returns
<1>3. /\ o.ok \in BOOLEAN /\ o.file \in Files
      /\ \A p \in Paths : o.file[p] # file[p] => p \in Writable[q.node]
      /\ q.tool \in Readers \cup Scripts => o.file = file
      /\ q.tool \in Overwriting =>
           \A p \in Paths : o.file[p] # file[p] => p = q.target
  BY <1>1, <1>2, OutcomeParts DEF Inv, Outcome
<1>4. \A p \in Paths : o.file[p] # file[p] => file[p] = Absent \/ q.granted \/ ~Quick(q)
  <2>1. CASE q.working
    BY <2>1 DEF Inv, RequestsInScope, Quick
  <2>2. CASE ~q.working /\ ~q.granted
    <3>1. ~NeedsApproval(q)
      BY <2>2 DEF Refused
    <3>2. q.tool \in Tools
      BY <1>1, RequestParts
    <3>3. CASE q.tool \in Overwriting
      BY <1>3, <3>1, <3>3 DEF NeedsApproval
    <3>4. CASE q.tool \notin Overwriting
      <4>1. q.tool \in Readers \cup Scripts
        BY <3>1, <3>2, <3>4 DEF NeedsApproval, Tools, Overwriting
      <4> QED
        BY <1>3, <4>1
    <3> QED
      BY <3>3, <3>4
  <2> QED
    BY <2>1, <2>2
<1> QED
  BY <1>2, <1>3, <1>4 DEF Answers

LEMMA FailureAnswers ==
  ASSUME Inv, NEW q \in requests, Answered(q, FALSE), UNCHANGED <<file, writer>>,
         UNCHANGED <<artifact, node, calls, retries, task, late>>
  PROVE  \E ok \in BOOLEAN, f \in Files : Answers(q, ok, f)
<1>1. file \in Files /\ Wrote(q.node, file) = writer
  BY NothingWritten DEF Inv
<1>2. Answers(q, FALSE, file)
  BY <1>1 DEF Answers
<1> QED
  BY <1>1, <1>2

LEMMA ServedAnswers ==
  ASSUME Inv, NEW q \in requests, Execute(q) \/ End(q)
  PROVE  \E ok \in BOOLEAN, f \in Files : Answers(q, ok, f)
<1>0. UNCHANGED <<artifact, node, calls, retries, task, late>>
  BY DEF Execute, End
<1>1. CASE Execute(q) /\ Refused(q)
  <2>1. Answered(q, FALSE) /\ UNCHANGED <<file, writer>>
    BY <1>1 DEF Execute
  <2> QED
    BY <1>0, <2>1, FailureAnswers
<1>2. CASE Execute(q) /\ ~Refused(q)
  <2>1. Returns(q)
    BY <1>2 DEF Execute
  <2> QED
    BY <1>0, <1>2, <2>1, ReturnsAnswers
<1>3. CASE End(q)
  <2>1. q.working /\ (Returns(q) \/ (Answered(q, FALSE) /\ UNCHANGED <<file, writer>>))
    BY <1>3 DEF End
  <2> QED
    BY <1>0, <2>1, ReturnsAnswers, FailureAnswers
<1> QED
  BY <1>1, <1>2, <1>3

(* A script's write is typed, and in its node's scope. *)
LEMMA ScriptParts ==
  ASSUME Inv, NEW q \in requests, ScriptWrites(q)
  PROVE  /\ q.working /\ q.tool \in Scripts
         /\ file' \in Files /\ writer' = Wrote(q.node, file')
         /\ \A p \in Paths : file'[p] # file[p] => p \in Writable[q.node]
         /\ UNCHANGED <<artifact, node, requests, examined, calls, retries, task, late, seen>>
<1>1. q \in Request /\ InScope(q) /\ file \in Files
  BY TypeParts DEF Inv, RequestsInScope
<1>2. Writable[q.node] \subseteq Paths
  BY <1>1, RequestParts
<1>3. PICK p \in Writable[q.node], c \in Contents \cup {Absent} :
        file' = Changed(p, c) /\ writer' = Wrote(q.node, Changed(p, c))
  BY DEF ScriptWrites
<1>4. /\ Changed(p, c) \in Files
      /\ \A x \in Paths : Changed(p, c)[x] # file[x] => x = p
  BY <1>1, <1>2, <1>3, OneChange
<1> QED
  BY <1>3, <1>4 DEF ScriptWrites

(* What a step may do to a request that stays: it may be begun or given up. *)
Later(q) == {q, [q EXCEPT !.working = TRUE], [q EXCEPT !.awaited = FALSE]}

LEMMA LaterInScope ==
  ASSUME NEW q \in Request, InScope(q), NEW r \in Later(q)
  PROVE  r \in Request /\ InScope(r) /\ r.node = q.node /\ r.tool = q.tool
<1>1. r \in Request /\ r.node = q.node /\ r.tool = q.tool /\ r.source = q.source /\ r.target = q.target
  BY DEF Later, Request
<1> QED
  BY <1>1 DEF InScope

-----------------------------------------------------------------------------
(* Types, and the scope of every request. *)
LEMMA WroteTyped ==
  ASSUME TypeOK, NEW n \in Nodes, NEW f \in Files
  PROVE  Wrote(n, f) \in [Paths -> Nodes \cup {NoNode}]
BY TypeParts DEF Wrote

LEMMA InvHolds ==
  ASSUME file' \in Files, writer' \in [Paths -> Nodes \cup {NoNode}],
         artifact' \in [Paths -> Artifact],
         node' \in [Nodes -> {"PENDING", "READY", "RUNNING", "SUCCEEDED", "FAILED"}],
         requests' \subseteq Request,
         examined' \in [Nodes -> SUBSET (Readers \X Paths)],
         calls' \in 0..MaxCalls, retries' \in 0..MaxReviewRetries, late' \in 0..MaxLate,
         task' \in {"EXECUTING", "SUCCEEDED", "FAILED"},
         \A q \in requests' : InScope(q) /\ (q.working => q.tool \in Converters \cup Scripts)
  PROVE  Inv'
<1>1. TypeOK'
  BY DEF TypeOK, Files, Artifact, Request, Tools
<1>2. RequestsInScope'
  BY DEF RequestsInScope, InScope
<1> QED
  BY <1>1, <1>2 DEF Inv

LEMMA InitInv ==
  Init => Inv
<1> SUFFICES ASSUME Init PROVE Inv
  OBVIOUS
<1>1. NoArtifact \in [node : Producers \cup {NoNode}, final : BOOLEAN,
                      status : {"NONE", "READY", "MISSING", "VERIFIED"}]
  BY DEF NoArtifact
<1>2. TypeOK
  BY <1>1, BoundsAreIntegers DEF Init, TypeOK
<1>3. RequestsInScope
  BY DEF Init, RequestsInScope
<1> QED
  BY <1>2, <1>3 DEF Inv

LEMMA AnswersInv ==
  ASSUME Inv, NEW q \in requests, NEW ok \in BOOLEAN, NEW f \in Files, Answers(q, ok, f)
  PROVE  Inv'
<1>1. q \in Request /\ InScope(q)
  BY TypeParts DEF Inv, RequestsInScope
<1>2. q.node \in Nodes
  BY <1>1 DEF Request
<1>3. requests' \subseteq requests /\ requests \subseteq Request
  BY TypeParts DEF Answers, Answered, Inv
<1>4. examined' \in [Nodes -> SUBSET (Readers \X Paths)]
  <2>1. examined \in [Nodes -> SUBSET (Readers \X Paths)]
    BY TypeParts DEF Inv
  <2>2. CASE ok /\ q.awaited /\ q.tool \in Readers
    <3>1. q.source \in Paths
      BY <1>1, <2>2, RequestParts DEF Tools, Readers, Creators, Scripts
    <3>2. examined' = [examined EXCEPT ![q.node] = @ \cup {<<q.tool, q.source>>}]
      BY <2>2 DEF Answers, Answered
    <3> QED
      BY <1>2, <2>1, <2>2, <3>1, <3>2
  <2>3. CASE ~(ok /\ q.awaited /\ q.tool \in Readers)
    BY <2>1, <2>3 DEF Answers, Answered
  <2> QED
    BY <2>2, <2>3
<1>5. writer' \in [Paths -> Nodes \cup {NoNode}]
  BY <1>2, WroteTyped DEF Answers, Inv
<1>6. \A r \in requests' : InScope(r) /\ (r.working => r.tool \in Converters \cup Scripts)
  BY <1>3 DEF Inv, RequestsInScope
<1>7. /\ file' \in Files /\ artifact' = artifact /\ node' = node /\ calls' = calls
      /\ retries' = retries /\ task' = task /\ late' = late
  BY DEF Answers
<1>8. /\ artifact' \in [Paths -> Artifact]
      /\ node' \in [Nodes -> {"PENDING", "READY", "RUNNING", "SUCCEEDED", "FAILED"}]
      /\ calls' \in 0..MaxCalls /\ retries' \in 0..MaxReviewRetries /\ late' \in 0..MaxLate
      /\ task' \in {"EXECUTING", "SUCCEEDED", "FAILED"}
  BY <1>7, TypeParts DEF Inv
<1> QED
  BY <1>3, <1>4, <1>5, <1>6, <1>7, <1>8, InvHolds

(* A request that is made, begun or given up. *)
LEMMA CallInv ==
  ASSUME Inv, NEW n \in Nodes, NEW c \in CallsOf[n], CallTool(n, c)
  PROVE  Inv'
<1>1. /\ calls' = calls + 1 /\ calls < MaxCalls
      /\ UNCHANGED <<file, writer, artifact, node, examined, retries, task, late>>
  BY DEF CallTool, HasBudget
<1> DEFINE r == [id |-> calls + 1, node |-> n, tool |-> c.tool, source |-> c.source,
                 target |-> c.target, granted |-> NeedsApproval(c), working |-> FALSE,
                 awaited |-> TRUE]
<1>2. requests' = requests \cup {r} \/ requests' = requests
  BY DEF CallTool
<1>3. r \in Request /\ InScope(r) /\ ~r.working
  <2>1. /\ c = [tool |-> c.tool, source |-> c.source, target |-> c.target]
        /\ c.tool \in Tools
        /\ c.source \in Readable[n] \cup {NoPath} /\ c.target \in Writable[n] \cup {NoPath}
    BY CallParts
  <2>2. Readable[n] \subseteq Paths /\ Writable[n] \subseteq Paths
    BY Scopes
  <2>3. calls + 1 \in 1..MaxCalls
    BY <1>1, TypeParts, BoundsAreIntegers DEF Inv
  <2>4. NeedsApproval(c) \in BOOLEAN
    BY DEF NeedsApproval
  <2>5. r \in Request
    BY <2>1, <2>2, <2>3, <2>4 DEF Request
  <2> QED
    BY <2>1, <2>5 DEF InScope
<1> HIDE DEF r
<1>4. requests' \subseteq Request
      /\ \A q \in requests' : InScope(q) /\ (q.working => q.tool \in Converters \cup Scripts)
  BY <1>2, <1>3, TypeParts DEF Inv, RequestsInScope
<1>5. calls' \in 0..MaxCalls
  BY <1>1, TypeParts, BoundsAreIntegers DEF Inv
<1>6. /\ file' \in Files /\ writer' \in [Paths -> Nodes \cup {NoNode}]
      /\ artifact' \in [Paths -> Artifact]
      /\ node' \in [Nodes -> {"PENDING", "READY", "RUNNING", "SUCCEEDED", "FAILED"}]
      /\ examined' \in [Nodes -> SUBSET (Readers \X Paths)]
      /\ retries' \in 0..MaxReviewRetries /\ late' \in 0..MaxLate
      /\ task' \in {"EXECUTING", "SUCCEEDED", "FAILED"}
  BY <1>1, TypeParts DEF Inv
<1> QED
  BY <1>4, <1>5, <1>6, InvHolds

LEMMA LaterInv ==
  ASSUME Inv, NEW q \in requests, Begin(q) \/ GiveUpRequest(q)
  PROVE  Inv'
<1>1. q \in Request /\ InScope(q) /\ (q.working => q.tool \in Converters \cup Scripts)
  BY TypeParts DEF Inv, RequestsInScope
<1>2. \E r \in Later(q) : /\ requests' = (requests \ {q}) \cup {r}
                          /\ r.working => r.tool \in Converters \cup Scripts
  <2>1. CASE Begin(q)
    <3> DEFINE r == [q EXCEPT !.working = TRUE]
    <3>1. r.tool \in Converters \cup Scripts
      BY <1>1, <2>1 DEF Begin, Quick, Request
    <3> QED
      BY <2>1, <3>1 DEF Begin, Later
  <2>2. CASE GiveUpRequest(q)
    <3> DEFINE r == [q EXCEPT !.awaited = FALSE]
    <3>1. r.tool = q.tool /\ r.working = q.working
      BY <1>1 DEF Request
    <3> QED
      BY <1>1, <2>2, <3>1 DEF GiveUpRequest, Later
  <2> QED
    BY <2>1, <2>2
<1>3. /\ requests' \subseteq Request
      /\ \A r \in requests' : InScope(r) /\ (r.working => r.tool \in Converters \cup Scripts)
  BY <1>1, <1>2, LaterInScope, TypeParts DEF Inv, RequestsInScope
<1>4. late' \in 0..MaxLate
  BY TypeParts, BoundsAreIntegers DEF Begin, GiveUpRequest, Inv
<1>5. /\ file' \in Files /\ writer' \in [Paths -> Nodes \cup {NoNode}]
      /\ artifact' \in [Paths -> Artifact]
      /\ node' \in [Nodes -> {"PENDING", "READY", "RUNNING", "SUCCEEDED", "FAILED"}]
      /\ examined' \in [Nodes -> SUBSET (Readers \X Paths)]
      /\ calls' \in 0..MaxCalls /\ retries' \in 0..MaxReviewRetries
      /\ task' \in {"EXECUTING", "SUCCEEDED", "FAILED"}
  BY TypeParts DEF Begin, GiveUpRequest, Inv
<1> QED
  BY <1>3, <1>4, <1>5, InvHolds

LEMMA ScriptInv ==
  ASSUME Inv, NEW q \in requests, ScriptWrites(q)
  PROVE  Inv'
<1>1. q.node \in Nodes
  BY TypeParts DEF Inv, Request
<1>2. writer' \in [Paths -> Nodes \cup {NoNode}] /\ file' \in Files
  BY <1>1, ScriptParts, WroteTyped DEF Inv
<1>3. /\ artifact' \in [Paths -> Artifact]
      /\ node' \in [Nodes -> {"PENDING", "READY", "RUNNING", "SUCCEEDED", "FAILED"}]
      /\ requests' \subseteq Request
      /\ examined' \in [Nodes -> SUBSET (Readers \X Paths)]
      /\ calls' \in 0..MaxCalls /\ retries' \in 0..MaxReviewRetries /\ late' \in 0..MaxLate
      /\ task' \in {"EXECUTING", "SUCCEEDED", "FAILED"}
      /\ requests' = requests
  BY ScriptParts, TypeParts DEF Inv
<1>4. \A r \in requests' : InScope(r) /\ (r.working => r.tool \in Converters \cup Scripts)
  BY <1>3 DEF Inv, RequestsInScope
<1> QED
  BY <1>2, <1>3, <1>4, InvHolds

(* The steps that leave files and requests alone. *)
Scheduling ==
  \/ \E n \in Nodes : StartNode(n) \/ NodeFails(n) \/ ProducerEnds(n)
  \/ Review \/ Gate

LEMMA SchedulingLeaves ==
  ASSUME Scheduling
  PROVE  UNCHANGED <<file, writer, requests, examined, calls, late, seen>>
BY DEF Scheduling, StartNode, NodeFails, ProducerEnds, Review, ReviewerPasses, ReviewerReworks,
   Gate, GatePasses, GateSendsBack, GateFails

LEMMA RegisteredParts ==
  ASSUME TypeOK, NEW n \in Producers
  PROVE  /\ Registered(n) \in [Paths -> Artifact]
         /\ \A p \in Paths : Registered(n)[p] # artifact[p] => p \in Own("output", n)
<1>1. artifact \in [Paths -> Artifact]
  BY TypeParts
<1>2. \A p \in Paths : artifact[p].node \in Producers \cup {NoNode}
  BY <1>1 DEF Artifact
<1>3. NoArtifact \in Artifact
  BY DEF NoArtifact, Artifact
<1>4. \A p \in Paths : Requested(p) \in BOOLEAN
  BY DEF Requested
<1>5. Registered(n) \in [Paths -> Artifact]
  <2>1. \A p \in Paths : Registered(n)[p] \in Artifact
    <3> TAKE p \in Paths
    <3>1. \/ Registered(n)[p] = artifact[p]
          \/ Registered(n)[p] = [node |-> n, final |-> Requested(p), status |-> "READY"]
          \/ Registered(n)[p] = [node |-> artifact[p].node, final |-> FALSE, status |-> "MISSING"]
          \/ Registered(n)[p] = NoArtifact
      BY DEF Registered
    <3>2. artifact[p] \in Artifact
      BY <1>1
    <3>3. [node |-> n, final |-> Requested(p), status |-> "READY"] \in Artifact
      BY <1>4 DEF Artifact
    <3>4. [node |-> artifact[p].node, final |-> FALSE, status |-> "MISSING"] \in Artifact
      BY <1>2 DEF Artifact
    <3> QED
      BY <1>3, <3>1, <3>2, <3>3, <3>4
  <2> QED
    BY <2>1 DEF Registered
<1>6. \A p \in Paths : Registered(n)[p] # artifact[p] => p \in Own("output", n)
  BY DEF Registered
<1> QED
  BY <1>5, <1>6

LEMMA MarkedParts ==
  ASSUME TypeOK
  PROVE  /\ MarkedVerified \in [Paths -> Artifact]
         /\ \A p \in Paths : /\ MarkedVerified[p].node = artifact[p].node
                             /\ MarkedVerified[p].final = artifact[p].final
                             /\ MarkedVerified[p].status = "VERIFIED" =>
                                  p \in Verified \/ artifact[p].status = "VERIFIED"
<1>1. \A p \in Paths : artifact[p] \in Artifact
  BY TypeParts
<1>2. ASSUME NEW p \in Paths
      PROVE  /\ MarkedVerified[p] \in Artifact
             /\ MarkedVerified[p].node = artifact[p].node
             /\ MarkedVerified[p].final = artifact[p].final
             /\ MarkedVerified[p].status = "VERIFIED" =>
                  p \in Verified \/ artifact[p].status = "VERIFIED"
  <2>1. CASE p \in Verified
    <3>1. MarkedVerified[p] = [artifact[p] EXCEPT !.status = "VERIFIED"]
      BY <2>1 DEF MarkedVerified
    <3> QED
      BY <1>1, <2>1, <3>1 DEF Artifact
  <2>2. CASE p \notin Verified
    BY <1>1, <2>2 DEF MarkedVerified
  <2> QED
    BY <2>1, <2>2
<1> QED
  BY <1>2 DEF MarkedVerified

LEMMA SchedulingInv ==
  ASSUME Inv, Scheduling
  PROVE  Inv'
<1>0. TypeOK /\ node \in [Nodes -> {"PENDING", "READY", "RUNNING", "SUCCEEDED", "FAILED"}]
      /\ artifact \in [Paths -> Artifact]
      /\ retries \in 0..MaxReviewRetries /\ task \in {"EXECUTING", "SUCCEEDED", "FAILED"}
  BY TypeParts DEF Inv
<1>1. SentBack \in [Nodes -> {"PENDING", "READY", "RUNNING", "SUCCEEDED", "FAILED"}]
  BY <1>0 DEF SentBack
<1>2. node' \in [Nodes -> {"PENDING", "READY", "RUNNING", "SUCCEEDED", "FAILED"}]
  <2>1. \/ node' = node \/ node' = SentBack
        \/ \E n \in Nodes, s \in {"READY", "RUNNING", "SUCCEEDED", "FAILED"} :
             node' = [node EXCEPT ![n] = s]
    BY DEF Scheduling, StartNode, NodeFails, ProducerEnds, Review, ReviewerPasses, ReviewerReworks,
       Gate, GatePasses, GateSendsBack, GateFails, Nodes
  <2> QED
    BY <1>0, <1>1, <2>1
<1>3. artifact' \in [Paths -> Artifact]
  <2>1. \/ artifact' = artifact \/ artifact' = MarkedVerified
        \/ \E n \in Producers : artifact' = Registered(n)
    BY DEF Scheduling, StartNode, NodeFails, ProducerEnds, Review, ReviewerPasses, ReviewerReworks,
       Gate, GatePasses, GateSendsBack, GateFails
  <2> QED
    BY <1>0, <2>1, RegisteredParts, MarkedParts
<1>4. retries' \in 0..MaxReviewRetries
  <2>1. retries' = retries \/ (retries < MaxReviewRetries /\ retries' = retries + 1)
    BY DEF Scheduling, StartNode, NodeFails, ProducerEnds, Review, ReviewerPasses, ReviewerReworks,
       Gate, GatePasses, GateSendsBack, GateFails, Counted, MayRework
  <2> QED
    BY <1>0, <2>1, BoundsAreIntegers
<1>5. task' \in {"EXECUTING", "SUCCEEDED", "FAILED"}
  <2>1. task' \in {task, "SUCCEEDED", "FAILED"}
    BY DEF Scheduling, StartNode, NodeFails, ProducerEnds, Review, ReviewerPasses, ReviewerReworks,
       Gate, GatePasses, GateSendsBack, GateFails
  <2> QED
    BY <1>0, <2>1
<1>6. /\ file' \in Files /\ writer' \in [Paths -> Nodes \cup {NoNode}]
      /\ requests' \subseteq Request
      /\ examined' \in [Nodes -> SUBSET (Readers \X Paths)]
      /\ calls' \in 0..MaxCalls /\ late' \in 0..MaxLate
  BY SchedulingLeaves, TypeParts DEF Inv
<1>7. \A r \in requests' : InScope(r) /\ (r.working => r.tool \in Converters \cup Scripts)
  BY SchedulingLeaves DEF Inv, RequestsInScope
<1> QED
  BY <1>2, <1>3, <1>4, <1>5, <1>6, <1>7, InvHolds

LEMMA NextIs ==
  ASSUME Next
  PROVE  \/ Scheduling
         \/ \E n \in Nodes : \E c \in CallsOf[n] : CallTool(n, c)
         \/ \E q \in requests : Execute(q) \/ End(q)
         \/ \E q \in requests : Begin(q) \/ GiveUpRequest(q)
         \/ \E q \in requests : ScriptWrites(q)
BY DEF Next, Agent, Serve, Scheduling

LEMMA StepInv ==
  Inv /\ [Next]_vars => Inv'
<1> SUFFICES ASSUME Inv, [Next]_vars PROVE Inv'
  OBVIOUS
<1>1. CASE UNCHANGED vars
  BY <1>1 DEF vars, Inv, TypeOK, RequestsInScope, InScope
<1>2. CASE Next
  BY <1>2, NextIs, SchedulingInv, CallInv, ServedAnswers, AnswersInv, LaterInv, ScriptInv
<1> QED
  BY <1>1, <1>2

(* Files, artifacts, nodes and requests keep their types, and the counts   *)
(* of calls, reworks and given-up requests their bounds: Delivery.TypeOK.  *)
THEOREM TypeCorrect == Spec => []TypeOK
<1>1. Inv => TypeOK
  BY DEF Inv
<1> QED
  BY <1>1, InitInv, StepInv, PTL DEF Spec

-----------------------------------------------------------------------------
(* Directories of their own. *)
LEMMA OwnDirectories ==
  ASSUME Cardinality(Producers) > 1, NEW n \in Nodes
  PROVE  /\ \A p \in Writable[n] : Owner[p] = n /\ (n = Reviewer => Area[p] = "workspace")
         /\ \A p \in Own("output", n) : Owner[p] = n
<1>1. Isolated(n)
  BY DEF Isolated, Nodes
<1>2. \A a \in Areas : Own(a, n) = {p \in All(a) : Owner[p] = n}
  BY <1>1 DEF Own
<1>3. \A p \in Writable[n] : Owner[p] = n /\ (n = Reviewer => Area[p] = "workspace")
  BY <1>2 DEF Writable, Areas, All
<1> QED
  BY <1>2, <1>3 DEF Areas

LEMMA WriterStep ==
  ASSUME Inv, [Next]_vars, NEW p \in Paths, writer'[p] # writer[p]
  PROVE  \E n \in Nodes : p \in Writable[n] /\ writer'[p] = n
<1>1. \E q \in requests : /\ writer' = Wrote(q.node, file')
                          /\ file'[p] # file[p] => p \in Writable[q.node]
  <2>1. CASE UNCHANGED vars
    BY <2>1 DEF vars
  <2>2. CASE Scheduling
    BY <2>2, SchedulingLeaves
  <2>3. CASE \E n \in Nodes : \E c \in CallsOf[n] : CallTool(n, c)
    BY <2>3 DEF CallTool
  <2>4. CASE \E q \in requests : Execute(q) \/ End(q)
    BY <2>4, ServedAnswers DEF Answers
  <2>5. CASE \E q \in requests : Begin(q) \/ GiveUpRequest(q)
    BY <2>5 DEF Begin, GiveUpRequest
  <2>6. CASE \E q \in requests : ScriptWrites(q)
    BY <2>6, ScriptParts
  <2> QED
    BY <2>1, <2>2, <2>3, <2>4, <2>5, <2>6, NextIs
<1>2. PICK q \in requests : /\ writer' = Wrote(q.node, file')
                            /\ file'[p] # file[p] => p \in Writable[q.node]
  BY <1>1
<1>3. q.node \in Nodes
  BY TypeParts DEF Inv, Request
<1>4. file'[p] # file[p] /\ writer'[p] = q.node
  BY <1>2 DEF Wrote
<1> QED
  BY <1>2, <1>3, <1>4

LEMMA ArtifactStep ==
  ASSUME Inv, [Next]_vars
  PROVE  \/ UNCHANGED artifact
         \/ \E n \in Producers : /\ ProducerEnds(n) /\ artifact' = Registered(n)
         \/ GatePasses /\ artifact' = MarkedVerified
<1>1. CASE UNCHANGED vars
  BY <1>1 DEF vars
<1>2. CASE Scheduling
  BY <1>2 DEF Scheduling, StartNode, NodeFails, ProducerEnds, Review, ReviewerPasses, ReviewerReworks,
     Gate, GatePasses, GateSendsBack, GateFails
<1>3. CASE \E n \in Nodes : \E c \in CallsOf[n] : CallTool(n, c)
  BY <1>3 DEF CallTool
<1>4. CASE \E q \in requests : Execute(q) \/ End(q)
  BY <1>4, ServedAnswers DEF Answers
<1>5. CASE \E q \in requests : Begin(q) \/ GiveUpRequest(q)
  BY <1>5 DEF Begin, GiveUpRequest
<1>6. CASE \E q \in requests : ScriptWrites(q)
  BY <1>6, ScriptParts
<1> QED
  BY <1>1, <1>2, <1>3, <1>4, <1>5, <1>6, NextIs

LEMMA InitOwn ==
  Init => EachWritesItsOwn
BY NodesAreDistinct DEF Init, EachWritesItsOwn, NoArtifact, Nodes

LEMMA StepOwn ==
  Inv /\ EachWritesItsOwn /\ [Next]_vars => EachWritesItsOwn'
<1> SUFFICES ASSUME Inv, EachWritesItsOwn, [Next]_vars, Cardinality(Producers) > 1,
                    NEW p \in Paths
             PROVE  /\ writer'[p] \in {NoNode, Owner[p]}
                    /\ artifact'[p].node \in {NoNode, Owner[p]}
                    /\ writer'[p] = Reviewer => Area[p] = "workspace"
  BY DEF EachWritesItsOwn
<1>1. /\ writer[p] \in {NoNode, Owner[p]}
      /\ artifact[p].node \in {NoNode, Owner[p]}
      /\ writer[p] = Reviewer => Area[p] = "workspace"
  BY DEF EachWritesItsOwn
<1>2. /\ writer'[p] \in {NoNode, Owner[p]}
      /\ writer'[p] = Reviewer => Area[p] = "workspace"
  <2>1. CASE writer'[p] = writer[p]
    BY <1>1, <2>1
  <2>2. CASE writer'[p] # writer[p]
    BY <2>2, WriterStep, OwnDirectories
  <2> QED
    BY <2>1, <2>2
<1>3. artifact'[p].node \in {NoNode, Owner[p]}
  <2>1. CASE UNCHANGED artifact
    BY <1>1, <2>1
  <2>2. ASSUME NEW n \in Producers, artifact' = Registered(n)
        PROVE  artifact'[p].node \in {NoNode, Owner[p]}
    <3>1. CASE p \notin Own("output", n)
      BY <1>1, <2>2, <3>1 DEF Registered
    <3>2. CASE p \in Own("output", n)
      <4>1. Owner[p] = n
        BY <3>2, OwnDirectories DEF Nodes
      <4>2. artifact'[p].node \in {n, artifact[p].node, NoNode}
        BY <2>2, <3>2 DEF Registered, NoArtifact
      <4> QED
        BY <1>1, <4>1, <4>2
    <3> QED
      BY <3>1, <3>2
  <2>3. CASE artifact' = MarkedVerified
    BY <1>1, <2>3, MarkedParts DEF Inv
  <2> QED
    BY <2>1, <2>2, <2>3, ArtifactStep
<1> QED
  BY <1>2, <1>3

(* With several producers, each changes and registers only what is in its  *)
(* own directories, and the reviewer only its workspace, whatever request  *)
(* the Runner still executes: Delivery.EachWritesItsOwn.                   *)
THEOREM OwnFilesCorrect == Spec => []EachWritesItsOwn
BY InitInv, StepInv, InitOwn, StepOwn, PTL DEF Spec

-----------------------------------------------------------------------------
LEMMA StepAsked ==
  ASSUME Inv, [Next]_vars
  PROVE  \A p \in Paths : file[p] # Absent /\ file'[p] # file[p] =>
           \/ \E q \in requests \ requests' : q.granted \/ ~Quick(q)
           \/ \E q \in requests : q.working /\ q.tool \in Scripts /\ p \in Writable[q.node]
<1> SUFFICES ASSUME NEW p \in Paths, file[p] # Absent, file'[p] # file[p]
             PROVE  \/ \E q \in requests \ requests' : q.granted \/ ~Quick(q)
                    \/ \E q \in requests : q.working /\ q.tool \in Scripts /\ p \in Writable[q.node]
  OBVIOUS
<1>1. CASE UNCHANGED vars
  BY <1>1 DEF vars
<1>2. CASE Scheduling
  BY <1>2, SchedulingLeaves
<1>3. CASE \E n \in Nodes : \E c \in CallsOf[n] : CallTool(n, c)
  BY <1>3 DEF CallTool
<1>4. ASSUME NEW q \in requests, Execute(q) \/ End(q)
      PROVE  \E r \in requests \ requests' : r.granted \/ ~Quick(r)
  <2>1. PICK ok \in BOOLEAN, f \in Files : Answers(q, ok, f)
    BY <1>4, ServedAnswers
  <2> QED
    BY <2>1 DEF Answers, Answered
<1>5. CASE \E q \in requests : Begin(q) \/ GiveUpRequest(q)
  BY <1>5 DEF Begin, GiveUpRequest
<1>6. CASE \E q \in requests : ScriptWrites(q)
  BY <1>6, ScriptParts
<1> QED
  BY <1>1, <1>2, <1>3, <1>4, <1>5, <1>6, NextIs

(* No tool but a script or a conversion overwrites or removes a file       *)
(* without the user's consent, however long its request waited in the      *)
(* Runner: Delivery.OverwritingIsAsked.                                    *)
THEOREM ConsentCorrect == Spec => OverwritingIsAsked
BY InitInv, StepInv, StepAsked, PTL DEF Spec, OverwritingIsAsked

-----------------------------------------------------------------------------
LEMMA OnlyGatePasses ==
  ASSUME [Next]_vars, task # "SUCCEEDED", task' = "SUCCEEDED"
  PROVE  GatePasses
<1>1. ~UNCHANGED task
  OBVIOUS
<1>2. ~\E q \in requests : Execute(q) \/ End(q) \/ Begin(q) \/ GiveUpRequest(q) \/ ScriptWrites(q)
  BY <1>1 DEF Execute, End, Begin, GiveUpRequest, ScriptWrites
<1>3. ~\E n \in Nodes : \E c \in CallsOf[n] : CallTool(n, c)
  BY <1>1 DEF CallTool
<1>4. ~UNCHANGED vars
  BY <1>1 DEF vars
<1>5. Scheduling
  BY <1>2, <1>3, <1>4, NextIs
<1> QED
  BY <1>5 DEF Scheduling, StartNode, NodeFails, ProducerEnds, Review, ReviewerPasses, ReviewerReworks,
     Gate, GateSendsBack, GateFails

LEMMA StepDelivered ==
  ASSUME Inv, [Next]_vars, task # "SUCCEEDED", task' = "SUCCEEDED"
  PROVE  LET delivered == {p \in Paths : artifact[p].final}
             there == {p \in delivered : file[p] # Absent /\ file[p] # "empty"}
         IN  /\ delivered \subseteq there
             /\ Formats \subseteq {Kind[p] : p \in there}
             /\ Cardinality(there) >= MinFiles
<1> DEFINE delivered == {p \in Paths : artifact[p].final}
           there == {p \in delivered : file[p] # Absent /\ file[p] # "empty"}
           asked == {p \in Valid : Requested(p)}
<1>1. ~ProducerIssues
  BY OnlyGatePasses DEF GatePasses
<1>2. delivered = Finals /\ there = Valid
  BY DEF Finals, Valid
<1>3. Valid = Finals
  BY <1>1 DEF ProducerIssues
<1>4. Formats \subseteq {Kind[p] : p \in there}
  BY <1>1, <1>2, <1>3 DEF ProducerIssues
<1>5. Cardinality(there) >= MinFiles
  <2>1. ~(Cardinality(asked) < MinFiles)
    BY <1>1 DEF ProducerIssues
  <2>2. there \subseteq Paths /\ asked \subseteq there
    BY <1>2
  <2> HIDE DEF there, asked
  <2>3. IsFiniteSet(there)
    BY <2>2, PathsAreFinite, FS_Subset
  <2>4. Cardinality(there) \in Nat /\ Cardinality(asked) \in Nat
        /\ Cardinality(asked) <= Cardinality(there)
    BY <2>2, <2>3, FS_Subset, FS_CardinalityType
  <2> QED
    BY <2>1, <2>4, BoundsAreIntegers
<1> QED
  BY <1>2, <1>3, <1>4, <1>5

(* A task succeeds only with files that are there, of every format and in  *)
(* the number asked for: Delivery.DeliveredFilesExist.                     *)
THEOREM DeliveredCorrect == Spec => DeliveredFilesExist
<1>1. Inv /\ [Next]_vars =>
        [task # "SUCCEEDED" /\ task' = "SUCCEEDED" =>
           LET delivered == {p \in Paths : artifact[p].final}
               there == {p \in delivered : file[p] # Absent /\ file[p] # "empty"}
           IN  /\ delivered \subseteq there
               /\ Formats \subseteq {Kind[p] : p \in there}
               /\ Cardinality(there) >= MinFiles]_vars
  BY StepDelivered
<1> QED
  BY <1>1, InitInv, StepInv, PTL DEF Spec, DeliveredFilesExist

-----------------------------------------------------------------------------
(* The first review: while nothing has been sent back and no request given *)
(* up, a node that has begun has its dependencies behind it, only running  *)
(* nodes have requests, and what the reviewer has looked at is as it was.  *)
First == retries = 0 /\ late = 0 /\ task # "FAILED"

InOrder ==
  \A n \in Nodes : /\ node[n] \in {"PENDING", "RUNNING", "SUCCEEDED"}
                   /\ node[n] # "PENDING" => Unblocked(n)
RequestsOfRunning == \A q \in requests : q.awaited /\ node[q.node] = "RUNNING"
OutputsOnly ==
  \A p \in Paths : artifact[p].final \/ artifact[p].status = "VERIFIED" => Area[p] = "output"
ReviewerHasSeen ==
  \A tool \in Readers, p \in Paths : <<tool, p>> \in examined[Reviewer] =>
    /\ node[Reviewer] # "PENDING"
    /\ Area[p] = "output" => <<p, file[p]>> \in seen
VerifiedAtTheEnd ==
  /\ task = "SUCCEEDED" => \A n \in Nodes : node[n] = "SUCCEEDED"
  /\ \A p \in Paths : artifact[p].status = "VERIFIED" =>
       task = "SUCCEEDED" /\ \E tool \in Readers : <<tool, p>> \in examined[Reviewer]

FirstReview ==
  First => InOrder /\ RequestsOfRunning /\ OutputsOnly /\ ReviewerHasSeen /\ VerifiedAtTheEnd

LEMMA ReviewerIsNode ==
  Reviewer \in Nodes /\ Producers \subseteq Nodes
BY DEF Nodes

(* When the reviewer has begun, every producer is done. *)
LEMMA AllProduced ==
  ASSUME TypeOK, InOrder, node[Reviewer] # "PENDING"
  PROVE  \A m \in Producers : node[m] = "SUCCEEDED"
<1> DEFINE done == {m \in Producers : node[m] = "SUCCEEDED"}
<1>1. DependsOn[Reviewer] \subseteq done
  BY ReviewerIsNode, PathsAreTyped DEF InOrder, Unblocked
<1>2. \A n \in done : DependsOn[n] \subseteq done
  BY ReviewerIsNode, PathsAreTyped DEF InOrder, Unblocked
<1>3. done \in SUBSET Producers
  OBVIOUS
<1>4. done = Producers
  BY <1>1, <1>2, <1>3, ReviewComesLast
<1> QED
  BY <1>4

(* Then only the reviewer's requests are left, which leave output alone.   *)
LEMMA ReviewLeavesOutput ==
  ASSUME Inv, InOrder, RequestsOfRunning, node[Reviewer] # "PENDING",
         NEW q \in requests, NEW p \in Paths, p \in Writable[q.node]
  PROVE  Area[p] = "workspace"
<1>1. q.node \in Nodes /\ node[q.node] = "RUNNING"
  BY TypeParts DEF Inv, Request, RequestsOfRunning
<1>2. q.node = Reviewer
  BY <1>1, AllProduced DEF Inv, Nodes
<1> QED
  BY <1>2, ReviewerIsNode DEF Writable, Own, All

LEMMA InitFirst ==
  Init => FirstReview
<1> SUFFICES ASSUME Init PROVE FirstReview
  OBVIOUS
<1>1. InOrder /\ RequestsOfRunning
  BY DEF Init, InOrder, RequestsOfRunning
<1>2. OutputsOnly /\ VerifiedAtTheEnd
  BY DEF Init, OutputsOnly, VerifiedAtTheEnd, NoArtifact
<1>3. ReviewerHasSeen
  BY ReviewerIsNode DEF Init, ReviewerHasSeen
<1> QED
  BY <1>1, <1>2, <1>3 DEF FirstReview

LEMMA FirstBefore ==
  ASSUME Inv, [Next]_vars, First'
  PROVE  First /\ retries' = retries /\ late' = late
<1>1. retries \in Nat /\ late \in Nat
  BY TypeParts, BoundsAreIntegers DEF Inv
<1>2. /\ retries' = retries \/ retries' = retries + 1
      /\ late' = late \/ late' = late + 1
      /\ task = "FAILED" => task' = "FAILED"
  <2>1. CASE UNCHANGED vars
    BY <2>1 DEF vars
  <2>2. CASE Scheduling
    BY <2>2 DEF Scheduling, StartNode, NodeFails, ProducerEnds, Review, ReviewerPasses,
       ReviewerReworks, Gate, GatePasses, GateSendsBack, GateFails, Counted, Runs, AllSucceeded
  <2>3. CASE \E n \in Nodes : \E c \in CallsOf[n] : CallTool(n, c)
    BY <2>3 DEF CallTool
  <2>4. CASE \E q \in requests : Execute(q) \/ End(q)
    BY <2>4, ServedAnswers DEF Answers
  <2>5. CASE \E q \in requests : Begin(q) \/ GiveUpRequest(q)
    BY <2>5 DEF Begin, GiveUpRequest
  <2>6. CASE \E q \in requests : ScriptWrites(q)
    BY <2>6, ScriptParts
  <2> QED
    BY <2>1, <2>2, <2>3, <2>4, <2>5, <2>6, NextIs
<1> QED
  BY <1>1, <1>2 DEF First

(* A node that goes on from where InOrder allows it to. *)
LEMMA OrderKept ==
  ASSUME TypeOK, InOrder, NEW n \in Nodes, NEW s \in {"RUNNING", "SUCCEEDED"},
         node' = [node EXCEPT ![n] = s],
         node[n] # "SUCCEEDED", node[n] = "PENDING" => Unblocked(n)
  PROVE  InOrder'
<1>1. node \in [Nodes -> {"PENDING", "READY", "RUNNING", "SUCCEEDED", "FAILED"}]
  BY TypeParts
<1>2. \A m \in Nodes : node[m] = "SUCCEEDED" => node'[m] = "SUCCEEDED"
  BY <1>1
<1>3. \A m \in Nodes : DependsOn[m] \subseteq Nodes
  BY ReviewerIsNode, PathsAreTyped
<1>4. \A m \in Nodes : node'[m] # "PENDING" => Unblocked(m)
  BY <1>1 DEF InOrder
<1>5. \A m \in Nodes : Unblocked(m) => Unblocked(m)'
  BY <1>2, <1>3 DEF Unblocked
<1>6. \A m \in Nodes : node'[m] \in {"PENDING", "RUNNING", "SUCCEEDED"}
  BY <1>1 DEF InOrder
<1> QED
  BY <1>4, <1>5, <1>6 DEF InOrder

LEMMA StartFirst ==
  ASSUME Inv, First, FirstReview, NEW n \in Nodes, StartNode(n)
  PROVE  FirstReview'
<1>0. /\ InOrder /\ RequestsOfRunning /\ OutputsOnly /\ ReviewerHasSeen /\ VerifiedAtTheEnd
      /\ node \in [Nodes -> {"PENDING", "READY", "RUNNING", "SUCCEEDED", "FAILED"}]
  BY TypeParts DEF FirstReview, Inv
<1>1. /\ node' = [node EXCEPT ![n] = "RUNNING"] /\ task' = "EXECUTING" /\ task = "EXECUTING"
      /\ UNCHANGED <<file, artifact, requests, examined, seen>>
  BY DEF StartNode
<1>2. node[n] = "PENDING" /\ Unblocked(n)
  BY <1>0 DEF StartNode, InOrder
<1>3. InOrder'
  BY <1>0, <1>1, <1>2, OrderKept DEF Inv
<1>4. RequestsOfRunning'
  BY <1>0, <1>1, TypeParts DEF RequestsOfRunning, Inv, Request
<1>5. OutputsOnly' /\ VerifiedAtTheEnd'
  BY <1>0, <1>1 DEF OutputsOnly, VerifiedAtTheEnd
<1>6. ReviewerHasSeen'
  BY <1>0, <1>1, ReviewerIsNode DEF ReviewerHasSeen
<1> QED
  BY <1>3, <1>4, <1>5, <1>6 DEF FirstReview

LEMMA EndsFirst ==
  ASSUME Inv, First, FirstReview, NEW n \in Nodes, Runs(n),
         node' = [node EXCEPT ![n] = "SUCCEEDED"],
         artifact' = artifact \/ (n \in Producers /\ artifact' = Registered(n)),
         UNCHANGED <<file, requests, examined, task, seen>>
  PROVE  FirstReview'
<1>0. /\ InOrder /\ RequestsOfRunning /\ OutputsOnly /\ ReviewerHasSeen /\ VerifiedAtTheEnd
      /\ node \in [Nodes -> {"PENDING", "READY", "RUNNING", "SUCCEEDED", "FAILED"}]
  BY TypeParts DEF FirstReview, Inv
<1>1. task = "EXECUTING" /\ node[n] = "RUNNING" /\ ~Awaits(n)
  BY DEF Runs
<1>2. InOrder'
  BY <1>0, <1>1, OrderKept DEF Inv
<1>3. RequestsOfRunning'
  BY <1>0, <1>1, TypeParts DEF RequestsOfRunning, Inv, Request, Awaits
<1>4. ReviewerHasSeen'
  BY <1>0, ReviewerIsNode DEF ReviewerHasSeen
<1>5. \A p \in Paths : /\ artifact'[p].final => Area[p] = "output"
                       /\ artifact'[p].status # "VERIFIED"
  <2>1. \A p \in Paths : artifact[p].status # "VERIFIED"
    BY <1>0, <1>1 DEF VerifiedAtTheEnd
  <2>2. CASE artifact' = artifact
    BY <1>0, <2>1, <2>2 DEF OutputsOnly
  <2>3. ASSUME n \in Producers, artifact' = Registered(n), NEW p \in Paths
        PROVE  /\ artifact'[p].final => Area[p] = "output"
               /\ artifact'[p].status # "VERIFIED"
    <3>1. CASE p \notin Own("output", n)
      BY <1>0, <2>1, <2>3, <3>1 DEF Registered, OutputsOnly
    <3>2. CASE p \in Own("output", n)
      <4>1. Area[p] = "output"
        BY <3>2, Scopes DEF Areas, All
      <4>2. artifact'[p].status \in {"READY", "MISSING", "NONE"}
        BY <2>3, <3>2 DEF Registered, NoArtifact
      <4> QED
        BY <4>1, <4>2
    <3> QED
      BY <3>1, <3>2
  <2> QED
    BY <2>2, <2>3
<1>6. OutputsOnly' /\ VerifiedAtTheEnd'
  BY <1>1, <1>5 DEF OutputsOnly, VerifiedAtTheEnd
<1> QED
  BY <1>2, <1>3, <1>4, <1>6 DEF FirstReview

LEMMA GateFirst ==
  ASSUME Inv, First, FirstReview, GatePasses
  PROVE  FirstReview'
<1>0. InOrder /\ RequestsOfRunning /\ OutputsOnly /\ ReviewerHasSeen /\ VerifiedAtTheEnd
  BY DEF FirstReview
<1>1. /\ \A n \in Nodes : node[n] = "SUCCEEDED"
      /\ task' = "SUCCEEDED" /\ artifact' = MarkedVerified
      /\ UNCHANGED <<file, requests, node, examined, seen>>
  BY DEF GatePasses, AllSucceeded
<1>2. InOrder' /\ RequestsOfRunning' /\ ReviewerHasSeen'
  BY <1>0, <1>1 DEF InOrder, Unblocked, RequestsOfRunning, ReviewerHasSeen
<1>3. \A p \in Verified : /\ p \in Paths /\ artifact[p].final
                          /\ \E tool \in Readers : <<tool, p>> \in examined[Reviewer]
  BY DEF Verified, Valid, Finals
<1>4. OutputsOnly'
  BY <1>0, <1>1, <1>3, MarkedParts DEF OutputsOnly, Inv
<1>5. VerifiedAtTheEnd'
  BY <1>0, <1>1, <1>3, MarkedParts DEF VerifiedAtTheEnd, Inv
<1> QED
  BY <1>2, <1>4, <1>5 DEF FirstReview

LEMMA SchedulingFirst ==
  ASSUME Inv, First, First', FirstReview, retries' = retries, Scheduling
  PROVE  FirstReview'
<1>1. retries \in Nat /\ retries # retries + 1
  BY TypeParts, BoundsAreIntegers DEF Inv
<1>2. \/ \E n \in Nodes : StartNode(n)
      \/ \E n \in Producers : ProducerEnds(n)
      \/ ReviewerPasses \/ GatePasses
  BY <1>1 DEF Scheduling, NodeFails, ProducerEnds, Review, ReviewerReworks,
     Gate, GateSendsBack, GateFails, Counted, First
<1>3. ASSUME NEW n \in Producers, ProducerEnds(n)
      PROVE  FirstReview'
  <2>1. /\ Runs(n) /\ node' = [node EXCEPT ![n] = "SUCCEEDED"] /\ artifact' = Registered(n)
        /\ UNCHANGED <<file, requests, examined, task, seen>>
    BY <1>3 DEF ProducerEnds
  <2> QED
    BY <2>1, EndsFirst, ReviewerIsNode
<1>4. CASE ReviewerPasses
  <2>1. /\ Runs(Reviewer) /\ node' = [node EXCEPT ![Reviewer] = "SUCCEEDED"] /\ artifact' = artifact
        /\ UNCHANGED <<file, requests, examined, task, seen>>
    BY <1>4 DEF ReviewerPasses
  <2> QED
    BY <2>1, EndsFirst, ReviewerIsNode
<1> QED
  BY <1>2, <1>3, <1>4, StartFirst, GateFirst

LEMMA CallFirst ==
  ASSUME Inv, First, FirstReview, NEW n \in Nodes, NEW c \in CallsOf[n], CallTool(n, c)
  PROVE  FirstReview'
<1>0. InOrder /\ RequestsOfRunning /\ OutputsOnly /\ ReviewerHasSeen /\ VerifiedAtTheEnd
  BY DEF FirstReview
<1>1. /\ node[n] = "RUNNING"
      /\ UNCHANGED <<file, artifact, node, examined, task, seen>>
      /\ \A q \in requests' : q \in requests \/ (q.node = n /\ q.awaited)
  BY DEF CallTool, Runs
<1>2. InOrder' /\ OutputsOnly' /\ ReviewerHasSeen' /\ VerifiedAtTheEnd'
  BY <1>0, <1>1 DEF InOrder, Unblocked, OutputsOnly, ReviewerHasSeen, VerifiedAtTheEnd
<1>3. RequestsOfRunning'
  BY <1>0, <1>1 DEF RequestsOfRunning
<1> QED
  BY <1>2, <1>3 DEF FirstReview

LEMMA BeginFirst ==
  ASSUME Inv, First, FirstReview, NEW q \in requests, Begin(q)
  PROVE  FirstReview'
<1>0. InOrder /\ RequestsOfRunning /\ OutputsOnly /\ ReviewerHasSeen /\ VerifiedAtTheEnd
  BY DEF FirstReview
<1>1. /\ UNCHANGED <<file, artifact, node, examined, task, seen>>
      /\ requests' = (requests \ {q}) \cup {[q EXCEPT !.working = TRUE]}
  BY DEF Begin
<1>2. q.awaited /\ node[q.node] = "RUNNING" /\ q \in Request
  BY <1>0, TypeParts DEF RequestsOfRunning, Inv
<1>3. InOrder' /\ OutputsOnly' /\ ReviewerHasSeen' /\ VerifiedAtTheEnd'
  BY <1>0, <1>1 DEF InOrder, Unblocked, OutputsOnly, ReviewerHasSeen, VerifiedAtTheEnd
<1>4. RequestsOfRunning'
  <2> DEFINE r == [q EXCEPT !.working = TRUE]
  <2>1. r.awaited = q.awaited /\ r.node = q.node
    BY <1>2 DEF Request
  <2> QED
    BY <1>0, <1>1, <1>2, <2>1 DEF RequestsOfRunning
<1> QED
  BY <1>3, <1>4 DEF FirstReview

(* A step that writes files in the scope of a request's node. *)
LEMMA WriteFirst ==
  ASSUME Inv, First, FirstReview, NEW q \in requests, requests' \subseteq requests,
         \A p \in Paths : file'[p] # file[p] => p \in Writable[q.node],
         UNCHANGED <<artifact, node, task>>,
         \A tool \in Readers, p \in Paths : <<tool, p>> \in examined'[Reviewer] =>
           \/ <<tool, p>> \in examined[Reviewer]
           \/ q.node = Reviewer /\ file' = file /\ <<p, file[p]>> \in seen',
         examined[Reviewer] \subseteq examined'[Reviewer], seen \subseteq seen'
  PROVE  FirstReview'
<1>0. InOrder /\ RequestsOfRunning /\ OutputsOnly /\ ReviewerHasSeen /\ VerifiedAtTheEnd
  BY DEF FirstReview
<1>1. InOrder' /\ OutputsOnly' /\ RequestsOfRunning'
  BY <1>0 DEF InOrder, Unblocked, OutputsOnly, RequestsOfRunning
<1>2. node[q.node] = "RUNNING" /\ q.node \in Nodes
  BY <1>0, TypeParts DEF RequestsOfRunning, Inv, Request
<1>3. VerifiedAtTheEnd'
  BY <1>0 DEF VerifiedAtTheEnd
<1>4. ASSUME NEW tool \in Readers, NEW p \in Paths, <<tool, p>> \in examined'[Reviewer]
      PROVE  /\ node'[Reviewer] # "PENDING"
             /\ Area[p] = "output" => <<p, file'[p]>> \in seen'
  <2>1. CASE <<tool, p>> \in examined[Reviewer]
    <3>1. node[Reviewer] # "PENDING" /\ (Area[p] = "output" => <<p, file[p]>> \in seen)
      BY <1>0, <2>1 DEF ReviewerHasSeen
    <3>2. Area[p] = "output" => file'[p] = file[p]
      BY <1>0, <3>1, ReviewLeavesOutput
    <3> QED
      BY <3>1, <3>2
  <2>2. CASE q.node = Reviewer /\ file' = file /\ <<p, file[p]>> \in seen'
    BY <1>2, <2>2
  <2> QED
    BY <1>4, <2>1, <2>2
<1>5. ReviewerHasSeen'
  BY <1>4 DEF ReviewerHasSeen
<1> QED
  BY <1>1, <1>3, <1>5 DEF FirstReview

LEMMA AnswersFirst ==
  ASSUME Inv, First, FirstReview, NEW q \in requests, NEW ok \in BOOLEAN, NEW f \in Files,
         Answers(q, ok, f)
  PROVE  FirstReview'
<1>1. /\ requests' \subseteq requests
      /\ \A p \in Paths : file'[p] # file[p] => p \in Writable[q.node]
      /\ UNCHANGED <<artifact, node, task>>
      /\ q.tool \in Readers => file' = file
  BY DEF Answers, Answered
<1>2. q.node \in Nodes /\ examined \in [Nodes -> SUBSET (Readers \X Paths)]
  BY TypeParts DEF Inv, Request
<1>3. CASE ok /\ q.awaited /\ q.tool \in Readers
  <2>1. /\ examined' = [examined EXCEPT ![q.node] = @ \cup {<<q.tool, q.source>>}]
        /\ seen' = IF q.node = Reviewer THEN seen \cup {<<q.source, file[q.source]>>} ELSE seen
    BY <1>3 DEF Answers, Answered
  <2>2. /\ examined[Reviewer] \subseteq examined'[Reviewer] /\ seen \subseteq seen'
        /\ \A tool \in Readers, p \in Paths : <<tool, p>> \in examined'[Reviewer] =>
             \/ <<tool, p>> \in examined[Reviewer]
             \/ q.node = Reviewer /\ file' = file /\ <<p, file[p]>> \in seen'
    BY <1>1, <1>2, <1>3, <2>1, ReviewerIsNode
  <2> QED
    BY <1>1, <2>2, WriteFirst
<1>4. CASE ~(ok /\ q.awaited /\ q.tool \in Readers)
  <2>1. examined' = examined /\ seen' = seen
    BY <1>4 DEF Answers, Answered
  <2> QED
    BY <1>1, <2>1, WriteFirst
<1> QED
  BY <1>3, <1>4

LEMMA StepFirst ==
  Inv /\ FirstReview /\ [Next]_vars => FirstReview'
<1> SUFFICES ASSUME Inv, FirstReview, [Next]_vars, First' PROVE FirstReview'
  BY DEF FirstReview
<1>0. First /\ retries' = retries /\ late' = late
  BY FirstBefore
<1>1. CASE UNCHANGED vars
  BY <1>1 DEF vars, FirstReview, First, InOrder, Unblocked, RequestsOfRunning, OutputsOnly,
     ReviewerHasSeen, VerifiedAtTheEnd
<1>2. CASE Scheduling
  BY <1>0, <1>2, SchedulingFirst
<1>3. CASE \E n \in Nodes : \E c \in CallsOf[n] : CallTool(n, c)
  BY <1>0, <1>3, CallFirst
<1>4. CASE \E q \in requests : Execute(q) \/ End(q)
  BY <1>0, <1>4, ServedAnswers, AnswersFirst
<1>5. CASE \E q \in requests : Begin(q) \/ GiveUpRequest(q)
  <2>1. late \in Nat /\ late # late + 1
    BY TypeParts, BoundsAreIntegers DEF Inv
  <2>2. \E q \in requests : Begin(q)
    BY <1>0, <1>5, <2>1 DEF GiveUpRequest
  <2> QED
    BY <1>0, <2>2, BeginFirst
<1>6. ASSUME NEW q \in requests, ScriptWrites(q)
      PROVE  FirstReview'
  <2>1. /\ \A p \in Paths : file'[p] # file[p] => p \in Writable[q.node]
        /\ UNCHANGED <<artifact, node, requests, examined, task, seen>>
    BY <1>6, ScriptParts
  <2> QED
    BY <1>0, <2>1, WriteFirst
<1> QED
  BY <1>1, <1>2, <1>3, <1>4, <1>5, <1>6, NextIs

(* What is delivered after the first review is what the reviewer has seen, *)
(* content for content: Delivery.SeenUnlessReworked.                       *)
THEOREM SeenCorrect == Spec => []SeenUnlessReworked
<1>1. Inv /\ FirstReview => SeenUnlessReworked
  <2> SUFFICES ASSUME Inv, FirstReview, task = "SUCCEEDED", retries = 0, late = 0,
                      NEW p \in Paths, artifact[p].status = "VERIFIED"
               PROVE  <<p, file[p]>> \in seen
    BY DEF SeenUnlessReworked
  <2>1. OutputsOnly /\ ReviewerHasSeen /\ VerifiedAtTheEnd
    BY DEF FirstReview, First
  <2>2. Area[p] = "output" /\ \E tool \in Readers : <<tool, p>> \in examined[Reviewer]
    BY <2>1 DEF OutputsOnly, VerifiedAtTheEnd
  <2> QED
    BY <2>1, <2>2 DEF ReviewerHasSeen
<1> QED
  BY <1>1, InitInv, StepInv, InitFirst, StepFirst, PTL DEF Spec
=============================================================================
