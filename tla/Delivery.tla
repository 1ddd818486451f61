------------------------------- MODULE Delivery -------------------------------
(***************************************************************************)
(* The files of one revision of a task: Agents that call file tools        *)
(* (agent/executor.py, agent/agent_scope.py, agent/risk.py), the Runner    *)
(* that executes them (runner_app), the artifacts a producer registers,    *)
(* the review and the delivery gate (quality.py, worker/tasks.py).         *)
(*                                                                         *)
(* A file is its content, and a content is what the checks tell apart.     *)
(* Symbolic links, directories, .. and the wording of paths are left out:  *)
(* a path is a directory of some node and a kind of file.  The user's      *)
(* answer to a request for approval is part of the call (see Approvals),   *)
(* dispatching is one step (see Scheduler), and an attempt that fails and  *)
(* is repeated is not told from one that goes on.  A Runner request whose  *)
(* client has given up (runner_client.py, 330 seconds) stays in the        *)
(* Runner, waiting for a slot or at work, and is executed all the same.    *)
(***************************************************************************)
EXTENDS Integers, FiniteSets

CONSTANTS
  Producers, Reviewer,
  DependsOn,         \* of each node, the producers it waits for
  Analysts,          \* the producers whose role is data_analyst
  Paths, NoPath,
  Area, Owner, Kind, \* of each path: top directory, whose subdirectory, suffix
  NoNode,            \* the owner of what the user uploaded
  Contents, Absent,
  Formats,           \* the kinds the user asked for by name
  MinFiles,          \* the number of files the user asked for
  OutputRequired,    \* whether the task cannot do without a file
  Renderer,          \* whether LibreOffice and Poppler are installed
  VisualQaRequired,  \* office_visual_qa_required
  MaxCalls,          \* max_tool_calls_per_task
  MaxReviewRetries,  \* max_review_retries
  Slots,             \* concurrency of the Runner
  MaxLate            \* bound: requests whose client gives up

Nodes == Producers \cup {Reviewer}
Areas == {"input", "workspace", "shared", "output"}
Office == {"docx", "xlsx", "pptx"}
Kinds == Office \cup {"pdf", "image", "html", "csv", "zip", "text", "other"}

ASSUME NodesAreDistinct == Reviewer \notin Producers /\ NoNode \notin Nodes
ASSUME PathsAreTyped ==
  /\ NoPath \notin Paths /\ Absent \notin Contents
  /\ Area \in [Paths -> Areas] /\ Kind \in [Paths -> Kinds]
  /\ Owner \in [Paths -> Nodes \cup {NoNode}]
  /\ \A p \in Paths : Area[p] = "input" <=> Owner[p] = NoNode
  /\ DependsOn \in [Nodes -> SUBSET Producers]
ASSUME PathsAreFinite == IsFiniteSet(Paths)
(* PlanSpec: the reviewer depends on every worker that no other worker     *)
(* depends on, so that it comes after all of them (no cycles).             *)
ASSUME ReviewComesLast ==
  \A done \in SUBSET Producers :
    DependsOn[Reviewer] \subseteq done /\ (\A n \in done : DependsOn[n] \subseteq done) =>
      done = Producers
ASSUME BoundsAreNaturals == {MaxCalls, MaxReviewRetries, Slots, MaxLate, MinFiles} \subseteq Nat

-----------------------------------------------------------------------------
VARIABLES
  file,      \* the content of each path
  writer,    \* history: who changed it last
  artifact,  \* the task's artifacts, by path
  node,      \* status of each node
  requests,  \* requests in the Runner
  examined,  \* successful inspect_document and read_text calls of each node
  calls,     \* tool calls of the revision
  retries,   \* review_retries
  task,      \* status of the task
  late,      \* requests the client has given up
  seen       \* history: the contents the reviewer's calls succeeded on

vars == <<file, writer, artifact, node, requests, examined, calls, retries, task, late, seen>>

NoArtifact == [node |-> NoNode, final |-> FALSE, status |-> "NONE"]

Init ==
  /\ file \in [Paths -> {Absent} \cup Contents]
  /\ \A p \in Paths : file[p] # Absent => Area[p] = "input"
  /\ writer = [p \in Paths |-> NoNode]
  /\ artifact = [p \in Paths |-> NoArtifact]
  /\ node = [n \in Nodes |-> "PENDING"]
  /\ requests = {} /\ seen = {}
  /\ examined = [n \in Nodes |-> {}]
  /\ calls = 0 /\ retries = 0 /\ late = 0
  /\ task = "EXECUTING"

-----------------------------------------------------------------------------
(* build_agent_scope.  A single producer works in the top directories; of  *)
(* several each has its own, and so has the reviewer.                      *)
(* Mutant of Isolated: two producers share the directories. *)
IsolatedFromThree(n) == Cardinality(Producers) > 2 \/ n = Reviewer
Isolated(n) == Cardinality(Producers) > 1 \/ n = Reviewer

All(area) == {p \in Paths : Area[p] = area}
Own(area, n) == IF Isolated(n) THEN {p \in All(area) : Owner[p] = n} ELSE All(area)

(* ROLE_BLOCKED_OUTPUT_SUFFIXES *)
Blocked(n) == IF n \in Analysts THEN {p \in Own("output", n) : Kind[p] = "pptx"} ELSE {}

Writable ==
  [n \in Nodes |->
     IF n = Reviewer
       THEN Own("workspace", n)
       ELSE (Own("workspace", n) \cup Own("shared", n) \cup Own("output", n)) \ Blocked(n)]

Readable ==
  [n \in Nodes |->
     All("input") \cup Own("workspace", n) \cup
     IF n = Reviewer
       THEN All("shared") \cup All("output")
       ELSE UNION {Own("shared", m) \cup Own("output", m) : m \in {n} \cup DependsOn[n]}]

Readers == {"read_text", "inspect_document"}
Creators == {"write_text", "copy_skill_file"}
Converters == {"convert_document", "convert_to_markdown"}
Copiers == {"copy_file", "create_zip"} \cup Converters
Scripts == {"run_python", "run_tests"}

ToolsOf(n) ==
  IF n = Reviewer
    THEN Readers \cup {"convert_to_markdown"}
    ELSE Readers \cup Creators \cup Copiers \cup Scripts \cup {"move_file", "move_to_trash"}

(* What a tool accepts: the kinds it converts, and ZIPs only in output. *)
Fits(c) ==
  CASE c.tool = "convert_document" -> Kind[c.source] \in Office /\ Kind[c.target] = "pdf"
    [] c.tool = "convert_to_markdown" -> Kind[c.target] = "text"
    [] c.tool = "create_zip" -> Kind[c.target] = "zip" /\ Area[c.target] = "output"
    [] OTHER -> TRUE

(* enforce_tool_scope *)
CallsOf ==
  [n \in Nodes |->
     {c \in [tool : ToolsOf(n), source : Readable[n] \cup {NoPath},
             target : Writable[n] \cup {NoPath}] :
        /\ c.source = NoPath <=> c.tool \in Creators \cup Scripts
        /\ c.target = NoPath <=> c.tool \in Readers \cup Scripts \cup {"move_to_trash"}
        /\ c.tool \in {"move_file", "move_to_trash"} => c.source \in Writable[n]
        /\ Fits(c)}]

(* approval_reason *)
Overwriting == Creators \cup Copiers
NeedsApproval(c) ==
  \/ c.tool \in {"move_file", "move_to_trash"}
  \/ c.tool \in Overwriting /\ file[c.target] # Absent

-----------------------------------------------------------------------------
(* What inspect_document makes of a content, kind by kind: a content is    *)
(* sound, plain text, or has the defect it is named for.                   *)
BadPages == {"blank_page", "black_page"}
HiddenText == {"invisible_text_layer"}
CutCells == {"truncated_cell_display", "repeated_overflow_page"}
LayoutIssues == {"small_body_text", "text_out_of_bounds", "text_overlap"}

(* Rendering needs its programs; without them it is skipped, unless the    *)
(* settings require it.                                                    *)
Renders(content) ==
  IF Renderer THEN content # "not_convertible" ELSE ~VisualQaRequired
VisualQaPasses(content, issues) == Renders(content) /\ (Renderer => content \notin issues)

Opens(content) == content \notin {"unreadable", "text", "empty", Absent}

DocxPasses(content) ==
  /\ Opens(content) /\ content # "no_content"
  /\ VisualQaPasses(content, BadPages \cup HiddenText)
XlsxPasses(content) ==
  /\ Opens(content) /\ content \notin {"no_content", "formula_error"}
  /\ VisualQaPasses(content, BadPages \cup HiddenText \cup CutCells)
PptxPasses(content) == Opens(content) /\ content \notin LayoutIssues
PdfPasses(content) ==
  /\ Opens(content) /\ content \notin {"encrypted", "no_content"}
  /\ VisualQaPasses(content, BadPages \cup HiddenText)
ImagePasses(content) == Opens(content)
ZipPasses(content) == Opens(content) /\ content # "no_content"
HtmlPasses(content) == Opens(content) /\ content # "no_content"
TextPasses(content) == content \notin {"unreadable", "no_content", "empty", Absent}

Passes(kind, content) ==
  \/ kind = "docx" /\ DocxPasses(content)
  \/ kind = "xlsx" /\ XlsxPasses(content)
  \/ kind = "pptx" /\ PptxPasses(content)
  \/ kind = "pdf" /\ PdfPasses(content)
  \/ kind = "image" /\ ImagePasses(content)
  \/ kind = "zip" /\ ZipPasses(content)
  \/ kind = "html" /\ HtmlPasses(content)
  \/ kind \in {"csv", "text"} /\ TextPasses(content)

(* read_text takes whatever is UTF-8, an empty file too. *)
IsText(kind, content) ==
  content \in {"text", "empty"} \/ (kind \in {"html", "csv", "text"} /\ content # "unreadable")

(* The suffixes an Agent is stopped for, and those the gate asks for. *)
InspectableDelivery == Office \cup {"pdf"}
Inspectable == Kinds \ {"other"}

Requested(p) == Formats = {} \/ Kind[p] \in Formats

-----------------------------------------------------------------------------
(* The Agent.                                                              *)
Awaits(n) == \E q \in requests : q.node = n /\ q.awaited
Runs(n) == task = "EXECUTING" /\ node[n] = "RUNNING" /\ ~Awaits(n)

(* A producer whose deliveries are all inspected gets no tools any more. *)
ForceFinalize(n) ==
  LET required == {p \in Own("output", n) : /\ file[p] # Absent /\ Requested(p)
                                            /\ Kind[p] \in InspectableDelivery}
  IN  /\ n # Reviewer /\ required # {}
      /\ \A p \in required : <<"inspect_document", p>> \in examined[n]

HasBudget == calls < MaxCalls

(* Mutant of Unblocked: one of the dependencies is enough. *)
UnblockedByOne(n) ==
  DependsOn[n] = {} \/ \E m \in DependsOn[n] : node[m] = "SUCCEEDED"
Unblocked(n) == \A m \in DependsOn[n] : node[m] = "SUCCEEDED"

StartNode(n) ==
  /\ task = "EXECUTING"
  /\ node[n] = "READY" \/ (node[n] = "PENDING" /\ Unblocked(n))
  /\ node' = [node EXCEPT ![n] = "RUNNING"]
  /\ UNCHANGED <<file, writer, artifact, requests, examined, calls, retries, task, late, seen>>

CallTool(n, c) ==
  /\ Runs(n) /\ ~ForceFinalize(n) /\ HasBudget
  /\ c \in CallsOf[n]
  /\ calls' = calls + 1
  /\ \/ requests' = requests \cup
          {[id |-> calls + 1, node |-> n, tool |-> c.tool, source |-> c.source,
            target |-> c.target, granted |-> NeedsApproval(c), working |-> FALSE,
            awaited |-> TRUE]}
     \/ NeedsApproval(c) /\ UNCHANGED requests   \* refused by the user
  /\ UNCHANGED <<file, writer, artifact, node, examined, retries, task, late, seen>>

(* The client's timeout: the call has failed for the Agent. *)
GiveUpRequest(q) ==
  /\ q.awaited /\ late < MaxLate
  /\ late' = late + 1
  /\ requests' = (requests \ {q}) \cup {[q EXCEPT !.awaited = FALSE]}
  /\ UNCHANGED <<file, writer, artifact, node, examined, calls, retries, task, seen>>

-----------------------------------------------------------------------------
(* The Runner.                                                             *)
Quick(q) == q.tool \notin Converters \cup Scripts
HasSlot == Cardinality({q \in requests : q.working}) < Slots

(* enforce_request_scope: the Runner does not rely on the backend's check. *)
InScope(q) == [tool |-> q.tool, source |-> q.source, target |-> q.target] \in CallsOf[q.node]

(* Mutant of Refused: the backend's look at the target is good enough. *)
RefusedIfMissing(q) == ~InScope(q) \/ (q.source # NoPath /\ file[q.source] = Absent)
Refused(q) ==
  \/ ~InScope(q)
  \/ q.source # NoPath /\ file[q.source] = Absent /\ q.tool # "create_zip"
  \/ ~q.granted /\ NeedsApproval(q)

Changed(p, content) == [file EXCEPT ![p] = content]
Ok(f) == [ok |-> TRUE, file |-> f]
Fails(f) == [ok |-> FALSE, file |-> f]

(* A ZIP is opened for writing before its sources are looked for. *)
Outcomes(q) ==
  CASE q.tool = "write_text" ->
         {Ok(Changed(q.target, c)) : c \in Contents \cap {"text", "empty"}}
    [] q.tool = "copy_skill_file" -> {Ok(Changed(q.target, c)) : c \in Contents}
    [] q.tool = "copy_file" -> {Ok(Changed(q.target, file[q.source]))}
    [] q.tool = "create_zip" ->
         IF file[q.source] = Absent THEN {Fails(Changed(q.target, "no_content"))}
         ELSE {Ok(Changed(q.target, "good"))}
    [] q.tool = "move_file" ->
         {Ok([Changed(q.source, Absent) EXCEPT ![q.target] = file[q.source]])}
    [] q.tool = "move_to_trash" -> {Ok(Changed(q.source, Absent))}
    [] q.tool = "read_text" ->
         {[ok |-> IsText(Kind[q.source], file[q.source]), file |-> file]}
    [] q.tool = "inspect_document" ->
         {[ok |-> Passes(Kind[q.source], file[q.source]), file |-> file]}
    [] q.tool = "convert_document" -> {Ok(Changed(q.target, c)) : c \in Contents \ {"empty"}}
    [] q.tool = "convert_to_markdown" -> {Ok(Changed(q.target, c)) : c \in Contents}
    [] q.tool \in Scripts -> {Ok(file), Fails(file)}

Wrote(n, f) == [p \in Paths |-> IF f[p] # file[p] THEN n ELSE writer[p]]

(* The response; nobody reads that of a request given up. *)
Answered(q, ok) ==
  /\ requests' = requests \ {q}
  /\ IF ok /\ q.awaited /\ q.tool \in Readers
       THEN /\ examined' = [examined EXCEPT ![q.node] = @ \cup {<<q.tool, q.source>>}]
            /\ seen' = IF q.node = Reviewer THEN seen \cup {<<q.source, file[q.source]>>} ELSE seen
       ELSE UNCHANGED <<examined, seen>>

Returns(q) ==
  \E o \in Outcomes(q) :
    /\ file' = o.file /\ writer' = Wrote(q.node, o.file)
    /\ Answered(q, o.ok)

Execute(q) ==
  /\ ~q.working /\ HasSlot
  /\ IF Refused(q)
       THEN Answered(q, FALSE) /\ UNCHANGED <<file, writer>>
       ELSE Quick(q) /\ Returns(q)
  /\ UNCHANGED <<artifact, node, calls, retries, task, late>>

(* Conversions and scripts take their time after the checks. *)
Begin(q) ==
  /\ ~q.working /\ HasSlot /\ ~Refused(q) /\ ~Quick(q)
  /\ requests' = (requests \ {q}) \cup {[q EXCEPT !.working = TRUE]}
  /\ UNCHANGED <<file, writer, artifact, node, examined, calls, retries, task, late, seen>>

(* The audit hook of sandbox_runner.py lets a script write where its Agent *)
(* may.                                                                    *)
ScriptWrites(q) ==
  /\ q.working /\ q.tool \in Scripts
  /\ \E p \in Writable[q.node], c \in Contents \cup {Absent} :
       /\ file' = Changed(p, c) /\ writer' = Wrote(q.node, Changed(p, c))
  /\ UNCHANGED <<artifact, node, requests, examined, calls, retries, task, late, seen>>

(* A script that fails or runs into its timeout, a conversion that fails:  *)
(* the Agent gets an error.                                                *)
End(q) ==
  /\ q.working
  /\ \/ Returns(q)
     \/ Answered(q, FALSE) /\ UNCHANGED <<file, writer>>
  /\ UNCHANGED <<artifact, node, calls, retries, task, late>>

-----------------------------------------------------------------------------
(* _register_output_artifacts, when a producer has answered.               *)

Registered(n) ==
  [p \in Paths |->
     IF p \notin Own("output", n) THEN artifact[p]
     ELSE IF file[p] # Absent
       THEN [node |-> n, final |-> Requested(p), status |-> "READY"]
     ELSE IF artifact[p] # NoArtifact
       THEN [node |-> artifact[p].node, final |-> FALSE, status |-> "MISSING"]
     ELSE NoArtifact]

ProducerEnds(n) ==
  /\ n \in Producers /\ Runs(n)
  /\ node' = [node EXCEPT ![n] = "SUCCEEDED"]
  /\ artifact' = Registered(n)
  /\ UNCHANGED <<file, writer, requests, examined, calls, retries, task, late, seen>>

(* An execution that comes to nothing: the budget is spent, the rounds are *)
(* used up, the same call has failed again, and no attempt is left.        *)
NodeFails(n) ==
  /\ Runs(n)
  /\ node' = [node EXCEPT ![n] = "FAILED"] /\ task' = "FAILED"
  /\ UNCHANGED <<file, writer, artifact, requests, examined, calls, retries, late, seen>>

ReviewerPasses ==
  /\ Runs(Reviewer)
  /\ node' = [node EXCEPT ![Reviewer] = "SUCCEEDED"]
  /\ UNCHANGED <<file, writer, artifact, requests, examined, calls, retries, task, late, seen>>

(* What is sent back: all the reviewer depends on, at once. *)
SentBack ==
  [n \in Nodes |-> IF n = Reviewer THEN "PENDING"
                   ELSE IF n \in DependsOn[Reviewer] THEN "READY" ELSE node[n]]

(* Mutant of MayRework: once more than the setting says. *)
MayReworkOnceMore == retries <= MaxReviewRetries
MayRework == retries < MaxReviewRetries

ReviewerReworks ==
  /\ Runs(Reviewer)
  /\ IF MayRework
       THEN /\ retries' = retries + 1 /\ node' = SentBack /\ UNCHANGED task
       ELSE /\ node' = [node EXCEPT ![Reviewer] = "FAILED"] /\ task' = "FAILED"
            /\ UNCHANGED retries
  /\ UNCHANGED <<file, writer, artifact, requests, examined, calls, late, seen>>

-----------------------------------------------------------------------------
(* validate_delivery, and what _schedule_plan does with its result.        *)
Finals == {p \in Paths : artifact[p].final}
(* Mutant of Valid: the files themselves are not looked at. *)
ValidByRow == Finals
Valid == {p \in Finals : file[p] \notin {Absent, "empty"}}

ProducerIssues ==
  \/ (OutputRequired \/ Formats # {}) /\ Finals = {}
  \/ \E kind \in Formats : \A p \in Finals : Kind[p] # kind
  \/ Valid # Finals
  \/ Cardinality({p \in Valid : Requested(p)}) < MinFiles

Verified == {p \in Valid : /\ Kind[p] \in Inspectable
                           /\ \E tool \in Readers : <<tool, p>> \in examined[Reviewer]}
ReviewerIssues == \E p \in Valid : Kind[p] \in Inspectable /\ p \notin Verified

AllSucceeded == task = "EXECUTING" /\ \A n \in Nodes : node[n] = "SUCCEEDED"

(* sources: whether the network research the user asked for is too thin;   *)
(* the rows of its sources are left out.                                   *)
MarkedVerified ==
  [p \in Paths |-> IF p \in Verified
                     THEN [artifact[p] EXCEPT !.status = "VERIFIED"] ELSE artifact[p]]

GatePasses ==
  /\ AllSucceeded /\ ~ProducerIssues /\ ~ReviewerIssues
  /\ task' = "SUCCEEDED" /\ artifact' = MarkedVerified
  /\ UNCHANGED <<file, writer, node, requests, examined, calls, retries, late, seen>>

(* Mutant of Counted: what the gate sends back is not counted. *)
NotCounted == retries
Counted == retries + 1

GateSendsBack ==
  /\ AllSucceeded /\ MayRework
  /\ retries' = Counted
  /\ \E sources \in BOOLEAN :
       \/ (ProducerIssues \/ sources) /\ node' = SentBack
       \/ /\ ~(ProducerIssues \/ sources) /\ ReviewerIssues
          /\ node' = [node EXCEPT ![Reviewer] = "READY"]
  /\ UNCHANGED <<file, writer, artifact, requests, examined, calls, task, late, seen>>

GateFails ==
  /\ AllSucceeded /\ ~MayRework
  /\ \E sources \in BOOLEAN : ProducerIssues \/ sources \/ ReviewerIssues
  /\ task' = "FAILED"
  /\ UNCHANGED <<file, writer, artifact, node, requests, examined, calls, retries, late, seen>>

-----------------------------------------------------------------------------
Agent(n) == StartNode(n) \/ NodeFails(n) \/ ProducerEnds(n) \/ \E c \in CallsOf[n] : CallTool(n, c)
Review == ReviewerPasses \/ ReviewerReworks
Gate == GatePasses \/ GateSendsBack \/ GateFails
Serve(q) == Execute(q) \/ Begin(q) \/ End(q)

Next ==
  \/ \E n \in Nodes : Agent(n)
  \/ Review \/ Gate
  \/ \E q \in requests : Serve(q) \/ ScriptWrites(q) \/ GiveUpRequest(q)

(* Nodes are dispatched, an Agent has a limited number of rounds and calls *)
(* the model may make, tools have timeouts, and the scheduling pass runs.  *)
Spec ==
  /\ Init /\ [][Next]_vars
  /\ \A n \in Nodes : WF_vars(StartNode(n)) /\ WF_vars(ProducerEnds(n) \/ NodeFails(n))
  /\ WF_vars(Review \/ NodeFails(Reviewer)) /\ WF_vars(Gate)
  /\ \A i \in 1..MaxCalls : WF_vars(\E q \in requests : q.id = i /\ Serve(q))

-----------------------------------------------------------------------------
TypeOK ==
  /\ file \in [Paths -> Contents \cup {Absent, "no_content", "good"}]
  /\ writer \in [Paths -> Nodes \cup {NoNode}]
  /\ artifact \in [Paths -> [node : Producers \cup {NoNode}, final : BOOLEAN,
                             status : {"NONE", "READY", "MISSING", "VERIFIED"}]]
  /\ node \in [Nodes -> {"PENDING", "READY", "RUNNING", "SUCCEEDED", "FAILED"}]
  /\ requests \subseteq [id : 1..MaxCalls, node : Nodes,
                         tool : Readers \cup Creators \cup Copiers \cup Scripts \cup
                                {"move_file", "move_to_trash"},
                         source : Paths \cup {NoPath}, target : Paths \cup {NoPath},
                         granted : BOOLEAN, working : BOOLEAN, awaited : BOOLEAN]
  /\ examined \in [Nodes -> SUBSET (Readers \X Paths)]
  /\ calls \in 0..MaxCalls /\ retries \in 0..MaxReviewRetries /\ late \in 0..MaxLate
  /\ task \in {"EXECUTING", "SUCCEEDED", "FAILED"}

(* Of several producers, and of the reviewer, each changes and registers   *)
(* only what is in its own directories, also by a request its Agent has    *)
(* given up; what the user uploaded stays as it is (README.md:75).         *)
EachWritesItsOwn ==
  Cardinality(Producers) > 1 =>
    \A p \in Paths : /\ writer[p] \in {NoNode, Owner[p]}
                     /\ artifact[p].node \in {NoNode, Owner[p]}
                     /\ writer[p] = Reviewer => Area[p] = "workspace"

(* A tool that writes at once replaces or removes a file only with the     *)
(* user's consent, also when the file came after the backend had looked    *)
(* for it (docs/security.md:11).  Scripts ask for none, and conversions    *)
(* look before they convert.                                               *)
OverwritingIsAsked ==
  [][\A p \in Paths : file[p] # Absent /\ file'[p] # file[p] =>
       \/ \E q \in requests \ requests' : q.granted \/ ~Quick(q)
       \/ \E q \in requests : q.working /\ q.tool \in Scripts /\ p \in Writable[q.node]]_vars

(* What is delivered is there at that moment: every final file exists and  *)
(* has content, every format asked for is among them, and so many files as *)
(* were asked for, whatever has been removed since it was registered.      *)
DeliveredFilesExist ==
  [][task # "SUCCEEDED" /\ task' = "SUCCEEDED" =>
       LET delivered == {p \in Paths : artifact[p].final}
           there == {p \in delivered : file[p] # Absent /\ file[p] # "empty"}
       IN  /\ delivered \subseteq there
           /\ Formats \subseteq {Kind[p] : p \in there}
           /\ Cardinality(there) >= MinFiles]_vars

(* Without rework and without requests that were given up, the reviewer    *)
(* has seen every verified file with the very content that is delivered.   *)
SeenUnlessReworked ==
  task = "SUCCEEDED" /\ retries = 0 /\ late = 0 =>
    \A p \in Paths : artifact[p].status = "VERIFIED" => <<p, file[p]>> \in seen

(* What an office file or PDF is delivered with has passed the reviewer's  *)
(* inspection (README.md:22, docs/codex-workspace.md:41).                  *)
OfficeFilesWereInspected ==
  [][task # "SUCCEEDED" /\ task' = "SUCCEEDED" =>
       \A p \in Paths : artifact'[p].status = "VERIFIED" /\ Kind[p] \in InspectableDelivery =>
         Passes(Kind[p], file[p])]_vars

(* The revision is delivered or fails, whatever is sent back. *)
RevisionEnds == <>(task \in {"SUCCEEDED", "FAILED"})
=============================================================================
