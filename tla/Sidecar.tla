------------------------------- MODULE Sidecar -------------------------------
(***************************************************************************)
(* An IDE sidecar and the program at the other end of its stdio: one       *)
(* JSON-RPC request per line on stdin, one reply per line on stdout, and   *)
(* one trace line per scene-graph write on stderr, which the client drains *)
(* in a thread of its own.  rust/crates/{sidecar-runner, sidecar-protocol, *)
(* kicad-sidecar, freecad-sidecar}, adapters/crates and                    *)
(* scripts/regression/{sidecar_client, mutation_hook, roundtrip}.py.       *)
(*                                                                         *)
(* A pipe holds so many lines: who writes to a full one waits.  With       *)
(* HCP_USE_HOST_OSS the sidecar runs the tool of the host and waits for    *)
(* it, without a limit of time.                                            *)
(*                                                                         *)
(* Names, paths and payloads are abstracted: a mutation is its kind and    *)
(* whether its payload has the fields the adapter asks for, a document is  *)
(* a model value, an id is the position of the line it came on.            *)
(***************************************************************************)
EXTENDS Integers, Sequences, FiniteSets

CONSTANTS
  Sidecars,    \* the sidecars a behaviour may be about, a subset of AllSidecars
  Documents,   \* document URIs
  IdeBatches,  \* the mutation lists an IDE host may send
  MaxLines,    \* lines an IDE host writes in a behaviour
  PipeLines,   \* lines a pipe holds
  SuiteSize    \* --mutations of the regression suite

AllSidecars == {"kicad", "freecad"}

ASSUME SidecarsAssumption == Sidecars \subseteq AllSidecars /\ Sidecars # {}
ASSUME BatchesAssumption ==
  IdeBatches \subseteq Seq([kind : {"schematic", "pcb", "solid", "constraint"},
                            payload : {"valid", "invalid"}])
ASSUME BoundsAssumption ==
  MaxLines \in Nat /\ PipeLines \in Nat \ {0} /\ SuiteSize \in Nat \ {0}

VARIABLES
  session,  \* which sidecar, who drives it, with which script, whether on the
            \* host's tools; never changes
  stdin,    \* lines written and not read
  stdout,   \* replies written and not read; an IDE's also those it has read
  stderr,   \* HCP_TRACE lines written and not drained; likewise
  proc,     \* "running", "exited" (end of input), "failed" (error), "killed"
  open,     \* a project is open in the sidecar's state
  batch,    \* the applyMutations being carried out, or NoBatch
  client,   \* a suite: its place in the script, replies and traces it has;
            \* an IDE: how much of stdout and stderr it has read, is it gone
  sent      \* every line written so far (history)

vars == <<session, stdin, stdout, stderr, proc, open, batch, client, sent>>

-----------------------------------------------------------------------------
(* The protocol. *)

(* A Mutation, and whether its payload has what FreeCAD asks for.          *)
Kinds == {"schematic", "pcb", "solid", "constraint"}
Mutations == [kind : Kinds, payload : {"valid", "invalid"}]

Formats == {"step", "gerber"}

Methods == {"ping", "open", "apply", "export", "unknown"}

(* A line that serde reads as a JsonRpcRequest; "fit" says its params have  *)
(* the shape the method wants, "v2" that jsonrpc is "2.0".                  *)
Request(method, doc, muts, format) ==
  [form |-> "request", v2 |-> TRUE, fit |-> TRUE, method |-> method,
   doc |-> doc, muts |-> muts, format |-> format]

Ping        == Request("ping", "none", <<>>, "none")
Open        == Request("open", "none", <<>>, "none")
Apply(d, m) == Request("apply", d, m, "none")
Export(d, f) == Request("export", d, <<>>, f)
Unknown     == Request("unknown", "none", <<>>, "none")
Blank       == [Ping EXCEPT !.form = "blank"]
(* Not a request: no JSON, a field too many, or a notification, which has no id. *)
Malformed   == [Ping EXCEPT !.form = "malformed"]

Reply(id, code, applied, errors, artifacts) ==
  [id |-> id, code |-> code, applied |-> applied, errors |-> errors,
   artifacts |-> artifacts]
Success(id)     == Reply(id, 0, 0, <<>>, 0)
Failure(id, code) == Reply(id, code, 0, <<>>, 0)

NoBatch == [id |-> 0]

-----------------------------------------------------------------------------
(* What the tool adapters make of a mutation. *)

KiCadNodeType(kind) ==
  IF kind = "schematic" THEN "kicad.schematic.element"
  ELSE IF kind = "pcb" THEN "kicad.pcb.element"
  ELSE "kicad.mutation"

(* The two scene upserts of mutation i: the commit id is document:index and *)
(* the node id kind:index, whatever was applied to the document before.     *)
(* The line of the request is not written (history).                        *)
KiCadDelta(line, doc, i, m) ==
  << [line |-> line, method |-> "upsertNodes", commit |-> <<doc, i>>,
      node |-> <<m.kind, i>>, type |-> KiCadNodeType(m.kind)],
     [line |-> line, method |-> "upsertEdges", commit |-> <<doc, i>>,
      node |-> <<m.kind, i>>, type |-> "applies_mutation"] >>

FreecadMapsMutation(m) ==
  m.kind \in {"solid", "constraint"} /\ m.payload = "valid"

(* The artifacts an export may name.  KiCad: the stub knows step and svg;   *)
(* with the host's kicad-cli more formats, if the workspace is there; any   *)
(* error of the binding becomes an empty list.                              *)
KiCadStubExport(f) == IF f = "step" THEN 1 ELSE 0
KiCadHostExport(f) == IF f \in {"step", "gerber"} THEN {0, 1} ELSE {0}
KiCadArtifacts(f) ==
  IF session.host THEN KiCadHostExport(f) ELSE {KiCadStubExport(f)}
FreecadArtifacts(f) == {IF f = "step" THEN 1 ELSE 0}

-----------------------------------------------------------------------------
(* The regression suites: scripts that a SidecarSession runs call by call.  *)

KiCadKinds   == <<"schematic", "schematic", "pcb", "pcb">>
FreecadKinds == <<"solid", "constraint">>

DeterministicMutations(kinds) ==
  [i \in 1..SuiteSize |->
     [kind |-> kinds[((i - 1) % Len(kinds)) + 1], payload |-> "valid"]]

SuiteMutations(sidecar) ==
  DeterministicMutations(IF sidecar = "kicad" THEN KiCadKinds ELSE FreecadKinds)

(* What the suite compares of the node upserts. *)
ExpectedKiCadUpserts(doc, muts) ==
  [i \in 1..Len(muts) |-> [commit |-> <<doc, i>>, type |-> KiCadNodeType(muts[i].kind)]]

(* Not a line: wait_for_scene_traces until so many of either kind have come. *)
WaitTraces(n) == [form |-> "wait", nodes |-> n, edges |-> n]

MutationHookScript(sidecar, d) ==
  << Ping, Open, Apply(d, SuiteMutations(sidecar)) >>
  \o IF sidecar = "kicad" THEN << WaitTraces(SuiteSize) >> ELSE <<>>

RoundtripScript(sidecar, d) ==
  MutationHookScript(sidecar, d) \o << Export(d, "step"), Export(d, "step") >>
  \o IF sidecar = "kicad" THEN << Apply(d, SuiteMutations(sidecar)) >> ELSE <<>>

(* HCP_USE_HOST_OSS is an environment variable, which the suites hand on.   *)
Sessions ==
  { [sidecar |-> s, driver |-> "ide", script |-> <<>>, doc |-> "none", host |-> h] :
      s \in Sidecars, h \in BOOLEAN }
  \cup { [sidecar |-> s, driver |-> "mutation-hook",
           script |-> MutationHookScript(s, d), doc |-> d, host |-> h] :
            s \in Sidecars, d \in Documents, h \in BOOLEAN }
  \cup { [sidecar |-> s, driver |-> "roundtrip",
           script |-> RoundtripScript(s, d), doc |-> d, host |-> h] :
            s \in Sidecars, d \in Documents, h \in BOOLEAN }

-----------------------------------------------------------------------------
Init ==
  /\ session \in Sessions
  /\ stdin = <<>> /\ stdout = <<>> /\ stderr = <<>> /\ sent = <<>>
  /\ proc = "running"
  /\ open = FALSE
  /\ batch = NoBatch
  /\ client = [next |-> 1, pending |-> 0, replies |-> <<>>, traces |-> <<>>,
               closed |-> FALSE, gone |-> FALSE, out |-> 0, err |-> 0,
               verdict |-> "none"]

-----------------------------------------------------------------------------
(* The runner. *)

UnchangedClient == UNCHANGED <<session, client, sent>>

(* A line can be written to a pipe that is not full, and that the client    *)
(* has not closed: an IDE that went away leaves nobody to read.             *)
Room(pipe, taken) == ~client.gone /\ Len(pipe) - taken < PipeLines
BrokenPipe == client.gone /\ proc' = "failed"

(* write_all fails on a broken pipe, which ends the loop, and main with 1.  *)
WriteReply(reply) ==
  \/ /\ Room(stdout, client.out)
     /\ stdout' = Append(stdout, reply)
     /\ UNCHANGED proc
  \/ BrokenPipe /\ UNCHANGED stdout

(* One line is read and answered without writing a trace. *)
Answer(reply) ==
  /\ stdin' = Tail(stdin)
  /\ WriteReply(reply)
  /\ UNCHANGED <<stderr, batch>>
  /\ UnchangedClient

Line == Head(stdin)
LineId == Len(sent) - Len(stdin) + 1
Reading == proc = "running" /\ batch = NoBatch /\ stdin # <<>>
Served(method) ==
  /\ Reading /\ Line.form = "request" /\ Line.v2 /\ Line.method = method

(* Mutant: a blank line is taken for a request. *)
ReadBlankAsRequest ==
  /\ Reading /\ Line.form = "blank"
  /\ Answer(Failure(LineId, -32600))
  /\ UNCHANGED open

ReadBlank ==
  /\ Reading /\ Line.form = "blank"
  /\ stdin' = Tail(stdin)
  /\ UNCHANGED <<stdout, stderr, proc, open, batch>>
  /\ UnchangedClient

(* serde's error leaves the loop, and main exits with 1. *)
ReadMalformed ==
  /\ Reading /\ Line.form = "malformed"
  /\ stdin' = Tail(stdin)
  /\ proc' = "failed"
  /\ UNCHANGED <<stdout, stderr, open, batch>>
  /\ UnchangedClient

RefuseVersion ==
  /\ Reading /\ Line.form = "request" /\ ~Line.v2
  /\ Answer(Failure(LineId, -32600))
  /\ UNCHANGED open

AnswerPing == Served("ping") /\ Answer(Success(LineId)) /\ UNCHANGED open

(* The methods with a handler.                                              *)
Registered(method) == method \in {"open", "apply", "export"}

RefuseMethod ==
  /\ Reading /\ Line.form = "request" /\ Line.v2
  /\ Line.method # "ping" /\ ~Registered(Line.method)
  /\ Answer(Failure(LineId, -32601))
  /\ UNCHANGED open

InvalidParamsCode == IF session.sidecar = "freecad" THEN -32010 ELSE -32602

RefuseParams ==
  /\ Reading /\ Line.form = "request" /\ Line.v2
  /\ Registered(Line.method) /\ ~Line.fit
  /\ Answer(Failure(LineId, InvalidParamsCode))
  /\ UNCHANGED open

(* FreeCAD asks its engine first: on a host build the probe may fail, and   *)
(* the project that was open stays open.                                    *)
HandleProjectOpen ==
  /\ Served("open") /\ Registered("open") /\ Line.fit
  /\ \/ open' = TRUE /\ Answer(Success(LineId))
     \/ /\ session.sidecar = "freecad" /\ session.host
        /\ Answer(Failure(LineId, -32010))
        /\ UNCHANGED open

NeedsProject == ~open

(* KiCad reports a closed project as an error of mutation 0 in a result,    *)
(* FreeCAD as a JSON-RPC error.                                             *)
RefuseApply ==
  /\ Served("apply") /\ Line.fit /\ NeedsProject
  /\ Answer(IF session.sidecar = "kicad" THEN Reply(LineId, 0, 0, <<0>>, 0)
            ELSE Failure(LineId, -32001))
  /\ UNCHANGED open

(* Mutant: the batch is answered when it begins. *)
BeginApplyAnswered ==
  /\ Served("apply") /\ Line.fit /\ ~NeedsProject
  /\ stdin' = Tail(stdin)
  /\ batch' = [id |-> LineId, doc |-> Line.doc, muts |-> Line.muts, at |-> 1,
               half |-> FALSE, applied |-> 0, errors |-> <<>>]
  /\ stdout' = Append(stdout, Reply(LineId, 0, Len(Line.muts), <<>>, 0))
  /\ UNCHANGED <<stderr, proc, open>>
  /\ UnchangedClient

BeginApply ==
  /\ Served("apply") /\ Line.fit /\ ~NeedsProject
  /\ stdin' = Tail(stdin)
  /\ batch' = [id |-> LineId, doc |-> Line.doc, muts |-> Line.muts, at |-> 1,
               half |-> FALSE, applied |-> 0, errors |-> <<>>]
  /\ UNCHANGED <<stdout, stderr, proc, open>>
  /\ UnchangedClient

AtMutation == proc = "running" /\ batch # NoBatch /\ batch.at <= Len(batch.muts)

(* FreeCAD counts or reports a mutation, and drops its delta.               *)
MapMutation ==
  /\ AtMutation /\ session.sidecar = "freecad"
  /\ batch' = IF FreecadMapsMutation(batch.muts[batch.at])
              THEN [batch EXCEPT !.at = @ + 1, !.applied = @ + 1]
              ELSE [batch EXCEPT !.at = @ + 1, !.errors = Append(@, batch.at)]
  /\ UNCHANGED <<stdin, stdout, stderr, proc, open>>
  /\ UnchangedClient

(* KiCad hands its delta to the scene graph, the nodes and then the edges,  *)
(* and TracingSceneGraph leaves a line on stderr for either; eprintln!      *)
(* panics on a broken pipe.                                                 *)
EmitSceneTrace(trace, next) ==
  /\ \/ /\ Room(stderr, client.err)
        /\ stderr' = Append(stderr, trace)
        /\ batch' = next
        /\ UNCHANGED proc
     \/ BrokenPipe /\ UNCHANGED <<stderr, batch>>
  /\ UNCHANGED <<stdin, stdout, open>>
  /\ UnchangedClient

Delta == KiCadDelta(batch.id, batch.doc, batch.at, batch.muts[batch.at])

UpsertNodes ==
  /\ AtMutation /\ session.sidecar = "kicad" /\ ~batch.half
  /\ EmitSceneTrace(Delta[1], [batch EXCEPT !.half = TRUE])

(* Mutant: what fails to be upserted is not missed. *)
UpsertEdgesUntraced ==
  /\ AtMutation /\ session.sidecar = "kicad" /\ batch.half
  /\ batch' = [batch EXCEPT !.half = FALSE, !.at = @ + 1, !.applied = @ + 1]
  /\ UNCHANGED <<stderr, proc, stdin, stdout, open>>
  /\ UnchangedClient

UpsertEdges ==
  /\ AtMutation /\ session.sidecar = "kicad" /\ batch.half
  /\ EmitSceneTrace(Delta[2], [batch EXCEPT !.half = FALSE, !.at = @ + 1, !.applied = @ + 1])

EndApply ==
  /\ proc = "running" /\ batch # NoBatch /\ batch.at > Len(batch.muts)
  /\ WriteReply(Reply(batch.id, 0, batch.applied, batch.errors, 0))
  /\ batch' = IF client.gone THEN batch ELSE NoBatch
  /\ UNCHANGED <<stdin, stderr, open>>
  /\ UnchangedClient

ExportFailedCode == IF session.sidecar = "freecad" THEN -32001 ELSE -32000

HandleExport ==
  /\ Served("export") /\ Line.fit
  /\ IF NeedsProject THEN Answer(Failure(LineId, ExportFailedCode))
     ELSE \E n \in IF session.sidecar = "kicad" THEN KiCadArtifacts(Line.format)
                    ELSE FreecadArtifacts(Line.format) :
            Answer(Reply(LineId, 0, 0, <<>>, n))
  /\ UNCHANGED open

EndOfInput ==
  /\ proc = "running" /\ batch = NoBatch /\ stdin = <<>> /\ client.closed
  /\ proc' = "exited"
  /\ UNCHANGED <<stdin, stdout, stderr, open, batch>>
  /\ UnchangedClient

(* The operating system or a user ends the process. *)
Kill ==
  /\ proc = "running"
  /\ proc' = "killed"
  /\ UNCHANGED <<stdin, stdout, stderr, open, batch>>
  /\ UnchangedClient

RunnerStep ==
  \/ ReadBlank \/ ReadMalformed \/ RefuseVersion \/ AnswerPing \/ RefuseMethod
  \/ RefuseParams \/ HandleProjectOpen \/ RefuseApply \/ BeginApply
  \/ MapMutation \/ UpsertNodes \/ UpsertEdges \/ EndApply \/ HandleExport
  \/ EndOfInput

(* The runner is about to run the tool of the host, and to wait for it:     *)
(* KiCad asks for its version at every mutation and export, FreeCAD when a  *)
(* project is opened.                                                       *)
ToolRuns ==
  /\ session.host /\ proc = "running"
  /\ \/ session.sidecar = "kicad" /\ AtMutation /\ ~batch.half
     \/ session.sidecar = "kicad" /\ Served("export") /\ Line.fit /\ ~NeedsProject
     \/ session.sidecar = "freecad" /\ Served("open") /\ Line.fit

(* It is about to write to a pipe that is full.                             *)
WaitsForRoom ==
  /\ proc = "running" /\ ~client.gone
  /\ IF batch # NoBatch /\ batch.at <= Len(batch.muts)
     THEN session.sidecar = "kicad" /\ ~Room(stderr, client.err)
     ELSE (batch # NoBatch \/ stdin # <<>>) /\ ~Room(stdout, client.out)

-----------------------------------------------------------------------------
(* SidecarSession, as the suites use it. *)

UnchangedRunner == UNCHANGED <<session, proc, open, batch>>

InSuite == session.driver # "ide" /\ client.verdict = "none"
Step == session.script[client.next]
ScriptDone == client.next > Len(session.script)

Write(line) == stdin' = Append(stdin, line) /\ sent' = Append(sent, line)

(* call: a request is written and its reply awaited. *)
Call ==
  /\ InSuite /\ ~ScriptDone /\ client.pending = 0 /\ Step.form = "request"
  /\ Write(Step)
  /\ client' = [client EXCEPT !.pending = Len(sent')]
  /\ UNCHANGED <<stdout, stderr>>
  /\ UnchangedRunner

(* A reply with another id is passed over; an error is raised.              *)
Receive ==
  /\ InSuite /\ client.pending # 0 /\ stdout # <<>>
  /\ LET r == Head(stdout) IN
     client' =
       IF r.id # client.pending THEN client
       ELSE IF r.code # 0 THEN [client EXCEPT !.verdict = "raised", !.closed = TRUE]
       ELSE [client EXCEPT !.pending = 0, !.next = @ + 1,
                           !.replies = Append(@, r)]
  /\ stdout' = Tail(stdout)
  /\ UNCHANGED <<stdin, stderr, sent>>
  /\ UnchangedRunner

(* Mutant: only an orderly exit is noticed. *)
StdoutClosedByExit ==
  /\ InSuite /\ client.pending # 0 /\ stdout = <<>> /\ proc = "exited"
  /\ client' = [client EXCEPT !.verdict = "raised", !.closed = TRUE]
  /\ UNCHANGED <<stdin, stdout, stderr, sent>>
  /\ UnchangedRunner

(* readline returns nothing once the process is gone: RuntimeError.         *)
StdoutClosed ==
  /\ InSuite /\ client.pending # 0 /\ stdout = <<>> /\ proc # "running"
  /\ client' = [client EXCEPT !.verdict = "raised", !.closed = TRUE]
  /\ UNCHANGED <<stdin, stdout, stderr, sent>>
  /\ UnchangedRunner

DrainStderr ==
  /\ session.driver # "ide" /\ stderr # <<>>
  /\ client' = [client EXCEPT !.traces = Append(@, Head(stderr))]
  /\ stderr' = Tail(stderr)
  /\ UNCHANGED <<stdin, stdout, sent>>
  /\ UnchangedRunner

TraceCount(traces, method) == Cardinality({x \in DOMAIN traces : traces[x].method = method})

TracesHere(wait) ==
  /\ TraceCount(client.traces, "upsertNodes") >= wait.nodes
  /\ TraceCount(client.traces, "upsertEdges") >= wait.edges

WaitForSceneTraces ==
  /\ InSuite /\ ~ScriptDone /\ client.pending = 0 /\ Step.form = "wait"
  /\ TracesHere(Step)
  /\ client' = [client EXCEPT !.next = @ + 1]
  /\ UNCHANGED <<stdin, stdout, stderr, sent>>
  /\ UnchangedRunner

(* Five seconds are over and lines are still in the pipe: TimeoutError.     *)
WaitTimesOut ==
  /\ InSuite /\ ~ScriptDone /\ client.pending = 0 /\ Step.form = "wait"
  /\ ~TracesHere(Step)
  /\ client' = [client EXCEPT !.verdict = "raised", !.closed = TRUE]
  /\ UNCHANGED <<stdin, stdout, stderr, sent>>
  /\ UnchangedRunner

SupportedCount(muts) ==
  Cardinality({i \in 1..Len(muts) : muts[i].kind \in {"solid", "constraint"}})

(* _run_kicad_sidecar: the counts, and per mutation commit and node type.   *)
KiCadHookOk ==
  LET muts == SuiteMutations("kicad")
      expected == ExpectedKiCadUpserts(session.doc, muts)
  IN /\ client.replies[3].applied = Len(muts)
     /\ client.replies[3].errors = <<>>
     /\ TraceCount(client.traces, "upsertNodes") = Len(muts)
     /\ TraceCount(client.traces, "upsertEdges") = Len(muts)
     /\ \A x \in DOMAIN client.traces :
          LET trace == client.traces[x]
              i == TraceCount(SubSeq(client.traces, 1, x), "upsertNodes")
          IN trace.method = "upsertNodes" =>
               trace.commit = expected[i].commit /\ trace.type = expected[i].type

FreecadHookOk ==
  client.replies[3].applied = SupportedCount(SuiteMutations("freecad"))

RoundtripOk ==
  /\ client.replies[3].errors = <<>>
  /\ client.replies[4].artifacts # 0
  /\ client.replies[4].artifacts = client.replies[5].artifacts
  /\ session.sidecar = "kicad" => client.replies[6].applied = SuiteSize

SuiteOk ==
  CASE session.driver = "roundtrip" -> RoundtripOk
    [] session.driver = "mutation-hook" /\ session.sidecar = "kicad" -> KiCadHookOk
    [] session.driver = "mutation-hook" /\ session.sidecar = "freecad" -> FreecadHookOk

Conclude ==
  /\ InSuite /\ ScriptDone
  /\ client' = [client EXCEPT !.verdict = IF SuiteOk THEN "ok" ELSE "failed",
                              !.closed = TRUE]
  /\ UNCHANGED <<stdin, stdout, stderr, sent>>
  /\ UnchangedRunner

-----------------------------------------------------------------------------
(* An IDE host writes, reads, closes the input and goes away as it likes.   *)

IdeLines ==
  { Ping, Open, Unknown, Blank, Malformed, [Ping EXCEPT !.v2 = FALSE] }
  \cup { Export(d, f) : d \in Documents, f \in Formats }
  \cup { Apply(d, m) : d \in Documents, m \in IdeBatches }
  \cup { [Open EXCEPT !.fit = FALSE] }

IdeWrites ==
  /\ session.driver = "ide" /\ ~client.closed
  /\ Len(sent) < MaxLines /\ Len(stdin) < PipeLines
  /\ \E line \in IdeLines : Write(line)
  /\ UNCHANGED <<stdout, stderr, client>>
  /\ UnchangedRunner

IdeCloses ==
  /\ session.driver = "ide" /\ ~client.closed
  /\ client' = [client EXCEPT !.closed = TRUE]
  /\ UNCHANGED <<stdin, stdout, stderr, sent>>
  /\ UnchangedRunner

IdeReads ==
  /\ session.driver = "ide" /\ ~client.gone
  /\ \/ client.out < Len(stdout) /\ client' = [client EXCEPT !.out = @ + 1]
     \/ client.err < Len(stderr) /\ client' = [client EXCEPT !.err = @ + 1]
  /\ UNCHANGED <<stdin, stdout, stderr, sent>>
  /\ UnchangedRunner

IdeGoes ==
  /\ session.driver = "ide" /\ ~client.gone
  /\ client' = [client EXCEPT !.closed = TRUE, !.gone = TRUE]
  /\ UNCHANGED <<stdin, stdout, stderr, sent>>
  /\ UnchangedRunner

ClientStep ==
  \/ Call \/ Receive \/ StdoutClosed \/ DrainStderr \/ WaitForSceneTraces
  \/ WaitTimesOut \/ Conclude \/ IdeWrites \/ IdeCloses \/ IdeReads \/ IdeGoes

Next == RunnerStep \/ Kill \/ ClientStep

(* The sidecar, the suite and its reader thread are scheduled; nothing ends *)
(* a tool of the host, and nothing makes a user write, read or kill.        *)
Fairness ==
  /\ WF_vars(~ToolRuns /\ RunnerStep)
  /\ WF_vars(Call \/ Receive \/ StdoutClosed \/ WaitForSceneTraces \/ WaitTimesOut \/ Conclude)
  /\ WF_vars(DrainStderr)

Spec == Init /\ [][Next]_vars /\ Fairness

-----------------------------------------------------------------------------
(* Properties. *)

ReadLines == 1..(Len(sent) - Len(stdin))

(* The reply that went to a broken pipe, and ended the sidecar: to the last *)
(* line that was read.                                                      *)
LostReply == IF client.gone /\ proc = "failed" THEN {Len(sent) - Len(stdin)} ELSE {}

(* Every request read has exactly one reply, in the order of the requests,  *)
(* whatever is refused, applied in part or cut off by the end of the        *)
(* process: blank and malformed lines have none, the batch under way has    *)
(* not yet, and only the one whose writing failed is lost, which is the     *)
(* last thing the sidecar does (handle_request_line, run_stdio).            *)
RepliesInOrder ==
  session.driver = "ide" =>
    /\ \A j, k \in DOMAIN stdout : j < k => stdout[j].id < stdout[k].id
    /\ LET due == {i \in ReadLines : sent[i].form = "request" /\ i # batch.id}
           ids == {stdout[k].id : k \in DOMAIN stdout}
       IN ids \subseteq due /\ due \ ids \subseteq LostReply

(* The traces of the first n mutations of the batch on line i.              *)
TracesOfLine(i, n) ==
  {KiCadDelta(i, sent[i].doc, j, sent[i].muts[j])[x] : j \in 1..n, x \in 1..2}

(* Those of what was answered as applied, and of the batch under way, whose *)
(* next mutation may have its nodes upserted and not its edges.             *)
TracesAnswered ==
  UNION {TracesOfLine(stdout[k].id, stdout[k].applied) : k \in DOMAIN stdout}
TracesUnderWay ==
  IF batch = NoBatch THEN {}
  ELSE TracesOfLine(batch.id, batch.at - 1) \cup (IF batch.half THEN {Delta[1]} ELSE {})
TracesApplied == TracesAnswered \cup TracesUnderWay

(* The order of requests, of the mutations in one, and of their upserts.    *)
TracedBefore(s, t) ==
  \/ s.line < t.line
  \/ s.line = t.line /\ s.commit[2] < t.commit[2]
  \/ s.line = t.line /\ s.commit[2] = t.commit[2]
       /\ s.method = "upsertNodes" /\ t.method = "upsertEdges"

OpenedBefore(k) ==
  \E j \in 1..(k - 1) : sent[stdout[j].id].method = "open" /\ stdout[j].code = 0

(* What an IDE host is told it applied is what the scene graph was told:    *)
(* on the KiCad sidecar stderr holds, in order, the upserts of exactly the  *)
(* mutations counted as applied, those of the batch under way included, and *)
(* at most one node without its edge, that of the mutation at hand, which a *)
(* kill or a broken pipe leaves behind and no reply counts; FreeCAD writes  *)
(* none.  Every mutation of a carried-out batch is either counted or        *)
(* reported, and nothing is applied or exported but for a project whose     *)
(* opening was answered (apply_and_upsert, emit_scene_trace,                *)
(* ProjectNotOpen).                                                         *)
AppliedIsTraced ==
  session.driver = "ide" =>
    /\ {stderr[x] : x \in DOMAIN stderr} =
         IF session.sidecar = "kicad" THEN TracesApplied ELSE {}
    /\ \A x, y \in DOMAIN stderr : x < y => TracedBefore(stderr[x], stderr[y])
    /\ \A k \in DOMAIN stdout :
         LET r == stdout[k] IN
         sent[r.id].method = "apply" /\ r.code = 0 /\ r.errors # <<0>>
           => r.applied + Len(r.errors) = Len(sent[r.id].muts)
    /\ \A k \in DOMAIN stdout :
         stdout[k].applied > 0 \/ stdout[k].artifacts > 0 => OpenedBefore(k)

(* The exports of a round trip on the host's KiCad, one of which came to    *)
(* nothing: the binding's error has become an empty list.                   *)
ExportCameToNothing ==
  /\ session.host /\ session.sidecar = "kicad" /\ session.driver = "roundtrip"
  /\ client.replies[4].artifacts = 0 \/ client.replies[5].artifacts = 0

(* The suite's five seconds ran out while the traces it waited for were all *)
(* written and only not drained.                                            *)
DrainedTooLate ==
  /\ ~ScriptDone /\ Step.form = "wait"
  /\ TraceCount(client.traces \o stderr, "upsertNodes") >= Step.nodes
  /\ TraceCount(client.traces \o stderr, "upsertEdges") >= Step.edges

(* The host's FreeCAD did not answer to its name.                           *)
OpenRefused ==
  /\ session.host /\ session.sidecar = "freecad"
  /\ ~ScriptDone /\ Step.form = "request" /\ Step.method = "open"

(* The suites raise no false alarm: a suite whose sidecar was not killed    *)
(* ends "ok", unless its five seconds ran out with every trace written or,  *)
(* on the host's tools, FreeCAD was not there or an export of KiCad came to *)
(* nothing.  The replies and the traces come through two pipes, read by two *)
(* threads, so this rests on the traces of a batch being written before its *)
(* reply (apply_and_upsert against wait_for_scene_traces).                  *)
NoFalseAlarm ==
  /\ client.verdict = "failed" => ExportCameToNothing
  /\ client.verdict = "raised" /\ proc # "killed" => DrainedTooLate \/ OpenRefused

(* Every suite comes to a verdict, also when the sidecar dies under it, but *)
(* for a tool of the host that never ends; and a sidecar whose input is     *)
(* closed goes away, but for such a tool or an IDE that leaves a pipe full  *)
(* (call, close, run_stdio, probe_cli).                                     *)
SuitesConclude ==
  /\ (session.driver = "ide" \/ <>(client.verdict # "none")) \/ <>[]ToolRuns
  /\ \/ client.closed ~> proc # "running"
     \/ <>[]ToolRuns
     \/ <>[](session.driver = "ide" /\ WaitsForRoom)

=============================================================================
