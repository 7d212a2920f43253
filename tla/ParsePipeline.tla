--------------------------- MODULE ParsePipeline ---------------------------
(***************************************************************************)
(* From an upload to a searchable version: the API stores a version and    *)
(* sends a parse task; a parser worker parses, stores the result and sends *)
(* a link task; a graph worker merges the version into the part graph,     *)
(* indexes it for search and sends an enrichment task.  parser/worker.py,  *)
(* graph/tasks.py, graph/linker.py, api/app/services/{objects, bundles,    *)
(* import_pipeline, tasks, search, enrichment}.py.                         *)
(*                                                                         *)
(* Celery acknowledges a task when a worker takes it, so a crash loses it. *)
(* What is parsed is abstracted to the parts it names (PartsOf).           *)
(***************************************************************************)
EXTENDS PartGraph, Bags

CONSTANTS
  Workers,      \* worker processes, of either queue
  RawVersions,  \* versions no parser but RawStore takes
  MaxRetries,   \* max_retries of parse_object and auto_link_version
  Budgets       \* the bounds: how many requests, faults (crashes, restarts, outages,
                \* errors of other services), parse tasks sent by hand and links
                \* made or deleted by users a behaviour may have

ASSUME PipelineAssumption ==
  /\ RawVersions \subseteq Versions
  /\ \A v \in RawVersions : PartsOf[v] = {}
  /\ MaxRetries \in Nat
  /\ Budgets \subseteq [requests : Nat, faults : Nat, redrives : Nat, links : Nat]

VARIABLES
  rows,      \* parse_status of each version; "absent" while its row is not committed
  keyed,     \* versions whose row has a parsed_key
  request,   \* the upload, bundle or import an API process is serving
  queue,     \* the bag of tasks sent and not taken
  runs,      \* what each worker is doing
  stored,    \* versions whose parsed output is in storage
  index,     \* versions in the search index
  enriched,  \* parts with a row of their own
  published, \* <<event type, version>> in the event log
  excused,   \* <<what, version>>: work that was lost, and so may stay undone (history)
  budget     \* what is left of the bounds

taskVars == <<rows, keyed, queue, runs, stored, index, enriched, published>>
vars == <<neo, links, unlinked, told, restarted, rows, keyed, request, queue, runs, stored,
          index, enriched, published, excused, budget>>

Statuses == {"absent", "pending", "processing", "complete", "skipped", "failed"}
Idle == [pc |-> "idle"]
NoRequest == [kind |-> "none"]

(* A parse task has the form the API gives it, with a parse_context, the    *)
(* form the import adds, with a UUID for a string, or the one parse_object  *)
(* takes.                                                                   *)
Task(name, v, form, try) == [name |-> name, version |-> v, form |-> form, try |-> try]
Send(tasks) == queue' = queue (+) SetToBag(tasks)

Init ==
  /\ GraphInit
  /\ rows = [v \in Versions |-> "absent"]
  /\ request = NoRequest
  /\ queue = EmptyBag
  /\ runs = [w \in Workers |-> Idle]
  /\ keyed = {} /\ stored = {} /\ index = {} /\ enriched = {}
  /\ published = {} /\ excused = {}
  /\ budget \in Budgets

Spend(what) == budget[what] > 0 /\ budget' = [budget EXCEPT ![what] = @ - 1]
Fault == Spend("faults")

-----------------------------------------------------------------------------
(* Requests that store versions: one upload, or a bundle or an import of    *)
(* new objects, whose rows are committed together at the end.               *)

Committed(v) == rows[v] # "absent"
NextNumber(v) == ~Committed(v) /\ \A w \in Previous(v) : Committed(w)
FirstOf(v) == ~Committed(v) /\ NumberOf[v] = 1

(* The relationships a manifest may ask for: any pair of what it brings.    *)
Relationships(vs) ==
  {l \in ObjectLinks : {l.from, l.to} \subseteq {ObjectNode(ObjectOf[v]) : v \in vs}}
  \cup {Edge(VersionNode(v), "DERIVED_FROM", VersionNode(w)) : v, w \in vs}

BeginRequest(p) ==
  /\ request = NoRequest /\ Spend("requests")
  /\ \/ \E v \in Versions :
          /\ NextNumber(v)
          /\ request' = [kind |-> "upload", by |-> p, left |-> {v}, made |-> {}, rels |-> {}]
     \/ \E vs \in SUBSET {v \in Versions : FirstOf(v)}, kind \in {"bundle", "import"} :
          /\ vs # {}
          /\ \E rels \in {{}} \cup
                 IF kind = "bundle" THEN {{l} : l \in Relationships(vs)} ELSE {} :
               request' = [kind |-> kind, by |-> p, left |-> vs, made |-> {}, rels |-> rels]
  /\ UNCHANGED <<graphVars, taskVars, excused>>

(* ObjectService.upload: the row is added and the parse task sent; the      *)
(* import sends another.  _link_derived_from then asks the graph for a      *)
(* version it cannot have yet, and drops the error.                         *)
UploadOne ==
  /\ request # NoRequest
  /\ \E v \in request.left :
       /\ request' = [request EXCEPT !.left = @ \ {v}, !.made = @ \cup {v}]
       /\ Send({Task("parse", v, "api", 0)} \cup
               IF request.kind = "import" THEN {Task("parse", v, "uuid", 0)} ELSE {})
  /\ UNCHANGED <<graphVars, rows, keyed, runs, stored, index, enriched, published,
                 excused, budget>>

(* _apply_relationships, before the rows are committed. *)
ApplyRelationship ==
  /\ request # NoRequest /\ request.left = {}
  /\ \E l \in request.rels :
       /\ MakeLink(request.by, l)
       /\ request' = [request EXCEPT !.rels = @ \ {l}]
  /\ UNCHANGED <<told, restarted, taskVars, excused, budget>>

CommitRequest ==
  /\ request # NoRequest /\ request.left = {} /\ request.rels = {}
  /\ rows' = [v \in Versions |-> IF v \in request.made THEN "pending" ELSE rows[v]]
  /\ request' = NoRequest
  /\ UNCHANGED <<graphVars, keyed, queue, runs, stored, index, enriched, published,
                 excused, budget>>

(* link_failed, or an error of the database or the storage: the rows are    *)
(* gone, the tasks sent and the links made are not.                         *)
AbortRequest ==
  /\ request # NoRequest
  /\ \/ request.left = {} /\ (\E l \in request.rels : LinkFails(l)) /\ UNCHANGED budget
     \/ Fault
  /\ request' = NoRequest
  /\ UNCHANGED <<graphVars, taskVars, excused>>

-----------------------------------------------------------------------------
(* The parser worker. *)

(* parse_object knows no parse_context (TypeError), and UUID(version_id)    *)
(* of a UUID raises again in the handler of its own error: the task fails,  *)
(* nothing is written and nothing retried.                                  *)
RefuseTask ==
  /\ \E t \in BagToSet(queue) :
       /\ t.form # "plain"
       /\ queue' = queue (-) SetToBag({t})
  /\ UNCHANGED <<graphVars, rows, keyed, request, runs, stored, index, enriched,
                 published, excused, budget>>

(* An operator sends a parse task in the form parse_object takes. *)
Redrive ==
  /\ \E v \in Versions : Committed(v) /\ Send({Task("parse", v, "plain", 0)})
  /\ Spend("redrives")
  /\ UNCHANGED <<graphVars, rows, keyed, request, runs, stored, index, enriched,
                 published, excused>>

First == [parse |-> "start", link |-> "read", enrich |-> "select"]

TakeTask(w) ==
  /\ runs[w] = Idle
  /\ \E t \in BagToSet(queue) :
       /\ t.form = "plain"
       /\ queue' = queue (-) SetToBag({t})
       /\ runs' = [runs EXCEPT ![w] =
            [pc |-> First[t.name], name |-> t.name, v |-> t.version, try |-> t.try,
             parts |-> {}]]
  /\ UNCHANGED <<graphVars, rows, keyed, request, stored, index, enriched,
                 published, excused, budget>>

At(w, pc) == runs[w].pc = pc
Goto(w, pc) == runs' = [runs EXCEPT ![w].pc = pc]
EndRun(w) == runs' = [runs EXCEPT ![w] = Idle]
(* Mutant: the last retry is retried. *)
RetryOnceMore(w) == Send(IF runs[w].try <= MaxRetries
                         THEN {Task(runs[w].name, runs[w].v, "plain", runs[w].try + 1)} ELSE {})

Retry(w) == Send(IF runs[w].try < MaxRetries
                 THEN {Task(runs[w].name, runs[w].v, "plain", runs[w].try + 1)} ELSE {})

SetProcessing(w) ==
  /\ At(w, "start")
  /\ IF Committed(runs[w].v)
     THEN rows' = [rows EXCEPT ![runs[w].v] = "processing"] /\ Goto(w, "parse")
     ELSE UNCHANGED rows /\ EndRun(w)
  /\ UNCHANGED <<graphVars, keyed, request, queue, stored, index, enriched,
                 published, excused, budget>>

StoreParsed(w) ==
  /\ At(w, "parse")
  /\ stored' = stored \cup {runs[w].v}
  /\ Goto(w, "conclude")
  /\ UNCHANGED <<graphVars, rows, keyed, request, queue, index, enriched,
                 published, excused, budget>>

(* Only a version that is complete is announced and linked. *)
ConcludeParse(w) ==
  /\ At(w, "conclude")
  /\ LET v == runs[w].v IN
     /\ keyed' = keyed \cup {v}
     /\ rows' = [rows EXCEPT ![v] = IF v \in RawVersions THEN "skipped" ELSE "complete"]
     /\ IF v \in RawVersions THEN EndRun(w) ELSE Goto(w, "announce")
  /\ UNCHANGED <<graphVars, request, queue, stored, index, enriched, published,
                 excused, budget>>

(* Mutant: announcing and enqueueing share one handler. *)
AnnounceOrNothing(w) ==
  /\ At(w, "announce")
  /\ \/ /\ published' = published \cup {<<"parse_complete", runs[w].v>>}
        /\ Goto(w, "chain") /\ UNCHANGED budget
     \/ Fault /\ UNCHANGED published /\ EndRun(w)
  /\ UNCHANGED <<graphVars, rows, keyed, request, queue, stored, index, enriched, excused>>

(* An error here is rolled back and forgotten, as is one of the next step.  *)
AnnounceParse(w) ==
  /\ At(w, "announce")
  /\ \/ published' = published \cup {<<"parse_complete", runs[w].v>>} /\ UNCHANGED budget
     \/ Fault /\ UNCHANGED published
  /\ Goto(w, "chain")
  /\ UNCHANGED <<graphVars, rows, keyed, request, queue, stored, index, enriched, excused>>

EnqueueAutoLink(w) ==
  /\ At(w, "chain")
  /\ \/ Send({Task("link", runs[w].v, "plain", 0)}) /\ UNCHANGED <<excused, budget>>
     \/ /\ Fault /\ UNCHANGED queue
        /\ excused' = excused \cup {<<"link", runs[w].v>>}
  /\ EndRun(w)
  /\ UNCHANGED <<graphVars, rows, keyed, request, stored, index, enriched, published>>

(* Mutant: an error of the parser is swallowed. *)
ParseRaisesUnheard(w) ==
  /\ At(w, "parse")
  /\ Fault /\ Goto(w, "conclude")
  /\ UNCHANGED <<graphVars, rows, keyed, request, queue, stored, index, enriched,
                 published, excused>>

(* The file, the storage or the database raises. *)
ParseRaises(w) ==
  /\ runs[w].pc \in {"start", "parse", "conclude"}
  /\ Fault /\ Goto(w, "fail")
  /\ UNCHANGED <<graphVars, rows, keyed, request, queue, stored, index, enriched,
                 published, excused>>

(* Mutant: the handler's commit is missing. *)
SetFailedUncommitted(w) ==
  /\ At(w, "fail")
  /\ Goto(w, "retry")
  /\ UNCHANGED <<graphVars, rows, keyed, request, queue, stored, index, enriched,
                 published, excused, budget>>

(* The handler may raise in its turn: then nothing is written nor retried.  *)
SetFailed(w) ==
  /\ At(w, "fail")
  /\ LET v == runs[w].v IN
     \/ /\ rows' = IF Committed(v) THEN [rows EXCEPT ![v] = "failed"] ELSE rows
        /\ Goto(w, "retry")
        /\ UNCHANGED <<excused, budget>>
     \/ /\ Fault /\ EndRun(w)
        /\ excused' = excused \cup {<<"parse", v>>}
        /\ UNCHANGED rows
  /\ UNCHANGED <<graphVars, keyed, request, queue, stored, index, enriched, published>>

RetryParse(w) ==
  /\ At(w, "retry")
  /\ Retry(w) /\ EndRun(w)
  /\ UNCHANGED <<graphVars, rows, keyed, request, stored, index, enriched, published,
                 excused, budget>>

-----------------------------------------------------------------------------
(* The graph worker. *)

ReadVersion(w) ==
  /\ At(w, "read")
  /\ IF rows[runs[w].v] \in {"complete", "skipped"}
     THEN runs' = [runs EXCEPT ![w].pc = "scaffold", ![w].parts = PartsOf[runs[w].v]]
     ELSE EndRun(w)
  /\ UNCHANGED <<graphVars, rows, keyed, request, queue, stored, index, enriched,
                 published, excused, budget>>

(* Mutant: a query that finds the database gone is left out. *)
RunQueryBestEffort(w) ==
  /\ LET v == runs[w].v IN
     \/ At(w, "scaffold") /\ neo' = (IF neo.up THEN Scaffold(v) ELSE neo) /\ Goto(w, "parts")
     \/ /\ At(w, "parts") /\ runs[w].parts # {}
        /\ \E p \in runs[w].parts :
             /\ neo' = (IF neo.up THEN LinkPart(v, p) ELSE neo)
             /\ runs' = [runs EXCEPT ![w].parts = @ \ {p}]
     \/ /\ At(w, "parts") /\ runs[w].parts = {}
        /\ neo' = (IF neo.up THEN LinkVersionEdges(v) ELSE neo) /\ Goto(w, "derived")
     \/ At(w, "derived") /\ neo' = (IF neo.up THEN LinkDerived(v) ELSE neo) /\ Goto(w, "index")
  /\ Remake
  /\ UNCHANGED <<links, told, restarted, rows, keyed, request, queue, stored, index,
                 enriched, published, excused, budget>>

(* One query after the other; each may find the database gone. *)
RunQuery(w) ==
  /\ neo.up
  /\ LET v == runs[w].v IN
     \/ At(w, "scaffold") /\ neo' = Scaffold(v) /\ Goto(w, "parts")
     \/ /\ At(w, "parts") /\ runs[w].parts # {}
        /\ \E p \in runs[w].parts :
             /\ neo' = LinkPart(v, p)
             /\ runs' = [runs EXCEPT ![w].parts = @ \ {p}]
     \/ /\ At(w, "parts") /\ runs[w].parts = {}
        /\ neo' = LinkVersionEdges(v) /\ Goto(w, "derived")
     \/ At(w, "derived") /\ neo' = LinkDerived(v) /\ Goto(w, "index")
  /\ Remake
  /\ UNCHANGED <<links, told, restarted, rows, keyed, request, queue, stored, index,
                 enriched, published, excused, budget>>

(* Mutant: the search index is filled before the graph. *)
IndexFirst(w) ==
  /\ At(w, "scaffold") \/ At(w, "index")
  /\ index' = index \cup {runs[w].v}
  /\ IF At(w, "index") THEN Goto(w, "delay") ELSE UNCHANGED runs
  /\ UNCHANGED <<graphVars, rows, keyed, request, queue, stored, enriched, published,
                 excused, budget>>

IndexVersion(w) ==
  /\ At(w, "index")
  /\ index' = index \cup {runs[w].v}
  /\ Goto(w, "delay")
  /\ UNCHANGED <<graphVars, rows, keyed, request, queue, stored, enriched, published,
                 excused, budget>>

EnqueueEnrich(w) ==
  /\ At(w, "delay")
  /\ Send({Task("enrich", runs[w].v, "plain", 0)})
  /\ Goto(w, "tell")
  /\ UNCHANGED <<graphVars, rows, keyed, request, stored, index, enriched, published,
                 excused, budget>>

AnnounceLink(w) ==
  /\ At(w, "tell")
  /\ \/ published' = published \cup {<<"auto_link_complete", runs[w].v>>} /\ UNCHANGED budget
     \/ Fault /\ UNCHANGED published
  /\ EndRun(w)
  /\ UNCHANGED <<graphVars, rows, keyed, request, queue, stored, index, enriched, excused>>

(* Any error starts the whole task again, from the beginning. *)
LinkRaises(w) ==
  /\ \/ runs[w].pc \in {"scaffold", "parts", "derived"} /\ ~neo.up /\ UNCHANGED budget
     \/ runs[w].pc \in {"read", "index", "delay"} /\ Fault
  /\ Retry(w) /\ EndRun(w)
  /\ excused' = IF runs[w].try < MaxRetries THEN excused
                ELSE excused \cup {<<"link", runs[w].v>>}
  /\ UNCHANGED <<graphVars, rows, keyed, request, stored, index, enriched, published>>

(* get_or_enrich_part: what is not there is inserted at once and committed  *)
(* at the end; somebody else's row of the same part undoes all of it, and   *)
(* the task is not retried.                                                 *)
SelectParts(w) ==
  /\ At(w, "select")
  /\ IF runs[w].v \in keyed
     THEN runs' = [runs EXCEPT ![w].pc = "insert", ![w].parts = PartsOf[runs[w].v] \ enriched]
     ELSE EndRun(w)
  /\ UNCHANGED <<graphVars, rows, keyed, request, queue, stored, index, enriched,
                 published, excused, budget>>

InsertParts(w) ==
  /\ At(w, "insert")
  /\ IF runs[w].parts \cap enriched = {}
     THEN enriched' = enriched \cup runs[w].parts /\ UNCHANGED excused
     ELSE excused' = excused \cup {<<"enrich", runs[w].v>>} /\ UNCHANGED enriched
  /\ EndRun(w)
  /\ UNCHANGED <<graphVars, rows, keyed, request, queue, stored, index, published, budget>>

Crash(w) ==
  /\ runs[w] # Idle
  /\ Fault /\ EndRun(w)
  /\ excused' = excused \cup
       {<<IF runs[w].pc = "chain" \/ runs[w].pc = "announce" THEN "link" ELSE runs[w].name,
          runs[w].v>>}
       \cup IF runs[w].pc = "delay" THEN {<<"enrich", runs[w].v>>} ELSE {}
  /\ UNCHANGED <<graphVars, rows, keyed, request, queue, stored, index, enriched, published>>

-----------------------------------------------------------------------------
(* Users of the graph. *)

UserLinks(p) ==
  /\ \E l \in ObjectLinks :
       /\ \A end \in {l.from, l.to} :
            \E v \in Versions : ObjectNode(ObjectOf[v]) = end /\ Committed(v)
       /\ CreateLink(p, l)
  /\ Spend("links")
  /\ UNCHANGED <<taskVars, request, excused>>

UserUnlinks(p) ==
  /\ \E relationship \in Deletable(p) : DeleteLink(p, relationship)
  /\ Spend("links")
  /\ UNCHANGED <<taskVars, request, excused>>

Restart(p) == RestartProcess(p) /\ Fault /\ UNCHANGED <<taskVars, request, excused>>
Outage == DatabaseStops /\ Fault /\ UNCHANGED <<taskVars, request, excused>>
Recovery == DatabaseStarts /\ UNCHANGED <<taskVars, request, excused, budget>>

-----------------------------------------------------------------------------
WorkerStep(w) ==
  \/ TakeTask(w) \/ SetProcessing(w) \/ StoreParsed(w) \/ ConcludeParse(w)
  \/ AnnounceParse(w) \/ EnqueueAutoLink(w) \/ SetFailed(w) \/ RetryParse(w)
  \/ ReadVersion(w) \/ RunQuery(w) \/ IndexVersion(w) \/ EnqueueEnrich(w)
  \/ AnnounceLink(w) \/ LinkRaises(w) \/ SelectParts(w) \/ InsertParts(w)

RequestStep == UploadOne \/ ApplyRelationship \/ CommitRequest \/ AbortRequest

Next ==
  \/ \E w \in Workers : WorkerStep(w) \/ ParseRaises(w) \/ Crash(w)
  \/ RequestStep \/ RefuseTask \/ Redrive \/ Outage \/ Recovery
  \/ \E p \in Processes : BeginRequest(p) \/ UserLinks(p) \/ UserUnlinks(p) \/ Restart(p)

(* Celery keeps its workers running, and a request that has begun goes on;  *)
(* nobody has to crash, to redrive or to ask.                               *)
Progress == (\E w \in Workers : WorkerStep(w)) \/ RequestStep \/ RefuseTask

Spec == Init /\ [][Next]_vars /\ WF_vars(Progress)

-----------------------------------------------------------------------------
(* Properties. *)

(* The type invariant; no task is tried more often than it may be.          *)
TypeOK ==
  /\ neo.nodes \subseteq Nodes
  /\ \A e \in neo.edges : {e.from, e.to} \subseteq Nodes
  /\ rows \in [Versions -> Statuses]
  /\ request = NoRequest \/ request.left \cup request.made \subseteq Versions
  /\ \A t \in BagToSet(queue) : t.version \in Versions /\ t.try \in 0..MaxRetries
  /\ \A w \in Workers : runs[w] = Idle \/ runs[w].v \in Versions
  /\ keyed \cup stored \cup index \subseteq Versions
  /\ published \subseteq {"parse_complete", "auto_link_complete"} \X Versions

(* A row that names a parsed output, says complete, or was announced as     *)
(* parsed has that output in storage, whichever worker wrote the row last   *)
(* and whatever a duplicate or a retry of the task did since (parse_object  *)
(* uploads before it commits).                                              *)
ParsedMeansStored ==
  \A v \in Versions :
    v \in keyed \/ rows[v] \in {"complete", "skipped"} \/ <<"parse_complete", v>> \in published
      => v \in stored /\ v \in keyed

(* A search hit can be followed: what the index has was put in the graph    *)
(* whole, and but for the edges that users deleted since it is found there: *)
(* the version in its object's lineage, its parts among the object's        *)
(* dependencies.  What is announced as linked is in the index               *)
(* (auto_link_version, which may be retried from the beginning at any query *)
(* while users delete what it has made).                                    *)
IndexedMeansLinked ==
  \A v \in Versions :
    /\ <<"auto_link_complete", v>> \in published => v \in index
    /\ v \in index =>
         /\ LinkedFully(v)
         /\ neo.up /\ HasVersion(v) \notin unlinked =>
              /\ v \in Lineage(ObjectOf[v])
              /\ \A p \in PartsOf[v] :
                   Uses(v, p) \notin unlinked => p \in Dependencies(ObjectOf[v])

(* A link that was answered 201 stays until it is answered 204: in the      *)
(* database, or in the process that made it, which lists it at both ends    *)
(* until a restart or, of all its links, until it holds a DERIVED_FROM.     *)
LinksKept ==
  \A relationship \in told :
    LET where == relationship[1]
        l == relationship[2]
    IN IF where = Database THEN l \in neo.edges
       ELSE where \in restarted \/ ListingFails(where) \/ \E a, b \in Objects :
              /\ l.from = ObjectNode(a) /\ l \in EdgesOut(where, a)
              /\ l.to = ObjectNode(b) /\ l \in EdgesIn(where, b)

(* The versions' artifacts come into being in order, whatever is lost,      *)
(* repeated or retried, and only users take edges of a subgraph away again: *)
(* the pipeline implements ArtifactStages.                                  *)
StageOf(v) ==
  IF v \in index THEN 4
  ELSE IF LinkedFully(v) THEN 3
  ELSE IF v \in stored THEN 2
  ELSE IF Committed(v) THEN 1 ELSE 0

stages == [v \in Versions |-> StageOf(v)]

Stages == INSTANCE ArtifactStages WITH stage <- stages
ArtifactsInOrder == Stages!Spec

(* When no more requests and faults come, no version is left "processing"   *)
(* but one whose worker died or could not even note that the parse failed   *)
(* (every other way out of parse_object sets a status).                     *)
ParsesSettle ==
  <>[](\A v \in Versions : rows[v] = "processing" => <<"parse", v>> \in excused)

(* And every parsed version is linked and indexed, and its parts enriched,  *)
(* unless its task was lost or ran out of retries: a link task that finds   *)
(* its version in another parse is dropped, and that parse sends its own.   *)
ChainCompletes ==
  <>[](\A v \in Versions :
         /\ rows[v] = "complete" => v \in index \/ <<"link", v>> \in excused
         /\ v \in index => \/ PartsOf[v] \subseteq enriched
                           \/ {<<"link", v>>, <<"enrich", v>>} \cap excused # {})

(* docs/graph-schema.md:84: the linker makes the SUPERSEDES edge.  It does   *)
(* not where the previous version has no node yet, and nobody makes it then: *)
(* this does not hold.                                                      *)
SupersedesMade ==
  \A v, w \in index : w \in Previous(v) => Supersedes(v) \subseteq Made

(* docs/graph-schema.md:23: an upload gets its HAS_VERSION edge.  It does   *)
(* not: no task the API sends is one the worker runs.                       *)
UploadsGetLinked ==
  \A v \in Versions : Committed(v) ~> HasVersion(v) \in neo.edges

=============================================================================
