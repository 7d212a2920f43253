# A verification of HCP in TLA+

HCP is a collaboration platform for hardware projects: a FastAPI server over
PostgreSQL, Neo4j, object storage and queues, workers that parse and link what is
uploaded, sidecars beside CAD tools, SDKs, a command line and a web client. The
modules here model the parts of it where requests, workers and clients act on
shared state, check them with TLC on small instances, and prove with TLAPS, for all
instances, the invariants and action properties that were checked and one refinement.

Paths below are relative to `src/`; `services/`, `routers/` and `auth/` are those
of `src/api/app/`.

## 1. Inventory

Status: **M** modelled, **P** partly, **-** not modelled (section 7 says why).

| Component | State it keeps | Operations | Status, module |
|---|---|---|---|
| HOS version control (`services/hos_version_control.py`) | branches with heads, commits with parents, object snapshots and warnings, merges, conflict rows, audit rows | create_branch, commit, merge, resolve_conflict (and the completion of a merge it may trigger) | M `HosVersionControl` |
| Event log (`services/events.py`, `routers/events.py`) | `event_log`: rows numbered by a sequence, unique keys, unique event_ids | publish, poll with a cursor | M `EventLog`, `EventTransaction` |
| Soft locks (`services/collaboration.py`) | one row per resource: holder, expiry | acquire, release, list | M `SoftLocks` |
| Presence (`services/collaboration.py`) | one row per user and session id: last heartbeat | heartbeat, leave, list | M `Presence` |
| Alerts, CRDT envelopes | event rows only | publish | P: a publish of the event log |
| Object store (`services/objects.py`) | objects, versions, blobs | upload, deduplicate | M `ObjectStore` |
| Lifecycle (`services/objects.py`, `services/lifecycle.py`) | a version's lifecycle_state, audit rows, the object's deletion | promote, soft_delete | M `Lifecycle` |
| Parse pipeline (`parser/worker.py`, `services/tasks.py`) | the task queue, parse_status, parsed_key, parsed blobs | enqueue, parse_object, retry | M `ParsePipeline` |
| Link, index and enrich tasks (`graph/tasks.py`, `graph/linker.py`) | the graph, the search index, part rows | auto_link_version, enrich_parts_for_version | M `ParsePipeline` on `PartGraph` |
| Graph service (`services/graph.py`) | Neo4j, or a dictionary of the API process | create, delete and list links; dependencies, lineage | P `PartGraph` |
| Import pipeline, bundles | none of their own | upload several versions, link them | P: the requests of `ParsePipeline` |
| Parser selection, search, BOM and parts | part rows; the index | resolve_parser, queries, enrichment | P: what they change is in `ParsePipeline` |
| Scene graph (`services/scene_graph.py`) | nodes, edges, identities, snapshots | batch upsert, snapshot, attach to a commit | M `SceneGraph` |
| HNF documents (`services/hnf.py`) | documents, object snapshots | upsert, snapshot, validate | P: in `SceneGraph` and `HosVersionControl` |
| Organisations and invites (`services/org_invites.py`, `routers/orgs.py`) | organisations, accounts, invites | register, invite, accept | M `Accounts` |
| Authentication, API keys (`auth/`, `routers/auth.py`) | refresh tokens, keys | log in, refresh, log out, revoke, check | P `Accounts` |
| Sidecar runner and protocol (`rust/crates/`), regression client (`scripts/regression/`) | the request loop; the client's replies and traces | handle_request_line, run_stdio, call, wait_for_scene_traces | M `Sidecar` |
| KiCad and FreeCAD sidecars | the open project | open, applyMutations, export | M `Sidecar` |
| Simulation sidecars | none | read one payload, run one job, exit | - |
| HNF adapters (`adapters/crates/`) | none | mutation to scene delta | P `Sidecar` |
| Parsers, projects, rate limiting, middleware, schema, providers, SDKs, CLI, web client, deployment | | | - |

How they interact:

* Every API request has one SQLAlchemy session and one transaction
  (`dependencies.py` `get_db`), committed by the router. PostgreSQL runs it at
  READ COMMITTED: two SELECTs of a request may see different databases.
* Services write audit rows and publish events **inside** the caller's
  transaction. `EventPublisher.publish` answers a duplicate key by rolling that
  transaction back (`services/events.py:64`) and returning the old event. Whether
  this undoes a caller's work depends on the caller's choice of key, so it
  concerns every component that publishes.
* An upload sends a parse task before its row is committed. The parse worker
  stores the output, writes the status, publishes and sends a link task; the
  graph worker merges the version into Neo4j query by query, indexes it and
  sends an enrichment task. Celery acknowledges a task when it is taken, so a
  worker that dies loses it.
* API processes write links to the same graph, or, while Neo4j is away, to their
  own memory.
* A sidecar answers requests on stdout and traces its writes to the scene graph
  on stderr, both pipes of limited room; a client reads the two with two threads.
* Clients learn of changes by polling `event_log` with a cursor.

The hard behaviours are therefore interleavings of transactions at READ
COMMITTED, writes undone by an event, numbers that become visible out of order,
leases that expire between a read and a write, rows of which only the changed columns
are written, blobs stored before the row that
may be refused, tasks lost, repeated or run before what they need is committed,
row locks taken in crossing orders, credentials withdrawn while a request runs,
and replies and traces that overtake each other. `PROJECT.json` lists each under
"hazards" at its line, with the property that guards against it or the reason
why there is none.

What makes each modelled component correct:

* *Version control*: the history is acyclic and stays in its project; a merge
  loses no path of either side unsaid; conflict rows are what has to be resolved, no
  more and no less; a merge whose conflicts are resolved completes, once, with
  those resolutions; audit and event logs tell exactly what happened.
* *Event log*: a key is logged once; a client is handed an event once.
* *Soft locks*: a running lock is not taken by another user; the log mirrors
  the table.
* *Presence*: who keeps posting heartbeats is listed, who left is not, and an id
  has one row.
* *Object store*: versions are numbered without gaps or doubles; a row has its
  blob and its parse task; two contents never share a key.
* *Lifecycle*: state, audit trail and event log agree; nothing is released that
  was not reviewed.
* *Pipeline and graph*: what is said to be parsed is stored, what is found by a
  search was put in the graph whole; artifacts come in order, and only users take
  them away; nothing is left half done unless a task was lost; links that were
  answered stay.
* *Scene graph*: what an upsert answered is stored until a later one writes it; a commit's snapshot is made
  and told of once; requests that lock each other out end.
* *Accounts*: a member has been given its role; an invite is used once; nobody is
  admitted with what was withdrawn before.
* *Sidecars*: one reply per request, in order; what is counted as applied was
  traced; a suite neither hangs nor raises a false alarm.

## 2. The modules and the code

| Module | Models | Variables and what they are |
|---|---|---|
| `HosVersionControl` | `services/hos_version_control.py` with the transaction ends of its router | `branches`, `head`, `commits`, `merges`, `conflicts`: the tables; `audit`, `events`: which rows are in `hos_audit_log` and `event_log`; `req[c]`: what the request of client c has read |
| `EventTransaction` | what `publish` does to a transaction | none: `Publish` is a function of a log and a transaction |
| `EventLog` | `services/events.py`, `routers/events.py` | `rows`: the committed table by number, each row a key and an event_id; `last`: the sequence; `txn`: open transactions; `done`: what was published with success; `cursor`, `got`: the pollers |
| `SoftLocks` | the lock half of `services/collaboration.py` | `clock`, `locks`, `ids`, `lockLog`; `lockReq`: what a request has read; `told`: the lock a client was last given |
| `Presence` | the presence half | `now`, `presence`, `log`, `req`; `beat`: when the client's last heartbeat was answered; `posted`: history |
| `ObjectStore` | `upload` of `services/objects.py` and its router | `versions`: the table; `blobs`: object storage; `tasks`: the parse queue's history; `ids`; `req`: what an upload has read, stored and inserted |
| `Lifecycle` | `promote` and `soft_delete`, `services/lifecycle.py`, the roles | `state`, `deletions`: the tables; `trail`: audit rows, as they were committed; `created`: when the transaction of each began; `log`; `change`: what a request has read; `answer`: what each user was last told |
| `PartGraph` | the graph: `services/graph.py`, `graph/linker.py` | `neo`: the database and whether it answers; `links`: the dictionaries of the processes; `unlinked`, `told`, `restarted`: history |
| `ParsePipeline` (extends `PartGraph`) | `parser/worker.py`, `graph/tasks.py`, and the requests of `objects`, `bundles`, `import_pipeline` that feed them | `rows`, `keyed`: the version rows; `request`: the upload being served; `queue`: a bag of tasks; `runs`: what each worker is at; `stored`, `index`, `enriched`, `published`: what the tasks make; `excused`: lost work; `budget` |
| `ArtifactStages` | no code: what upload, parse and link promise together | `stage`: how many of its four artifacts a version has |
| `SceneGraph` | `services/scene_graph.py`, `upsert_document` of `services/hnf.py`, `routers/scene.py` | `table`, `commits`, `snapshot`, `tree`, `audits`, `events`: the committed rows; `session`: the transaction of each client, with what it has seen, changed, written and so locked; `log`: what was answered |
| `Accounts` | `services/org_invites.py`, `auth/`, `routers/auth.py`, `routers/orgs.py` | `orgs`, `users`, `inactive`, `invites`, `offered`, `credentials`: the tables; `request`: what a request has read; `grants`: history |
| `Sidecar` | the runner, the KiCad and FreeCAD sidecars, the adapters, `sidecar_client.py` and the suites | `stdin`, `stdout`, `stderr`: the pipes; `proc`, `open`, `batch`: the process; `client`: a suite's place in its script, replies and traces, or how much an IDE has read; `session`, `sent` |

Each has an `MC` module that gives constants for TLC; `PartGraph` and
`ArtifactStages` are checked through `ParsePipeline`, `EventTransaction` through
the modules that publish. The `...Proofs` modules hold the theorems of section 6; two
of them are about two modules each, which is why `SoftLocks` and `Lifecycle` have names
of their own (`LockSpec`, `lockVars`, `LifecycleSpec`, ...) for what others call `Spec` or
`vars`.

*Granularity.* A request is a `Begin` step with its first reads, one step for
each later read that can see something newer, and an `End` step with all its
writes, which become visible together at commit. `Abort` ends a request at any
point with nothing written: this is an exception, a lost connection or a crash of
the server. Read-only requests and requests that are refused before they
write change nothing and are no actions, except `Refused` and `ReleaseNotFound`
in `SoftLocks`, from which a client learns something. Where something leaves the
transaction before it commits, the steps are finer: the blob, the row and the
parse task in `ObjectStore`; every flush, which locks a row, in `SceneGraph`; every
task, storage write and commit of a worker in `ParsePipeline`; every line read,
every reply and every trace line in `Sidecar`.

*Version control.* `BeginCommit` reads the head that becomes the parent,
`EndCommit` writes the commit and moves the head, whatever it is by then.
`BeginMerge` and `ReadSource` are the two branch lookups of `merge`.
`ListConflicts` is the SELECT inside `_try_finalize_merge`; its view has the other
rows as committed and the request's own row as changed, which the session keeps as
an object in memory (`dependencies.py:10` sets autoflush to False, and a SELECT does
not overwrite pending changes of an object the session has loaded). `EndFinalize`
calls `commit` and writes the merge commit, `EndResolve` is every other way the
handler ends well. A row update writes the columns that changed
(`WriteResolution`). What a client sends as a snapshot, or as the value of a
resolution, may not validate (`Refused`): `CommitOf` leaves it out of the commit, which
succeeds and gets the warnings of `persist_commit_snapshots`. The common ancestor that `merge` computes is stored as the
base and used for nothing else; it is left out.

*Event log.* A row is a key and an event_id, which is derived from the key unless the
client of `POST /v1/events/publish` sends one along (`Chosen`). `Collide` is the two UNIQUE
constraints; `Dedupe` rolls back and answers with the row that is there, found by
either.

*Soft locks and presence.* A session is a user with the session id the user's client
chose (`IdOf`): it has a row of its own, and shares the keys of its events with all who
chose the id. `Publish` decides whether what `EndAcquire`,
`EndRelease`, `EndHeartbeat` or `EndLeave` has written is kept. After a rollback
the answer is what SQLAlchemy holds: a new row stays an object with its
attributes, an updated one is read again; `told` follows this. The clocks (`now`,
`clock`) move in steps; a request uses the time it read when it began. These modules and `Lifecycle` take
it that nobody publishes their keys through the events router, which would let any
client do so.

*Uploads.* `BeginUpload` reads the highest number, `MatchContent` and `MatchNothing`
are the SELECT by content hash, `StoreBlob` the PUT, `Insert` the flush of the row
with what follows it up to the parse task, `Commit` the router's. UNIQUE
(object_id, version_num) is `NumberFree`, a guard of `Insert`: an upload that does
not satisfy it waits for the other one, and can only `Abort` once that has
committed. Object ids are fresh: an object in use by nobody stands for a new one.
An equal content hash is an equal content.

*Promotions.* `EndPromote` does not look at the state it replaces, as the UPDATE
does not; whether the object is deleted is read again when publishing. The answer
is the row as it is after `db.refresh`. `audit_log` knows no order of commits: a row has a
random id and, as `created_at`, the start of its transaction, which is any time before
the promotion read the version. `created` keeps for each row how many rows of the version
were committed by then; which of two rows has the later `created_at` is known only
if the transaction of one began after the other was committed.

*Pipeline.* A request uploads one version, or several as a bundle or an import does,
may link them, and commits or aborts. A task has the form in which it was sent: those
of the API carry a keyword `parse_object` does not take, the import's a UUID for a
string, and `RefuseTask` is what becomes of both; `Redrive` is a task sent by hand in
the form the worker takes, without which nothing is ever parsed. `TakeTask` removes a
task from the bag in any order, so that tasks overtake each other, run twice when sent
twice, and are lost with a worker (`Crash`). From there a run goes through the steps
of `parse_object`, `auto_link_version` or `enrich_parts_for_version`, and each may
raise: `ParseRaises`, `SetFailed` and `RetryParse` are the worker's handler,
`LinkRaises` the graph task's, which starts it again from the first query. The worker's
handler may itself raise (its `db.get` and `db.commit`, `parser/worker.py:141`), and then
neither writes nor retries. A query of
the linker is one MERGE or MATCH: edges whose ends are not there are left out without
an error (`Matched`). A user may delete any edge of the organisation by its id, those the
pipeline made too (`services/graph.py:194`); `unlinked` remembers which of them are gone and
not made again, and `Made` is what the graph has or had.

*Scene graph.* A row is its columns, of which two tell all cases apart: one that may
refer to an identity and the rest. `SelectRow` finds a row or not, and what it found first
stays what the session compares with; `Write` is one UPDATE or INSERT of a flush, in the
order of primary keys, of the columns that differ (`Differing`), and a row in which
none does is not written; `Collide` is an IntegrityError, after which
the service rolls everything back and goes on with the row at hand. `Waits` says
who waits for whose lock; `Deadlock` is PostgreSQL failing one of a circle.

*Accounts.* An account is an organisation and an email. A request first looks
(for the slug, the email, the invite, the credential), then writes; between the
two anything may commit. A request with a credential arrives (`Present`), is
checked against the credential's row and then against the account's
(`CheckCredential`, `CheckUser`), which may have changed in between.

*Sidecars.* An IDE host writes lines of every kind the protocol tells apart, reads
replies and traces as it likes, and may close the input or go away; the
regression suites follow their scripts. `BeginApply`, the mutations one by one and
`EndApply` are `applyMutations`: the KiCad sidecar upserts the nodes of a mutation and then
its edges, each with a trace line (`UpsertNodes`, `UpsertEdges`), the FreeCAD sidecar counts
it and drops its delta (`MapMutation`). `DrainStderr` is the client's reader thread. A pipe
holds `PipeLines` lines, and who writes to a full one waits; the lines `HCP_HOST_OSS:` of the
host's tools are left out and take no room. On a pipe nobody reads any more a reply
fails and ends the loop, and so does a trace. A session has `HCP_USE_HOST_OSS` set or not,
with either kind of client, since the suites hand their environment on; then an export may
come to nothing, FreeCAD may not be there, and the runner waits for the tool without a
limit (`ToolRuns`). A trace carries the number of the line it comes from, which the code
does not write and the properties compare. The process ends by end of input, by a line
that is no request, by a broken pipe, or by being killed. The half minute in which `close`
waits for the process is taken to be enough.

*Data.* Ids are numbers or model values, a tree is a function from paths to
values, an audit or event row is a tuple that names what it is about.
Deterministic event ids (uuid5 of the key) are the keys themselves. What a parse
finds is a constant, the parts a version names. Messages, metadata, documents'
contents, hashes and signatures are left out.

## 3. What TLC checks

| Run | Config | What it shows |
|---|---|---|
| `vc_racing` | `MCHosVersionControl.cfg` | two clients, two branches, four commits, one merge, all interleavings (1.15 million states): `ConflictRowsExact`, `MergeResultFaithful`, `TrailComplete` |
| `vc_serial` | `MCHosVersionControlSerial.cfg` | one client at a time over two projects (2.1 million states): `HistoryWellFormed`, `AutoCompletes`, `FinalizedOnce`, `FinalizationHonoursRows`, `HeadsLeftBehindKnowingly` |
| `events_racing` | `MCEventLog.cfg` | two publishers on three keys and an event_id of their choice, two pollers: `PublishedOnce`, `HandedOnce`, and `EventuallyHanded` under fairness |
| `locks` | `MCSoftLocks.cfg` | two editors and an admin, three lifetimes of a lock: `LocksMatchLog`, `NoUsurper` |
| `presence` | `MCPresence.cfg` | two users with one session id for two and a half minutes (349 000 states): `PresenceMatchesLog`, `AttentiveListed` |
| `uploads` | `MCObjectStore.cfg` | three clients, two objects, two file names, three contents: `VersionsNumbered`, `VersionsComplete`, `KeysOwned`, `OverwritesRefused` |
| `lifecycle` | `MCLifecycle.cfg` | an editor, an approver and an admin, one version (1.13 million states): `StateAudited`, `TrailMatchesLog`, `NothingSkipped` |
| `pipeline` | `MCParsePipeline.cfg` | two workers, three versions of two objects, lost, repeated and retried tasks, outages, restarts and users who link and unlink (371 000 states): `TypeOK`, `ParsedMeansStored`, `IndexedMeansLinked`, `LinksKept`, the refinement `ArtifactsInOrder`, and `ParsesSettle` and `ChainCompletes` under fairness |
| `uploads_never_linked` | `MCParsePipelineUploads.cfg` | **violates** `UploadsGetLinked` (section 5) |
| `scene` | `MCSceneGraph.cfg` | two clients whose batches cross, collide, repeat rows and agree in some columns and who race for a snapshot (82 000 states): `AnsweredRowsKept`, `SnapshotToldOnce`, and `RequestsEnd` under fairness |
| `accounts` | `MCAccounts.cfg` | two organisations, two emails, two clients (203 678 states): `TwiceOnlyInRace`, `MembersExplained`, `AdmittedWhileGood` |
| `sidecar` | `MCSidecar.cfg` | an IDE host and the suites with either sidecar, with and without the host's tools (555 873 states): `RepliesInOrder`, `AppliedIsTraced`, `NoFalseAlarm`, and `SuitesConclude` under fairness |

*Bounds.* In `vc_racing` two paths and two values make heads that agree,
disagree on one path and disagree on both; two conflicts and two clients are the
smallest setting in which resolutions race; four commits are one on each branch,
one more meanwhile and the merge commit. `vc_serial` adds a third tree with a path
only one side has, a branch of a second project and parents given by the client
(a first commit, one named twice, one that may be another project's). Both have a
snapshot value or a resolution that does not validate.

In `events_racing` there are more numbers than keys, so numbers are given up, keys
retried and a page (of one row) is smaller than what there is; the event_id of one key
may be sent along with any of the three. The lock run spans
three lifetimes of a lock and three lock ids, which is first acquisition, takeover
after expiry, release and a new row. In `presence` a step of the clock is ten
seconds, with the bucket of 30 and the time to live of 90 of the code; a client's
heartbeats are answered at most 30 seconds apart and take at most 30. Two users share a
session id, of whom either may also stay away, so that the other is alone with it.
`AttentiveListed` also holds with a time to live of 80 and fails with 70: the
margin is real but thin.

`uploads` has three version ids, so that an object can have a version while two
uploads race for its next number, share or not share a file name and a content with
it or with another object's. `lifecycle` needs no bound: each transition of a
version is kept once; three roles are all that transitions ask for. It has one version:
a key names its version, so that the requests of two meet in nothing but the deletion
of their object.

`pipeline` has two versions of one object, the second derived from the first, and one of
another object, so that a previous version may be missing or not linked yet; one
part that two of the versions name; two workers, so that two runs of one version or of
neighbours interleave; one retry, so that a first and a last attempt differ. What one
behaviour may contain is bounded by budgets of requests, faults, tasks sent by hand
and links made or deleted, in the combinations (2,0,2,0), (1,0,2,1), (1,2,1,0), (1,1,1,1) and
(1,3,0,2): races without faults, a user who unlinks between two runs of a task, two faults
on the way of one version, a link made or deleted around a fault, and links made while
Neo4j is away, listed, deleted and lost with a restart, DERIVED_FROM links of a bundle
among them. Links between different objects occur in the memory of a process only, since
no behaviour of these budgets has both objects in Neo4j and a link to spend.

`scene` has eight batches over two nodes, an edge, an identity and a document: two that
cross, one that names a row twice and needs an identity, three that write one edge and agree
with each other in one column or in none, and one for each other table; one commit, and three requests in all, of which two run at a time. `accounts` has one
budget with two registrations, two invites and two acceptances, and one with
credentials: an account, a log in or key, two uses, one withdrawal and one expiry or
deactivation. `sidecar` has three lines from an IDE host, out of every kind of line,
pipes that hold two lines, and suites with two mutations, whose four traces do
not fit their pipe, and a sidecar that may be killed at any moment.

Clients, writers, pollers, keys and sessions that differ only in name are symmetric;
runs with liveness use no symmetry.

*Deadlock* is not checked: clients need not ask for anything, and the bounds stop
every model. Waiting in a circle is covered by `RequestsEnd` and `SuitesConclude`.

*Mutants.* Every property of a passing run has an operator in its module marked
"Mutant", a plausible slip in the code that the property catches; `PROJECT.json`
says which definition it takes the place of.

## 4. Fairness

* `EventLog`, `FairSpec`: weak fairness of `Poll`. That a client goes on polling is
  an assumption about clients; nothing is assumed of writers, which may stop with
  a transaction open.
* `ParsePipeline`: weak fairness of `Progress`, the steps of workers, of requests that
  have begun and of tasks that are refused. Celery keeps its workers running and a
  request is a coroutine of a running server. Nothing makes anybody crash, ask or send
  tasks by hand, and the database need not come back: a link task that finds it gone
  runs out of retries instead. Since budgets of faults are finite, `ParsesSettle` and
  `ChainCompletes` are about what becomes of a version when no more faults come; they
  excuse what was lost with a worker or in a failing failure handler, or given up after
  the last retry (`excused`), as no code looks for such work.
* `SceneGraph`: weak fairness of each client's `Step`: a request that has begun goes
  on, and the database detects deadlocks.
* `Sidecar`: weak fairness of the runner, of the suite's own steps and of its reader thread,
  that is, all of them are scheduled; not of a step for which the runner waits for a
  tool of the host, which nothing ends. `SuitesConclude` excuses only a behaviour in
  which such a tool runs for ever, or an IDE leaves a pipe full for ever. The five seconds of `wait_for_scene_traces` may run out
  at any moment, before a trace is drained too.

`Tick` in `Presence` is guarded by the promise of the client to post its heartbeats
in time; that is an assumption about clients, from the "every ~30s" of
`routers/collaboration.py:45`.

## 5. A finding, and known divergences

`uploads_never_linked`: **an uploaded version is never linked or indexed.**
`docs/graph-schema.md:23` gives every upload a HAS_VERSION edge. The task that
`services/tasks.py:22` sends carries a keyword that `parse_object`
(`parser/worker.py:50`) does not take; the import sends a UUID where a string is
parsed (`services/import_pipeline.py:192`). Both fail before anything is written. The other
properties of the pipeline are about tasks sent in the form the worker takes.

Eight more formulas do not hold of the code, most of them against what its documents
or tests say. They are no runs of their own; adding the formula as an INVARIANT to the named
configuration shows a counterexample.

* `AutoCompletes` in `MCHosVersionControl.cfg`: of two racing requests that resolve
  the last two conflicts each sees the other's still open
  (`services/hos_version_control.py:667`), and the merge stays open with nothing left to
  resolve (`docs/PHASE_0.5.md:40` promises auto-completion). Resolving any of its
  conflicts again completes it.
* `FinalizedOnce` in the same configuration: two requests that resolve one conflict at once
  both find the merge open and every conflict resolved, and each writes a merge commit; the
  one that commits last is the result, and `MergeResultFaithful` holds of it.
* `NothingMissed` in `MCEventLog.cfg`: the sequence is not in commit order, so a
  smaller number may commit after a cursor has passed it (`routers/events.py:83`;
  "Monotonic cursor for polling", `models/db.py:537`). `NoneSteppedOver` says that
  this is the only way to miss an event.
* `KeysLogged` in `MCEventLog.cfg`: a request whose `event_id` (`routers/events.py:54`) is that of
  another event is answered as its duplicate, and its own event is not logged.
  `PublishedOnce` says what remains true, and `DerivedKeysLogged` that with derived ids, as all
  services have them, nothing is missing.
* `OneHolder` in `MCSoftLocks.cfg` with two editors and no admin: the key of
  `services/event_emission.py:44` is the same for every acquisition of a path, so that
  a second one is rolled back and answered `acquired = True`. One consequence that
  `LocksMatchLog` states: after the first release of its path a lock row never
  exists again.
* `BlobsIntact` in `MCObjectStore.cfg`: `services/objects.py:140` stores a blob
  under a key made of the version number and the file name before the number is known to
  be free, so that a refused upload can replace the file of the one that won
  (`docs/V1_MVP_SCOPE.md:9`). `OverwritesRefused` says that this is the only way a
  stored blob changes.
* `PromotionTakesEffect` in `MCLifecycle.cfg`: the key of `services/objects.py:346` is
  version and transition, so that a second submission after a rejection is rolled back
  and answered with 200.
* `SupersedesMade` in `MCParsePipeline.cfg`: the link task of a version whose predecessor has no
  node in the graph yet leaves the SUPERSEDES edge out, and nobody makes it afterwards
  (`docs/graph-schema.md:84` says it is made when `version_num > 1`).

Some properties that hold say something unexpected. A session that leaves and
returns is never listed again (`PresenceMatchesLog`; the key of
`services/event_emission.py:35` is per session). A promotion overwrites one that was
committed after it read the version, so that a released version can become a draft
again; `NothingSkipped` says what remains true. A batch upsert that collides loses
its earlier rows and is answered 200 (`AnsweredRowsKept` says exactly which). An
email may have accounts in two organisations, and an invite two acceptances, if the
requests overlap (`TwiceOnlyInRace`). A link made while Neo4j is away is gone with
its process, and a DERIVED_FROM link makes all listings of its process fail
(`LinksKept`). Users who share a session id share its event keys: the one who posts second
is not listed (`PresenceMatchesLog`, by id; `AttentiveListed` is about sessions whose id
nobody else uses). Upserts of one row that overlap may leave a mix of their columns, since an
UPDATE writes the columns that differ from what was read (`services/scene_graph.py:192`);
`AnsweredRowsKept` says of each column whose it may be. A merge whose resolution does not
validate is completed without the path, with a warning (`MergeResultFaithful`). Whoever may
delete links may delete the pipeline's own edges (`services/graph.py:194`), so that
`IndexedMeansLinked` and `ArtifactsInOrder` speak of edges that were made. On the host's
tools the KiCad round trip fails when an export comes to nothing, as the sidecar answers with an
empty list then (`NoFalseAlarm`). A spent or expired invite cannot be renewed, since the INSERT of
`services/org_invites.py:141` meets the row that is there.

## 6. What is proved

All theorems hold for any values of the constants that satisfy the assumption named
in the module, and for behaviours of any length; the bounds of section 3 are constants
too. Each modelled component has one inductive invariant, `IInv` (`LockInv`,
`LifecycleInv`; `HostInv` and `VerdictInv` for the two kinds of clients of a sidecar), with
lemmas `Init => IInv` and `IInv /\ [Next]_vars => IInv'`, one for each action.

| Module | Theorems (`Spec =>` ...) |
|---|---|
| `HosVersionControlProofs` | `[]TypeOK`, `[]HistoryWellFormed`, `[]MergeHeadsKnown`, `[]ConflictRowsExact`, `[]MergeResultFaithful`, `[]TrailComplete`; and from `Spec /\ []OneAtATime`: `[]AutoCompletes`, `[]FinalizedOnce`, `FinalizationHonoursRows`, `HeadsLeftBehindKnowingly` |
| `EventLogProofs` | `[]TypeOK`, `[]PublishedOnce`, `[]HandedOnce`, `NoneSteppedOver`; and `[]KeysLogged` where no client chooses an event_id |
| `CollaborationProofs`, presence | `[]TypeOK`, `[]PresenceMatchesLog`, and with `(Bucket - 1) + Latency + Period <= TTL`: `[]AttentiveListed` |
| `CollaborationProofs`, soft locks (`LockSpec`) | `[]LockTypeOK`, `[]LocksMatchLog`, `NoUsurper` |
| `ObjectProofs`, object store | `[]TypeOK`, `[]VersionsNumbered`, `[]VersionsComplete`, `[]KeysOwned`, `OverwritesRefused` |
| `ObjectProofs`, lifecycle (`LifecycleSpec`) | `[]LifecycleTypeOK`, `[]StateAudited`, `[]NothingSkipped`, `[]TrailMatchesLog` |
| `AccountsProofs` | `[]TypeOK`, `[]TwiceOnlyInRace`, `[]MembersExplained`, `[]AdmittedWhileGood` |
| `ParsePipelineProofs` | `[]TypeOK`, `[]LinksKept`, `[]ParsedMeansStored`, `[]IndexedMeansLinked`, and `ArtifactsInOrder`: the pipeline implements `ArtifactStages` |
| `SceneGraphProofs` | `[]Types`, `[]AnsweredRowsKept`, `[]SnapshotToldOnce` |
| `SidecarProofs` | `[]RepliesInOrder`, `[]AppliedIsTraced`, `[]NoFalseAlarm` |

Most of these modules need the same idea: a write uses what an earlier step of its
request has read, so the invariant has to say what of that is still true.

* `HosVersionControlProofs` (`ConstantsAssumption`): `RequestValid` says that the
  parents a request has read are known commits of the project, that the heads of a
  merge exist, that the conflict row it resolves exists, and that its listing has a
  state for exactly the conflicting paths. It holds because commits are only appended
  and conflict rows never removed: a step that appends a commit leaves the trees of
  earlier commits, hence the conflict paths of the recorded heads, alone, so each
  action is examined for the row it adds or changes only. `MergesLoseNothing` needs in
  `EndFinalize` that every conflicting path was listed with a resolution, and of what
  a resolution selects that it is a value, which is stored, or one of `Refused`, which is
  left out and makes the commit one with a warning. `TrailComplete` is inductive beside `IInv`:
  each writing action has a lemma that compares the rows it adds with the audit rows
  and events of the same transaction, and `IInv` says that a listed merge is one that
  had conflicts.
  The four properties of requests that do not overlap have `[]OneAtATime` as a
  hypothesis: whenever two requests have read and not yet written, they are the same.
  It is what `vc_serial` has with one client; the theorems are for any number of them,
  over any projects, and a branch may be created while another request is in flight.
  `SerialInv` is the invariant: a request's reads are still what the tables say
  (`Fresh`), heads belong to branches that exist, a merge is open as long as one of its
  conflicts is unresolved, and has at most one completion row, with none while it is
  open. A step either begins or reads, which keeps the tables, or ends the only request
  in flight, so that `Fresh` has nothing left to say. `FinalizationStep` and
  `LeftBehindStep` derive the two action properties from it.
* `EventLogProofs` (`EventLogConstants`): `TxnsValid` says that open transactions have
  distinct numbers that were taken and are free, and that inserted rows collide neither
  with one another nor with a logged one, in key or in event_id (`Collide`), so a commit adds
  one new number, one new key and one new event_id; `RowsTaken`, that no row has a number
  beyond the last one taken. A request answered as a duplicate has its key logged or its
  event_id; where every event_id is derived from its key (`DerivedKeysLogged`) that is the same. `HandedOnce` rests on the
  cursor: what a page has lies beyond it, what was handed out does not.
* `CollaborationProofs`, soft locks (`SoftLockConstants`): `IdsKnown`, no row and no
  release has an id that was not handed out, and `ReleasesValid`, the lock a release
  has looked up is still there and the user may release it, or it was released. An
  acquisition is kept only if its key is not in the log, and by `LocksMatchLog` its
  resource then has no row, so no lock that runs is touched; a release is kept only
  for the very lock it has looked up, as otherwise that lock's release would be in the
  log.
* `CollaborationProofs`, presence (`PresenceConstants`): a session is a row, of one user;
  its events have the keys of its id, which several sessions may share (`IdOf`). A request to
  leave is of a session with a row, the time a heartbeat has read is not 0, which stands
  for no row, and whoever has a row has posted (`RowsPosted`). `HeartbeatCases` goes through what the two publications of a heartbeat
  leave of the transaction. `AttentiveListed` needs `Attended` besides, which
  of a session that is alone with its id says (`Recorded`) that unless it has left it has a row,
  and that there is no heartbeat event of a later bucket than the row's
  time; that a row belongs to who has posted makes sure that a lone session's keys are its own.
  A heartbeat is rolled back only when an earlier one of its bucket was kept, so
  the row lags the answered one by `Bucket - 1` ticks and the request's latency at
  most, and the next one is due within `Period`: hence the theorem's hypothesis, that
  the three together are within `TTL`. The code's numbers satisfy it with room (a
  bucket and a period of 30 s against 90 s), and TLC finds a session dropped when it
  is not met.
* `ObjectProofs`, object store (`ObjectStoreConstants`, with finitely many clients, as there
  must be an id for each upload that is pending): `PendingValid` and `InsertedValid`
  say what an upload that has stored its blob, or inserted its row, may rely on
  when it commits: its number is the next one, its key is its own or that of a
  version with its content, its blob is there.
* `ObjectProofs`, lifecycle (`LifecycleConstants`): `Reviewed`, a version has been
  through all that comes before its state, and before the state in which a promotion
  in flight has found it. It is the second half that makes blind overwrites harmless
  to the claim: trails only grow, so what held when a promotion read the version holds
  when it writes. `LastRowTells` has the order that `audit_log` lacks: the row committed last has
  the state, and every row's transaction began (`created`) before the last commit, whence
  `TrailTellsState`: the state is that of a row after whose commit no other row's transaction
  began. `TrailMatchesLog` is inductive beside it: a promotion that is kept
  adds its transition to trail and log, unless the object has been deleted meanwhile.
* `AccountsProofs` (`AccountsAssumption`): `MemberFits` is `MembersExplained` for one
  account, without a CHOOSE; `RequestsFit` says that what a request has seen to be
  missing was given, if at all, since it began (hence `TwiceOnlyInRace`), and that
  what was withdrawn when it arrived is withdrawn still (hence `AdmittedWhileGood`).
* `ParsePipelineProofs` (`VersionsAssumption`, `LinkTypesAssumption`,
  `DatabaseAssumption`, `PipelineAssumption`): `VersionFits` says that each artifact
  of a version rests on the one before it, `RunFits` what a worker's run has seen to
  by the step it is at, `EdgeFits` that an edge which was made joins nodes that are there
  and that HAS_VERSION is about a version with its output. Edges are those that were `Made`:
  users may delete any of them, the pipeline's own included, so "was made", which holds of
  those users have deleted too, is what a step can rely on. Of it nothing is lost (`NothingLost`): what a
  run has seen to remains so whatever other workers and users do, and a step has to account for
  its own run only; `LinksApart` says that the links of requests are none of the edges
  that make a version's subgraph. `LinksInv` says of each link a user was told of that the
  database has it, or the process that answered, unless that process has restarted.
  For the refinement, `stage` of `ArtifactStages` is `stages`, computed from the rows,
  the storage, the graph and the index; `NextStep` shows that `CommitRequest` is its
  `Upload`, that storing the output, the query that completes the subgraph and the
  indexing are its `Advance`, and that all other steps leave `stages` alone. That a
  complete subgraph has its parsed output comes from the invariant, so a stage is
  never jumped.

* `SceneGraphProofs` (`SceneAssumption`: batches are not empty, ranks differ, an
  identity is no node or edge): `HeldApart`, no two transactions hold the
  lock of one row. `UpsertValid` says of an upsert that it began before the answers that
  followed, that its first row is the first of its batch unless it lost an insertion to an
  upsert that was answered since it began (`AnsweredSince`), and `RowValid` of each row: what
  it is to become is what the batch last asks for. `ColumnValid` is what the columns need: one
  that the upsert has not written is as it was selected, or `Overtaken`, set by an upsert
  that was answered after the row was read. Hence a column left alone by an UPDATE holds the
  value the request asked for, or one that is newer than what it saw, as `AnsweredRowsKept`
  says. `SnapshotValid` rests on locks: who has inserted a commit's snapshot
  row holds it until its end, so that nobody else makes, announces or names another.
* `SidecarProofs` (`SidecarsAssumption`, `BatchesAssumption`, `BoundsAssumption`), an
  IDE host's session: `StdinIsRest`, the unread lines are the end of what was sent;
  `BatchValid`, the batch under way is that of the last line read and has counted or
  reported every mutation before the one at hand, and the KiCad sidecar has counted
  all; `batch.half` is a mutation whose node was traced and whose edge was not yet;
  `OpenValid`, a project is open only if its opening was answered. A reply is
  then for the last line read, and later than all replies before it, and only a broken pipe
  can keep it back; a trace comes after all traces, and where the process ends, by a kill or a
  broken pipe, the trace of a node may be the last one without its edge.
* `SidecarProofs`, a suite's session: between two steps of its script the pipes for
  lines and replies are empty; else the request at hand is the one unread line, the
  batch under way, or answered by the one unread reply, and that reply is a good one, or the
  refusal to open what FreeCAD of the host is not there for (`Talking`, `GoodReply`,
  `AtOpening`); among good ones is the empty list for an export of KiCad of the host. The scripts are evaluated once (`ScriptKnown`); all that
  is left of them is which step has which place. `TracesKnown` says that what the
  client has of the traces, followed by what is in the pipe, is the first `Done`
  upserts of the batch, up to the step after the wait. Since nodes and edges
  alternate (`CountAlternating`), having seen as many edges as there are mutations
  leaves nothing in the pipe (`AllDrained`), and the count of nodes up to a trace is
  the index of its mutation (`UpsertsExpected`): the suite's comparison succeeds. A
  wait that is cut short finds all traces written (`RanOut`), which is one of the excuses
  `NoFalseAlarm` makes; the others are `AtOpening` and an export that came to nothing.

Only model-checked: liveness (`EventuallyHanded`, `ParsesSettle`, `ChainCompletes`,
`RequestsEnd`, `SuitesConclude`), which is beyond the prover. Every invariant and
every action property that a passing run checks has a theorem. Those of `vc_serial`
are proved from `[]OneAtATime`, which its single client satisfies, except
`HistoryWellFormed`, which needs nothing; that of `presence` needs the arithmetic
hypothesis above.

## 7. Not modelled

* Parsers and the choice among them: functions of one file's characters; the models
  have their result, and that they may raise.
* Reading: search queries with their ranking and fallback, BOM views and differences,
  raw Cypher, `get_dependents` (`services/graph.py:92`; it matches paths into nodes
  nothing creates, so its nodes are always empty), listings. They change nothing. `flat_bom`
  (`services/bom.py:51`) does not end on a cycle of CONTAINS links, which nothing
  refuses.
* HNF schema validation, hashing, signatures, scopes: checks of one value by itself. Of
  validation the outcome is modelled: a snapshot that fails it (`Refused`) is left out of its
  commit. Secrets are taken to be unguessed.
* The simulation sidecars (`rust/crates/simulation-sidecars`): their binaries read one payload, run
  one job and exit; `register_protocol_handlers` is called by nothing.
* The copy of the lifecycle state in the search index, which `graph/tasks.py:130` takes when
  it indexes and a later promotion does not refresh.
* `find_lca`: what it computes is stored and used for nothing.
* Rate limiting: windows of wall-clock time, fixed in Redis and sliding in the memory
  of each process otherwise, that no other component reads.
* SDKs, CLI, web client, upload action: clients of the API without state of their
  own. The SDKs repeat a POST whose answer was lost; the models' clients may send any
  request again anyway.
* Projects are constants of the models. Of the schema, the migrations' empty tables are
  the initial states and the UNIQUE constraints guards of the actions; migrating a
  database that has rows is left out. Providers, middleware and deployment: adapters,
  formatting, configuration.
* The branch and the commit an import makes around its uploads, and deletion of what has
  been uploaded: the former are requests of `HosVersionControl`, the latter is
  `soft_delete` in `Lifecycle`, which leaves rows and blobs in place.

What could come next: an atomic specification of version control that
`HosVersionControl` implements whenever requests do not overlap, and one of the event log
that every publishing module implements.
