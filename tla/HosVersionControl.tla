--------------------------- MODULE HosVersionControl ---------------------------
(***************************************************************************)
(* Version control of one HCP deployment: branches, commits, merges and    *)
(* conflict resolution (api/app/services/hos_version_control.py behind     *)
(* api/app/routers/hos_version_control.py).                                *)
(*                                                                         *)
(* Every request runs in one database transaction at READ COMMITTED: each  *)
(* SELECT sees what is committed when it runs, the writes become visible   *)
(* together at the router's db.commit(), and an exception or a crash       *)
(* discards them.  A request is therefore a Begin step (its first reads),  *)
(* further read steps where a later SELECT can see something newer, and a  *)
(* last step with all its writes.  `req[c]` holds what client c's request  *)
(* has read and not yet written.                                           *)
(*                                                                         *)
(* Rows are numbered in commit order: commit ids are 1..Len(commits) and 0 *)
(* is "no commit".  A commit's content is a tree: a value or Absent for    *)
(* each path.  Nothing a client sends as content is examined on the way    *)
(* in: what does not validate as an object snapshot is left out of the     *)
(* commit, which succeeds and carries a warning.                           *)
(***************************************************************************)
EXTENDS Naturals, Sequences, FiniteSets, Functions

CONSTANTS
    Client,          \* connections with at least the editor role (others get "forbidden")
    Branch,          \* branch rows; a branch is named within a project
    Project,
    ProjectOf,       \* the project each branch is named in
    Path,            \* object paths
    Value,           \* contents an object snapshot can have
    Refused,         \* contents that do not validate as a snapshot (a malformed object_id)
    Absent,          \* the path is not in the tree
    Payload,         \* the trees clients commit
    ExplicitParents, \* the parent_commit_ids lists clients send
    Offered,         \* the resolutions clients send
    MaxCommits,      \* bound: commit rows
    MaxMerges        \* bound: merge rows

\* A commit's object snapshots: UNIQUE (commit_id, path) makes them a function.
Tree == [Path -> Value \cup {Absent}]

\* The snapshots a request hands to commit().
SentTree == [Path -> Value \cup Refused \cup {Absent}]

\* What a client may send to resolve a conflict: {"take": "ours"}, {"take":
\* "theirs"}, {"value": v} with any v, or something that raises when it is read
\* (none of these, or a v that is no dictionary).
Resolution == {"ours", "theirs", "invalid"} \cup Value \cup Refused

ASSUME ConstantsAssumption ==
    /\ ProjectOf \in [Branch -> Project]
    /\ Absent \notin Value \cup Refused
    /\ Value \cap Refused = {}
    /\ (Value \cup Refused) \cap {"none", "unresolved", "ours", "theirs", "invalid"} = {}
    /\ Payload \subseteq SentTree
    /\ ExplicitParents \subseteq Seq(Nat)
    /\ Offered \subseteq Resolution
    /\ MaxCommits \in Nat
    /\ MaxMerges \in Nat

VARIABLES
    branches,   \* hos_branches: the branches created so far
    head,       \* hos_branches.head_commit_id
    commits,    \* hos_commits with their parents and object snapshots
    merges,     \* hos_merges
    conflicts,  \* hos_conflicts of each merge, by path
    audit,      \* hos_audit_log: which (event, entity) have a row
    events,     \* event_log: which (event, entity) have been published
    req         \* what each client's request in flight has read

rows == <<branches, head, commits, merges, conflicts, audit, events>>
vars == <<rows, req>>

\* A commit with its parents, in their order, its object snapshots, and whether
\* its tree has "_hnf_validation_warnings" about snapshots left out.
CommitRow == [project : Project, branch : Branch, parents : Seq(Nat), tree : Tree,
              warned : BOOLEAN]

\* A merge with the heads it read; result is 0 until a commit completes it.
MergeRow == [target : Branch, source : Branch, ours : Nat, theirs : Nat,
             status : {"conflicts", "merged"}, result : Nat]

\* What UNIQUE (merge_id, path) leaves of a path's conflict in a merge: no row,
\* or one row with its status and the resolution stored in it.
ConflictState == {"none", "unresolved"} \cup Resolution

Idle == [op |-> "idle"]

\* A request in flight, by what it has read so far.
CommitRequest == [op : {"commit"}, branch : Branch, parents : Seq(Nat),
                  explicit : BOOLEAN, tree : SentTree]
MergeTargetRead == [op : {"target_read"}, target : Branch, source : Branch, ours : Nat]
MergeRequest == [op : {"merge"}, target : Branch, source : Branch,
                 ours : Nat, theirs : Nat]
ResolveRequest == [op : {"resolve"}, merge : Nat \ {0}, path : Path,
                   resolution : Resolution, loaded : ConflictState, open : BOOLEAN]
ConflictsListed == [op : {"listed"}, merge : Nat \ {0}, path : Path,
                    resolution : Resolution, loaded : ConflictState,
                    view : [Path -> ConflictState]]

Request == {Idle} \cup CommitRequest \cup MergeTargetRead \cup MergeRequest
             \cup ResolveRequest \cup ConflictsListed

CommitIds == 1 .. Len(commits)
MergeIds == 1 .. Len(merges)

TypeOK ==
    /\ branches \in SUBSET Branch
    /\ head \in [Branch -> Nat]
    /\ commits \in Seq(CommitRow)
    /\ merges \in Seq(MergeRow)
    /\ conflicts \in Seq([Path -> ConflictState])
    /\ req \in [Client -> Request]

--------------------------------------------------------------------------------
(* Trees and merging *)

\* The tree of a commit; a branch without a head has an empty tree.
TreeOf(id) == IF id = 0 THEN [p \in Path |-> Absent] ELSE commits[id].tree

\* The paths on which two heads disagree: both have the path, with different
\* values.  The common ancestor is not consulted.
ConflictPaths(ours, theirs) ==
    {p \in Path : /\ TreeOf(ours)[p] # Absent
                  /\ TreeOf(theirs)[p] # Absent
                  /\ TreeOf(ours)[p] # TreeOf(theirs)[p]}

\* The value a resolution selects for a conflicting path.
ResolvedValue(resolution, ours, theirs, p) ==
    CASE resolution = "ours"   -> TreeOf(ours)[p]
      [] resolution = "theirs" -> TreeOf(theirs)[p]
      [] OTHER                 -> resolution

\* Mutant: what only the source branch has is dropped.
TargetPathsOnly(ours, theirs, resolutions) ==
    [p \in Path |-> IF p \in ConflictPaths(ours, theirs)
                      THEN ResolvedValue(resolutions[p], ours, theirs, p)
                      ELSE TreeOf(ours)[p]]

\* Mutant: the target's value is kept whatever the resolution.
TargetAlwaysWins(ours, theirs, resolutions) ==
    [p \in Path |-> IF TreeOf(ours)[p] # Absent THEN TreeOf(ours)[p] ELSE TreeOf(theirs)[p]]

\* The tree of a merge commit: the resolution where the heads conflict, their
\* common value where they agree, the side that has the path otherwise.
MergedTree(ours, theirs, resolutions) ==
    [p \in Path |->
        IF p \in ConflictPaths(ours, theirs)
          THEN ResolvedValue(resolutions[p], ours, theirs, p)
        ELSE IF TreeOf(ours)[p] # Absent THEN TreeOf(ours)[p]
        ELSE TreeOf(theirs)[p]]

\* Mutant: the merge commit descends from the source only.
SourceParentOnly(ours, theirs) == IF theirs = 0 THEN <<>> ELSE <<theirs>>

\* The recorded heads that exist, in the order ours, theirs.
MergeParents(ours, theirs) ==
    CASE ours # 0 /\ theirs # 0 -> <<ours, theirs>>
      [] ours # 0 /\ theirs = 0 -> <<ours>>
      [] ours = 0 /\ theirs # 0 -> <<theirs>>
      [] OTHER                  -> <<>>

--------------------------------------------------------------------------------
(* What the handlers share *)

\* persist_commit_snapshots: a snapshot that does not validate gets no row ...
Stored(content) == IF content \in Refused THEN Absent ELSE content

\* ... and the commit a warning.
CommitOf(b, parents, sent) ==
    [project |-> ProjectOf[b], branch |-> b, parents |-> parents,
     tree |-> [p \in Path |-> Stored(sent[p])],
     warned |-> \E p \in Path : sent[p] \in Refused]

\* commit(): a new commit row with its snapshots and parents becomes the head
\* of branch b, whatever the head is by now.  A commit that names a parent
\* twice violates UNIQUE (commit_id, parent_commit_id) when its rows are
\* flushed: the request cannot take this step, only Abort.
WriteCommit(b, parents, sent) ==
    /\ IsInjective(parents)
    /\ commits' = Append(commits, CommitOf(b, parents, sent))
    /\ head' = [head EXCEPT ![b] = Len(commits) + 1]

\* The audit row, and the event, that commit() writes for its commit.
CommitCreated == <<"commit_created", Len(commits) + 1>>

\* The service's lookups: the commit exists and belongs to the project.
KnownCommit(id, project) == id \in CommitIds /\ commits[id].project = project

Begin(c, request) ==
    /\ req[c] = Idle
    /\ req' = [req EXCEPT ![c] = request]
    /\ UNCHANGED rows

\* The router commits or rolls back and answers.
Finish(c) == req' = [req EXCEPT ![c] = Idle]

\* The bounds, counting what requests in flight may still write.
InFlight(ops) == Cardinality({c \in Client : req[c].op \in ops})
RoomForCommit == Len(commits) + InFlight({"commit", "target_read", "merge", "resolve", "listed"})
                     < MaxCommits
RoomForMerge == Len(merges) + InFlight({"target_read", "merge"}) < MaxMerges

--------------------------------------------------------------------------------
(* create_branch *)

\* The name is unique in the project; the optional start commit must be a
\* commit of the project (0: none given).
CreateBranch(c, b, from) ==
    /\ req[c] = Idle
    /\ b \notin branches
    /\ from # 0 => KnownCommit(from, ProjectOf[b])
    /\ branches' = branches \cup {b}
    /\ head' = [head EXCEPT ![b] = from]
    /\ audit' = audit \cup {<<"branch_created", b>>}
    /\ UNCHANGED <<commits, merges, conflicts, events, req>>

--------------------------------------------------------------------------------
(* commit *)

\* Without parent_commit_ids the parent is the head the request reads now.
BeginCommit(c, b, tree) ==
    /\ RoomForCommit
    /\ b \in branches
    /\ Begin(c, [op |-> "commit", branch |-> b, explicit |-> FALSE, tree |-> tree,
                 parents |-> IF head[b] = 0 THEN <<>> ELSE <<head[b]>>])

\* Mutant: parents are looked up without their project.
ParentsOfAnyProject(b, parents) == \A i \in DOMAIN parents : parents[i] \in CommitIds

\* With parent_commit_ids the list is taken as sent, if each member is a commit
\* of the project; it need not mention the head.
KnownParents(b, parents) ==
    \A i \in DOMAIN parents : KnownCommit(parents[i], ProjectOf[b])

BeginCommitOnto(c, b, parents, tree) ==
    /\ RoomForCommit
    /\ b \in branches
    /\ KnownParents(b, parents)
    /\ Begin(c, [op |-> "commit", branch |-> b, explicit |-> TRUE, tree |-> tree,
                 parents |-> parents])

EndCommit(c) ==
    /\ req[c].op = "commit"
    /\ WriteCommit(req[c].branch, req[c].parents, req[c].tree)
    /\ audit' = audit \cup {CommitCreated}
    /\ events' = events \cup {CommitCreated}
    /\ Finish(c)
    /\ UNCHANGED <<branches, merges, conflicts>>

--------------------------------------------------------------------------------
(* merge *)

BeginMerge(c, target, source) ==
    /\ RoomForCommit
    /\ RoomForMerge
    /\ {target, source} \subseteq branches
    /\ ProjectOf[target] = ProjectOf[source]
    /\ Begin(c, [op |-> "target_read", target |-> target, source |-> source,
                 ours |-> head[target]])

\* The second SELECT.  For a branch merged into itself the session returns the
\* row object it already holds, with the head it was loaded with.
ReadSource(c) ==
    /\ req[c].op = "target_read"
    /\ LET r == req[c] IN
         req' = [req EXCEPT ![c] =
             [op |-> "merge", target |-> r.target, source |-> r.source, ours |-> r.ours,
              theirs |-> IF r.source = r.target THEN r.ours ELSE head[r.source]]]
    /\ UNCHANGED rows

MergeCreated == <<"merge_created", Len(merges) + 1>>

\* Mutant: a conflict row for every path the source has.
WriteMergeAllRows(r, status, result) ==
    /\ merges' = Append(merges, [target |-> r.target, source |-> r.source,
                                 ours |-> r.ours, theirs |-> r.theirs,
                                 status |-> status, result |-> result])
    /\ conflicts' = Append(conflicts,
           [p \in Path |-> IF TreeOf(r.theirs)[p] # Absent THEN "unresolved" ELSE "none"])

WriteMerge(r, status, result) ==
    /\ merges' = Append(merges, [target |-> r.target, source |-> r.source,
                                 ours |-> r.ours, theirs |-> r.theirs,
                                 status |-> status, result |-> result])
    /\ conflicts' = Append(conflicts,
           [p \in Path |-> IF p \in ConflictPaths(r.ours, r.theirs)
                             THEN "unresolved" ELSE "none"])

\* No path conflicts: the merge commit is written at once.
EndCleanMerge(c) ==
    /\ req[c].op = "merge"
    /\ LET r == req[c] IN
         /\ ConflictPaths(r.ours, r.theirs) = {}
         /\ WriteMerge(r, "merged", Len(commits) + 1)
         /\ WriteCommit(r.target, MergeParents(r.ours, r.theirs),
                        MergedTree(r.ours, r.theirs, [p \in Path |-> "none"]))
    /\ audit' = audit \cup {MergeCreated, CommitCreated}
    /\ events' = events \cup {MergeCreated, CommitCreated}
    /\ Finish(c)
    /\ UNCHANGED branches

\* Some path conflicts: the merge stays open, with one row per conflict.
EndConflictingMerge(c) ==
    /\ req[c].op = "merge"
    /\ LET r == req[c] IN
         /\ ConflictPaths(r.ours, r.theirs) # {}
         /\ WriteMerge(r, "conflicts", 0)
    /\ audit' = audit \cup {MergeCreated}
    /\ events' = events \cup {MergeCreated, <<"conflict_detected", Len(merges) + 1>>}
    /\ Finish(c)
    /\ UNCHANGED <<branches, head, commits>>

--------------------------------------------------------------------------------
(* resolve_conflict and _try_finalize_merge *)

\* Mutant: the merge's status is not examined.
BeginResolveAnyMerge(c, m, p, resolution) ==
    /\ RoomForCommit
    /\ conflicts[m][p] # "none"
    /\ Begin(c, [op |-> "resolve", merge |-> m, path |-> p, resolution |-> resolution,
                 loaded |-> conflicts[m][p], open |-> TRUE])

\* The conflict row is read, whatever its status, and then the merge's status.
BeginResolve(c, m, p, resolution) ==
    /\ RoomForCommit
    /\ conflicts[m][p] # "none"
    /\ Begin(c, [op |-> "resolve", merge |-> m, path |-> p, resolution |-> resolution,
                 loaded |-> conflicts[m][p], open |-> merges[m].status = "conflicts"])

\* Mutant: the request's own change is not in the session when it lists.
ListWithoutOwnChange(c) ==
    /\ req[c].op = "resolve"
    /\ req[c].open
    /\ LET r == req[c] IN
         req' = [req EXCEPT ![c] =
             [op |-> "listed", merge |-> r.merge, path |-> r.path,
              resolution |-> r.resolution, loaded |-> r.loaded,
              view |-> conflicts[r.merge]]]
    /\ UNCHANGED rows

\* list_conflicts: the other rows as they are now, its own row as this request
\* has changed it in its session.
ListConflicts(c) ==
    /\ req[c].op = "resolve"
    /\ req[c].open
    /\ LET r == req[c] IN
         req' = [req EXCEPT ![c] =
             [op |-> "listed", merge |-> r.merge, path |-> r.path,
              resolution |-> r.resolution, loaded |-> r.loaded,
              view |-> [conflicts[r.merge] EXCEPT ![r.path] = r.resolution]]]
    /\ UNCHANGED rows

\* The row is updated in the columns the request changed: a resolution equal to
\* the one it loaded leaves the column, and a newer resolution in it, alone.
WriteResolution(r) ==
    conflicts' = [conflicts EXCEPT ![r.merge][r.path] =
                      IF r.resolution = r.loaded THEN @ ELSE r.resolution]

ConflictResolved(r) == <<"conflict_resolved", r.merge, r.path>>

\* The merge is not open, or another conflict was listed unresolved: only the
\* resolution is written.  It is not examined.
EndResolve(c) ==
    /\ \/ req[c].op = "resolve" /\ ~req[c].open
       \/ req[c].op = "listed" /\ \E p \in Path : req[c].view[p] = "unresolved"
    /\ WriteResolution(req[c])
    /\ audit' = audit \cup {ConflictResolved(req[c])}
    /\ Finish(c)
    /\ UNCHANGED <<branches, head, commits, merges, events>>

\* Every conflict was listed resolved: the merge commit is built from the heads
\* the merge recorded and the listed resolutions, and the target branch moves
\* to it.  A resolution _value_from_resolution rejects rolls the request back.
EndFinalize(c) ==
    /\ req[c].op = "listed"
    /\ \A p \in Path : req[c].view[p] \notin {"unresolved", "invalid"}
    /\ LET r == req[c]
           m == merges[r.merge]
       IN  /\ WriteResolution(r)
           /\ WriteCommit(m.target, MergeParents(m.ours, m.theirs),
                          MergedTree(m.ours, m.theirs, r.view))
           /\ merges' = [merges EXCEPT ![r.merge].status = "merged",
                                       ![r.merge].result = Len(commits) + 1]
           /\ audit' = audit \cup {ConflictResolved(r), CommitCreated,
                                   <<"merge_completed", r.merge, Len(commits) + 1>>}
           /\ events' = events \cup {CommitCreated}
    /\ Finish(c)
    /\ UNCHANGED branches

--------------------------------------------------------------------------------
\* Mutant: a commit's event is published although its transaction is not.
AbortAfterPublishing(c) ==
    /\ req[c] # Idle
    /\ events' = IF req[c].op = "commit" THEN events \cup {CommitCreated} ELSE events
    /\ Finish(c)
    /\ UNCHANGED <<branches, head, commits, merges, conflicts, audit>>

\* A request that raises, loses its connection or dies with its server is
\* rolled back: nothing it would have written remains.
Abort(c) ==
    /\ req[c] # Idle
    /\ Finish(c)
    /\ UNCHANGED rows

\* The tables as their migration leaves them.
Init ==
    /\ branches = {}
    /\ head = [b \in Branch |-> 0]
    /\ commits = <<>>
    /\ merges = <<>>
    /\ conflicts = <<>>
    /\ audit = {}
    /\ events = {}
    /\ req = [c \in Client |-> Idle]

Next ==
    \E c \in Client :
        \/ \E b \in Branch, from \in CommitIds \cup {0} : CreateBranch(c, b, from)
        \/ \E b \in Branch, tree \in Payload : BeginCommit(c, b, tree)
        \/ \E b \in Branch, tree \in Payload, parents \in ExplicitParents :
               BeginCommitOnto(c, b, parents, tree)
        \/ EndCommit(c)
        \/ \E target, source \in Branch : BeginMerge(c, target, source)
        \/ ReadSource(c)
        \/ EndCleanMerge(c)
        \/ EndConflictingMerge(c)
        \/ \E m \in MergeIds, p \in Path, resolution \in Offered :
               BeginResolve(c, m, p, resolution)
        \/ ListConflicts(c)
        \/ EndResolve(c)
        \/ EndFinalize(c)
        \/ Abort(c)

Spec == Init /\ [][Next]_vars

--------------------------------------------------------------------------------
(* What must hold whatever the interleaving of requests *)

\* The history is a DAG that stays inside its project: the parents of a commit
\* are distinct, older, and of the same project, although clients name parents,
\* start commits and branches freely; so a walk over parents (find_lca)
\* terminates, and no tenant's tree reaches another's.
HistoryWellFormed ==
    /\ \A id \in CommitIds :
         /\ commits[id].project = ProjectOf[commits[id].branch]
         /\ IsInjective(commits[id].parents)
         /\ \A i \in DOMAIN commits[id].parents :
              /\ commits[id].parents[i] < id
              /\ KnownCommit(commits[id].parents[i], commits[id].project)
    /\ \A b \in Branch : head[b] # 0 => KnownCommit(head[b], ProjectOf[b])

\* The heads a merge recorded are commits of its project.
HeadsKnown(m) ==
    \A id \in {merges[m].ours, merges[m].theirs} :
        id # 0 => KnownCommit(id, ProjectOf[merges[m].target])

MergeHeadsKnown == \A m \in MergeIds : HeadsKnown(m)

\* The conflict rows of a merge are exactly the paths on which the heads it
\* recorded disagree, and a merge without any is never left open: whoever
\* resolves the listed conflicts has resolved all there is.
RowsExact(m) ==
    /\ \A p \in Path :
         conflicts[m][p] # "none" <=> p \in ConflictPaths(merges[m].ours, merges[m].theirs)
    /\ merges[m].status = "conflicts" => \E p \in Path : conflicts[m][p] # "none"

ConflictRowsExact ==
    /\ Len(conflicts) = Len(merges)
    /\ \A m \in MergeIds : RowsExact(m)

\* No path of either tree is silently gone from the merged one: a path both have
\* with one value, or only one has, keeps it, and a conflicting path has some
\* value unless the merged commit is marked with a warning.
NothingLost(merged, ours, theirs) ==
    \A p \in Path :
        /\ ours[p] \in {Absent, theirs[p]} => merged.tree[p] = theirs[p]
        /\ theirs[p] \in {Absent, ours[p]} => merged.tree[p] = ours[p]
        /\ ours[p] # Absent /\ theirs[p] # Absent =>
             merged.tree[p] # Absent \/ merged.warned

\* A finished merge has a commit on its target branch, with the recorded heads
\* as parents, that loses nothing of either unsaid: a resolution whose value
\* does not validate takes its path away, but never another's, and leaves a
\* warning.  This survives commits made to the target meanwhile, re-resolution
\* and racing finalizations.
ResultFaithful(m) ==
    merges[m].status = "merged" =>
        /\ merges[m].result \in CommitIds
        /\ commits[merges[m].result].branch = merges[m].target
        /\ Range(commits[merges[m].result].parents)
             = {merges[m].ours, merges[m].theirs} \ {0}
        /\ NothingLost(commits[merges[m].result],
                       TreeOf(merges[m].ours), TreeOf(merges[m].theirs))

MergeResultFaithful == \A m \in MergeIds : ResultFaithful(m)

Conflicting(m) == ConflictPaths(merges[m].ours, merges[m].theirs) # {}
AuditOf(event) == {row \in audit : row[1] = event}

\* The audit log and the event log tell exactly what happened: an aborted
\* request leaves no trace, a finished one all of its own.
TrailComplete ==
    /\ events = {<<"commit_created", id>> : id \in CommitIds}
                  \cup {<<"merge_created", m>> : m \in MergeIds}
                  \cup {<<"conflict_detected", m>> : m \in {n \in MergeIds : Conflicting(n)}}
    /\ AuditOf("branch_created") = {<<"branch_created", b>> : b \in branches}
    /\ AuditOf("commit_created") = {<<"commit_created", id>> : id \in CommitIds}
    /\ AuditOf("merge_created") = {<<"merge_created", m>> : m \in MergeIds}
    /\ {row[2] : row \in AuditOf("merge_completed")}
         = {m \in MergeIds : Conflicting(m) /\ merges[m].status = "merged"}

\* What a request has read stays true until it writes: commits are never
\* deleted and conflict rows never disappear, so nothing a handler checked
\* needs checking again.
RequestValid(r) ==
    /\ r.op = "commit" => KnownParents(r.branch, r.parents)
    /\ r.op = "target_read" => ProjectOf[r.source] = ProjectOf[r.target]
    /\ r.op \in {"target_read", "merge"} /\ r.ours # 0 => KnownCommit(r.ours, ProjectOf[r.target])
    /\ r.op = "merge" /\ r.theirs # 0 => KnownCommit(r.theirs, ProjectOf[r.target])
    /\ r.op \in {"resolve", "listed"} =>
         r.merge \in MergeIds /\ conflicts[r.merge][r.path] # "none"
    /\ r.op = "listed" =>
         \A p \in Path : r.view[p] = "none" <=> conflicts[r.merge][p] = "none"

\* The inductive strengthening of the invariants above.
IInv ==
    /\ TypeOK
    /\ HistoryWellFormed
    /\ MergeHeadsKnown
    /\ ConflictRowsExact
    /\ MergeResultFaithful
    /\ \A c \in Client : RequestValid(req[c])

--------------------------------------------------------------------------------
(* What holds when requests do not overlap *)

\* No request begins while another one is in flight.
OneAtATime == \A c, d \in Client : req[c] # Idle /\ req[d] # Idle => c = d

\* docs/PHASE_0.5.md, "Merge conflicts + resolve + auto-complete merge": once
\* every conflict of a merge is resolved the merge is complete; no further
\* request will make it so, for clients only resolve what is unresolved.
AutoCompletes ==
    (\A c \in Client : req[c] = Idle) =>
        \A m \in MergeIds :
            (\A p \in Path : conflicts[m][p] # "unresolved") => merges[m].status = "merged"

\* A merge is finalized once: resolving again afterwards writes no second commit.
FinalizedOnce ==
    \A m \in MergeIds :
        Cardinality({row \in AuditOf("merge_completed") : row[2] = m}) <= 1

\* The commit merge m results in has on path p what p's row selects, or nothing
\* and a warning when that does not validate.
RowHonoured(m, p) ==
    LET result == commits[merges[m].result]
        selected == ResolvedValue(conflicts[m][p], merges[m].ours, merges[m].theirs, p)
    IN  result.tree[p] = Stored(selected) /\ (selected \in Refused => result.warned)

\* When a merge is finalized its commit has, on each conflicting path, the value
\* the conflict's row selects in that same state, or nothing, with a warning,
\* where that value does not validate.
FinalizationHonoursRows ==
    [][\A m \in MergeIds :
         merges[m].status = "conflicts" /\ merges'[m].status = "merged" =>
             \A p \in ConflictPaths(merges[m].ours, merges[m].theirs) :
                 RowHonoured(m, p)']_vars

\* A branch's head is left behind, not an ancestor of the new head, only by a
\* request that named its parents itself or by a merge finalized after the
\* target had moved on from the head the merge recorded.
LeftBehind(b) ==
    /\ head[b] \notin {0, head'[b]}
    /\ head[b] \notin Range(commits'[head'[b]].parents)

HeadsLeftBehindKnowingly ==
    [][\A b \in Branch : LeftBehind(b) =>
         \E c \in Client :
            \/ req[c].op = "commit" /\ req[c].explicit
            \/ req[c].op = "listed" /\ merges[req[c].merge].ours # head[b]]_vars

\* What request r has read is what the rows still hold.
Fresh(r) ==
    /\ r.op = "commit" =>
         /\ r.branch \in branches
         /\ ~r.explicit => r.parents = IF head[r.branch] = 0 THEN <<>> ELSE <<head[r.branch]>>
    /\ r.op \in {"target_read", "merge"} => r.target \in branches /\ r.ours = head[r.target]
    /\ r.op \in {"resolve", "listed"} => r.loaded = conflicts[r.merge][r.path]
    /\ r.op = "resolve" => (r.open <=> merges[r.merge].status = "conflicts")
    /\ r.op = "listed" =>
         /\ merges[r.merge].status = "conflicts"
         /\ r.view = [conflicts[r.merge] EXCEPT ![r.path] = r.resolution]

\* Only branches that exist have a head or are merged into.
BranchesExist ==
    /\ \A b \in Branch \ branches : head[b] = 0
    /\ \A m \in MergeIds : merges[m].target \in branches

\* A merge is open only while one of its conflicts is unresolved.
OpenIsUnresolved ==
    \A m \in MergeIds :
        merges[m].status = "conflicts" => \E p \in Path : conflicts[m][p] = "unresolved"

\* No two rows tell of the completion of one merge.
OneCompletionRow ==
    \A s, t \in AuditOf("merge_completed") : s[2] = t[2] => s = t

\* The inductive invariant of requests that do not overlap.
SerialInv ==
    /\ BranchesExist
    /\ OpenIsUnresolved
    /\ OneCompletionRow
    /\ \A c \in Client : Fresh(req[c])
================================================================================
