------------------------ MODULE HosVersionControlProofs ------------------------
(***************************************************************************)
(* Proofs about HosVersionControl for any clients, branches, projects,     *)
(* paths and values.  IInv is inductive, and with it the type invariant    *)
(* and the safety invariants it is made of hold in every reachable state;  *)
(* so does TrailComplete, which needs IInv to know that what is in         *)
(* conflict stays so.  When requests do not overlap, SerialInv is          *)
(* inductive too, and merging is what its documentation says it is.        *)
(***************************************************************************)
EXTENDS HosVersionControl, FiniteSetTheorems, TLAPS

USE ConstantsAssumption

--------------------------------------------------------------------------------
(* Facts about the operators *)

\* A request in flight has the fields of its kind.
LEMMA RequestKinds ==
    ASSUME NEW r \in Request
    PROVE  /\ r.op = "idle" => r = Idle
           /\ r.op = "commit" => r \in CommitRequest
           /\ r.op = "target_read" => r \in MergeTargetRead
           /\ r.op = "merge" => r \in MergeRequest
           /\ r.op = "resolve" => r \in ResolveRequest
           /\ r.op = "listed" => r \in ConflictsListed
    BY DEF Request, Idle, CommitRequest, MergeTargetRead, MergeRequest,
           ResolveRequest, ConflictsListed

\* Known commits, and the absent head, have trees.
LEMMA TreeOfType ==
    ASSUME TypeOK, NEW id, id \in CommitIds \/ id = 0
    PROVE  TreeOf(id) \in Tree
<1>1. CASE id = 0
  BY <1>1 DEF TreeOf, Tree
<1>2. CASE id # 0
  <2>1. commits \in Seq(CommitRow) /\ id \in 1 .. Len(commits)
    BY <1>2 DEF TypeOK, CommitIds
  <2>2. commits[id] \in CommitRow
    BY <2>1
  <2>3. commits[id].tree \in Tree
    BY <2>2 DEF CommitRow
  <2> QED BY <1>2, <2>3 DEF TreeOf
<1> QED BY <1>1, <1>2

\* What a merge hands to commit() are snapshots, when every conflict has a
\* resolution that selects a content; and the commit made of them loses nothing
\* of either side unsaid.
LEMMA MergedTreeFaithful ==
    ASSUME TypeOK,
           NEW ours, NEW theirs,
           ours \in CommitIds \/ ours = 0,
           theirs \in CommitIds \/ theirs = 0,
           NEW resolutions \in [Path -> ConflictState],
           \A p \in ConflictPaths(ours, theirs) :
               resolutions[p] \notin {"none", "unresolved", "invalid"}
    PROVE  /\ MergedTree(ours, theirs, resolutions) \in SentTree
           /\ \A b, parents :
                NothingLost(CommitOf(b, parents, MergedTree(ours, theirs, resolutions)),
                            TreeOf(ours), TreeOf(theirs))
<1>1. TreeOf(ours) \in Tree /\ TreeOf(theirs) \in Tree
  BY TreeOfType
<1>2. ASSUME NEW p \in ConflictPaths(ours, theirs)
      PROVE  ResolvedValue(resolutions[p], ours, theirs, p) \in Value \cup Refused
  <2>1. /\ p \in Path
        /\ TreeOf(ours)[p] \in Value
        /\ TreeOf(theirs)[p] \in Value
    BY <1>1 DEF ConflictPaths, Tree
  <2>2. resolutions[p] \in {"ours", "theirs"} \cup Value \cup Refused
    BY <2>1 DEF ConflictState, Resolution
  <2>3. CASE resolutions[p] = "ours"
    BY <2>1, <2>3 DEF ResolvedValue
  <2>4. CASE resolutions[p] = "theirs"
    BY <2>1, <2>4 DEF ResolvedValue
  <2>5. CASE resolutions[p] \in Value \cup Refused
    BY <2>5 DEF ResolvedValue
  <2> QED BY <2>2, <2>3, <2>4, <2>5
<1> DEFINE o == TreeOf(ours)
           t == TreeOf(theirs)
           C == ConflictPaths(ours, theirs)
           V(p) == ResolvedValue(resolutions[p], ours, theirs, p)
           tree == MergedTree(ours, theirs, resolutions)
<1>3. tree = [p \in Path |-> IF p \in C THEN V(p) ELSE IF o[p] # Absent THEN o[p] ELSE t[p]]
  BY DEF MergedTree
<1>4. C = {p \in Path : o[p] # Absent /\ t[p] # Absent /\ o[p] # t[p]}
  BY DEF ConflictPaths
<1>5. \A p \in C : V(p) \in Value \cup Refused
  BY <1>2
<1>6. o \in Tree /\ t \in Tree
  BY <1>1
<1> HIDE DEF o, t, C, V, tree
<1>7. tree \in SentTree
  BY <1>3, <1>4, <1>5, <1>6 DEF Tree, SentTree
<1>8. ASSUME NEW b, NEW parents
      PROVE  NothingLost(CommitOf(b, parents, tree), o, t)
  <2> DEFINE new == CommitOf(b, parents, tree)
  <2>1. /\ new.tree = [p \in Path |-> Stored(tree[p])]
        /\ new.warned <=> \E p \in Path : tree[p] \in Refused
    BY DEF CommitOf
  <2> HIDE DEF new
  <2>2. ASSUME NEW p \in Path, p \in C
        PROVE  /\ o[p] # Absent /\ t[p] # Absent /\ o[p] # t[p]
               /\ new.tree[p] # Absent \/ new.warned
    BY <1>3, <1>4, <1>5, <2>1, <2>2 DEF Stored
  <2>3. ASSUME NEW p \in Path, p \notin C
        PROVE  new.tree[p] = IF o[p] # Absent THEN o[p] ELSE t[p]
    BY <1>3, <1>6, <2>1, <2>3 DEF Stored, Tree
  <2>4. ASSUME NEW p \in Path
        PROVE  /\ o[p] \in {Absent, t[p]} => new.tree[p] = t[p]
               /\ t[p] \in {Absent, o[p]} => new.tree[p] = o[p]
               /\ o[p] # Absent /\ t[p] # Absent => new.tree[p] # Absent \/ new.warned
    BY <1>4, <2>2, <2>3
  <2> QED BY <2>4 DEF NothingLost, new
<1> QED BY <1>7, <1>8 DEF o, t, tree

\* The parents of a merge commit are the recorded heads that exist.
LEMMA MergeParentsRange ==
    ASSUME NEW ours \in Nat, NEW theirs \in Nat
    PROVE  /\ MergeParents(ours, theirs) \in Seq(Nat)
           /\ Range(MergeParents(ours, theirs)) = {ours, theirs} \ {0}
<1>1. CASE ours = 0 /\ theirs = 0
  BY <1>1 DEF MergeParents, Range
<1>2. CASE ours = 0 /\ theirs # 0
  <2>1. MergeParents(ours, theirs) = <<theirs>>
    BY <1>2 DEF MergeParents
  <2> QED BY <2>1, <1>2 DEF Range
<1>3. CASE ours # 0 /\ theirs = 0
  <2>1. MergeParents(ours, theirs) = <<ours>>
    BY <1>3 DEF MergeParents
  <2> QED BY <2>1, <1>3 DEF Range
<1>4. CASE ours # 0 /\ theirs # 0
  <2>1. MergeParents(ours, theirs) = <<ours, theirs>>
    BY <1>4 DEF MergeParents
  <2> QED BY <2>1, <1>4 DEF Range
<1> QED BY <1>1, <1>2, <1>3, <1>4

--------------------------------------------------------------------------------
(* What a step that only adds rows leaves true *)

\* No commit row is changed or removed.
CommitsKept ==
    /\ commits' \in Seq(CommitRow)
    /\ Len(commits) <= Len(commits')
    /\ \A id \in CommitIds : commits'[id] = commits[id]

\* Merge m keeps its row, and the paths it has conflict rows for.
MergeKept(m) ==
    /\ merges'[m] = merges[m]
    /\ \A p \in Path : conflicts'[m][p] = "none" <=> conflicts[m][p] = "none"

\* No merge is removed, and none loses or gains a conflict row.
ConflictsKept ==
    /\ Len(merges) <= Len(merges')
    /\ \A m \in MergeIds, p \in Path : conflicts'[m][p] = "none" <=> conflicts[m][p] = "none"

\* A commit the service has looked up stays known.
LEMMA KnownCommitKept ==
    ASSUME TypeOK, CommitsKept, NEW id, NEW project, KnownCommit(id, project)
    PROVE  KnownCommit(id, project)'
    BY DEF TypeOK, CommitsKept, KnownCommit, CommitIds

\* The recorded heads of a merge are commits or absent.
LEMMA HeadsAreCommits ==
    ASSUME MergeHeadsKnown, NEW m \in MergeIds
    PROVE  /\ merges[m].ours \in CommitIds \/ merges[m].ours = 0
           /\ merges[m].theirs \in CommitIds \/ merges[m].theirs = 0
    BY DEF MergeHeadsKnown, HeadsKnown, KnownCommit

\* A merge a step does not touch stays as it should be.
LEMMA UntouchedMerge ==
    ASSUME IInv, CommitsKept, NEW m \in MergeIds, MergeKept(m)
    PROVE  HeadsKnown(m)' /\ RowsExact(m)' /\ ResultFaithful(m)'
<1> DEFINE row == merges[m]
<1>1. HeadsKnown(m) /\ RowsExact(m) /\ ResultFaithful(m) /\ merges'[m] = row
  BY DEF IInv, MergeHeadsKnown, ConflictRowsExact, MergeResultFaithful, MergeKept
<1>2. HeadsKnown(m)'
  BY <1>1, KnownCommitKept DEF HeadsKnown, IInv
<1>3. /\ row.ours \in CommitIds \/ row.ours = 0
      /\ row.theirs \in CommitIds \/ row.theirs = 0
  BY HeadsAreCommits DEF IInv
<1>4. ConflictPaths(row.ours, row.theirs)' = ConflictPaths(row.ours, row.theirs)
  <2>1. CommitsKept /\ (row.ours)' = row.ours /\ (row.theirs)' = row.theirs
    BY <1>1
  <2>2. TreeOf(row.ours)' = TreeOf(row.ours) /\ TreeOf(row.theirs)' = TreeOf(row.theirs)
    BY <2>1, <1>3 DEF CommitsKept, TreeOf
  <2> QED BY <2>2 DEF ConflictPaths
<1>5. RowsExact(m)'
  BY <1>1, <1>4 DEF RowsExact, MergeKept
<1>6. ResultFaithful(m)'
  <2>1. TreeOf(row.ours)' = TreeOf(row.ours) /\ TreeOf(row.theirs)' = TreeOf(row.theirs)
    BY <1>1, <1>3 DEF CommitsKept, TreeOf
  <2>2. row.status = "merged" =>
          row.result \in CommitIds' /\ commits'[row.result] = commits[row.result]
    BY <1>1 DEF ResultFaithful, CommitsKept, CommitIds, IInv, TypeOK
  <2> QED BY <1>1, <2>1, <2>2 DEF ResultFaithful, NothingLost
<1> QED BY <1>2, <1>5, <1>6

\* What a request in flight has read stays valid when rows are only added.
LEMMA RequestKept ==
    ASSUME IInv, CommitsKept, ConflictsKept, merges' \in Seq(MergeRow),
           NEW r \in Request, RequestValid(r)
    PROVE  RequestValid(r)'
<1>1. \A id, project : KnownCommit(id, project) => KnownCommit(id, project)'
  BY KnownCommitKept DEF IInv
<1>2. KnownParents(r.branch, r.parents) => KnownParents(r.branch, r.parents)'
  BY <1>1 DEF KnownParents
<1>3. ASSUME r.op \in {"resolve", "listed"}
      PROVE  /\ r.merge \in MergeIds /\ r.merge \in MergeIds'
             /\ r.path \in Path
             /\ \A p \in Path : conflicts'[r.merge][p] = "none" <=> conflicts[r.merge][p] = "none"
  <2>1. r.merge \in MergeIds /\ r.path \in Path
    BY <1>3, RequestKinds DEF RequestValid, ResolveRequest, ConflictsListed
  <2> QED BY <2>1 DEF ConflictsKept, MergeIds, IInv, TypeOK
<1> QED BY <1>1, <1>2, <1>3 DEF RequestValid

\* A step that writes no commit keeps them all.
LEMMA SameCommits ==
    ASSUME TypeOK, commits' = commits
    PROVE  CommitsKept
    BY DEF TypeOK, CommitsKept, CommitIds

\* The commit a handler writes extends the history.
LEMMA CommitAppended ==
    ASSUME TypeOK, HistoryWellFormed,
           NEW b \in Branch, NEW parents \in Seq(Nat), NEW sent \in SentTree,
           KnownParents(b, parents),
           WriteCommit(b, parents, sent)
    PROVE  /\ CommitsKept
           /\ Len(commits') = Len(commits) + 1
           /\ commits'[Len(commits) + 1] = CommitOf(b, parents, sent)
           /\ head' \in [Branch -> Nat]
           /\ HistoryWellFormed'
<1> DEFINE new == CommitOf(b, parents, sent)
           n == Len(commits) + 1
<1>1. commits \in Seq(CommitRow) /\ n \in Nat
  BY DEF TypeOK
<1>2. /\ new \in CommitRow
      /\ new.project = ProjectOf[b] /\ new.branch = b /\ new.parents = parents
  <2>1. [p \in Path |-> Stored(sent[p])] \in Tree
    BY DEF Stored, SentTree, Tree
  <2> QED BY <2>1 DEF CommitOf, CommitRow
<1> HIDE DEF new
<1>3. commits' = Append(commits, new) /\ head' = [head EXCEPT ![b] = n]
  BY DEF WriteCommit, new
<1>4. /\ commits' \in Seq(CommitRow)
      /\ Len(commits') = n
      /\ commits'[n] = new
      /\ \A id \in CommitIds : commits'[id] = commits[id]
  BY <1>1, <1>2, <1>3 DEF CommitIds
<1>5. CommitsKept
  BY <1>1, <1>4 DEF CommitsKept
<1>6. head' \in [Branch -> Nat]
  BY <1>1, <1>3 DEF TypeOK
<1>7. CommitIds' = CommitIds \cup {n}
  BY <1>1, <1>4 DEF CommitIds
<1>8. HistoryWellFormed'
  <2>1. ASSUME NEW id \in CommitIds'
        PROVE  /\ commits'[id].project = ProjectOf[commits'[id].branch]
               /\ IsInjective(commits'[id].parents)
               /\ \A i \in DOMAIN commits'[id].parents :
                    /\ commits'[id].parents[i] < id
                    /\ commits'[id].parents[i] \in CommitIds'
                    /\ commits'[commits'[id].parents[i]].project = commits'[id].project
    <3>1. CASE id \in CommitIds
      BY <1>4, <1>7, <3>1 DEF HistoryWellFormed, KnownCommit
    <3>2. CASE id = n
      <4>1. commits'[id] = new
        BY <1>4, <3>2
      <4>2. ASSUME NEW i \in DOMAIN parents
            PROVE  /\ parents[i] < n
                   /\ parents[i] \in CommitIds'
                   /\ commits'[parents[i]].project = ProjectOf[b]
        <5>1. parents[i] \in CommitIds /\ commits[parents[i]].project = ProjectOf[b]
          BY DEF KnownParents, KnownCommit
        <5>2. parents[i] < n
          BY <1>1, <5>1 DEF CommitIds
        <5> QED BY <1>4, <1>7, <5>1, <5>2
      <4>3. IsInjective(parents)
        BY DEF WriteCommit
      <4> QED BY <1>2, <3>2, <4>1, <4>2, <4>3
    <3> QED BY <1>7, <3>1, <3>2
  <2>2. ASSUME NEW c \in Branch, head'[c] # 0
        PROVE  head'[c] \in CommitIds' /\ commits'[head'[c]].project = ProjectOf[c]
    <3>1. CASE c = b
      <4>1. head'[c] = n
        BY <1>3, <3>1 DEF TypeOK
      <4> QED BY <1>2, <1>4, <1>7, <3>1, <4>1
    <3>2. CASE c # b
      <4>1. head'[c] = head[c]
        BY <1>3, <3>2 DEF TypeOK
      <4>2. head[c] \in CommitIds /\ commits[head[c]].project = ProjectOf[c]
        BY <2>2, <4>1 DEF HistoryWellFormed, KnownCommit
      <4> QED BY <1>4, <1>7, <4>1, <4>2
    <3> QED BY <3>1, <3>2
  <2> QED BY <2>1, <2>2 DEF HistoryWellFormed, KnownCommit
<1> QED BY <1>4, <1>5, <1>6, <1>8 DEF new

\* A step after which every commit and merge is as before, and every request
\* valid, keeps the invariant.
LEMMA SameRows ==
    ASSUME IInv, TypeOK', commits' = commits, merges' = merges,
           Len(conflicts') = Len(conflicts), ConflictsKept,
           HistoryWellFormed',
           \A c \in Client : RequestValid(req[c])'
    PROVE  IInv'
<1>1. CommitsKept
  BY SameCommits DEF IInv
<1>2. \A m \in MergeIds : MergeKept(m)
  BY DEF MergeKept, ConflictsKept
<1>3. MergeIds' = MergeIds
  BY DEF MergeIds
<1>4. MergeHeadsKnown' /\ ConflictRowsExact' /\ MergeResultFaithful'
  BY <1>1, <1>2, <1>3, UntouchedMerge
     DEF MergeHeadsKnown, ConflictRowsExact, MergeResultFaithful, IInv
<1> QED BY <1>4 DEF IInv

\* A request that only reads, or is given up, keeps the invariant if what it has
\* read by now is valid.
LEMMA ReadStep ==
    ASSUME IInv, UNCHANGED rows, NEW c \in Client, NEW r \in Request, RequestValid(r),
           req' = [req EXCEPT ![c] = r]
    PROVE  IInv'
<1>1. TypeOK'
  BY DEF IInv, TypeOK, rows
<1>2. HistoryWellFormed'
  BY DEF IInv, rows, HistoryWellFormed, KnownCommit, CommitIds
<1>3. ConflictsKept
  BY DEF rows, ConflictsKept, IInv, TypeOK
<1>4. ASSUME NEW d \in Client
      PROVE  RequestValid(req[d])'
  <2>1. RequestValid(req[d]) /\ req' = [req EXCEPT ![c] = r] /\ req \in [Client -> Request]
    BY DEF IInv, TypeOK
  <2>2. CASE d = c
    <3>1. req'[d] = r
      BY <2>1, <2>2
    <3> QED BY <3>1 DEF rows, RequestValid, KnownParents, KnownCommit, CommitIds, MergeIds
  <2>3. CASE d # c
    <3>1. req'[d] = req[d]
      BY <2>1, <2>3
    <3> QED BY <2>1, <3>1 DEF rows, RequestValid, KnownParents, KnownCommit, CommitIds, MergeIds
  <2> QED BY <2>2, <2>3
<1> QED BY <1>1, <1>2, <1>3, <1>4, SameRows DEF rows

--------------------------------------------------------------------------------
(* One lemma per action *)

\* The empty tables satisfy the invariant.
LEMMA InitIInv == Init => IInv
    BY DEF Init, IInv, TypeOK, HistoryWellFormed, MergeHeadsKnown, ConflictRowsExact,
           MergeResultFaithful, RequestValid, Request, Idle, CommitIds, MergeIds

\* A new branch may start at any commit of its project.
LEMMA CreateBranchStep ==
    ASSUME IInv, NEW c \in Client, NEW b \in Branch, NEW from \in CommitIds \cup {0},
           CreateBranch(c, b, from)
    PROVE  IInv'
<1>1. TypeOK'
  BY DEF IInv, TypeOK, CreateBranch, CommitIds
<1>2. HistoryWellFormed'
  <2>1. /\ commits' = commits
        /\ \A d \in Branch : head'[d] = IF d = b THEN from ELSE head[d]
    BY DEF CreateBranch, IInv, TypeOK
  <2>2. from # 0 => KnownCommit(from, ProjectOf[b])
    BY DEF CreateBranch
  <2> QED BY <2>1, <2>2 DEF IInv, HistoryWellFormed, KnownCommit, CommitIds
<1>3. ConflictsKept
  BY DEF CreateBranch, ConflictsKept, IInv, TypeOK
<1>4. \A d \in Client : RequestValid(req[d])'
  BY DEF CreateBranch, IInv, RequestValid, KnownParents, KnownCommit, CommitIds, MergeIds
<1> QED BY <1>1, <1>2, <1>3, <1>4, SameRows DEF CreateBranch

\* A head read as the parent is a commit of the project.
LEMMA BeginCommitStep ==
    ASSUME IInv, NEW c \in Client, NEW b \in Branch, NEW tree \in Payload,
           BeginCommit(c, b, tree)
    PROVE  IInv'
<1> DEFINE parents == IF head[b] = 0 THEN <<>> ELSE <<head[b]>>
           r == [op |-> "commit", branch |-> b, explicit |-> FALSE, tree |-> tree,
                 parents |-> parents]
<1>1. UNCHANGED rows /\ req' = [req EXCEPT ![c] = r]
  BY DEF BeginCommit, Begin
<1>2. parents \in Seq(Nat)
  BY DEF IInv, TypeOK
<1>3. r \in Request
  BY <1>2 DEF Request, CommitRequest
<1>4. KnownParents(b, parents)
  BY DEF IInv, HistoryWellFormed, KnownParents
<1>5. RequestValid(r)
  BY <1>4 DEF RequestValid
<1> QED BY <1>1, <1>3, <1>5, ReadStep

\* Parents a client names are checked to be commits of the project.
LEMMA BeginCommitOntoStep ==
    ASSUME IInv, NEW c \in Client, NEW b \in Branch, NEW tree \in Payload,
           NEW parents \in ExplicitParents, BeginCommitOnto(c, b, parents, tree)
    PROVE  IInv'
<1> DEFINE r == [op |-> "commit", branch |-> b, explicit |-> TRUE, tree |-> tree,
                 parents |-> parents]
<1>1. UNCHANGED rows /\ req' = [req EXCEPT ![c] = r] /\ KnownParents(b, parents)
  BY DEF BeginCommitOnto, Begin
<1>2. r \in Request
  BY DEF Request, CommitRequest
<1>3. RequestValid(r)
  BY <1>1 DEF RequestValid
<1> QED BY <1>1, <1>2, <1>3, ReadStep

\* The target's head is a commit of the project, or there is none.
LEMMA BeginMergeStep ==
    ASSUME IInv, NEW c \in Client, NEW target \in Branch, NEW source \in Branch,
           BeginMerge(c, target, source)
    PROVE  IInv'
<1> DEFINE r == [op |-> "target_read", target |-> target, source |-> source,
                 ours |-> head[target]]
<1>1. UNCHANGED rows /\ req' = [req EXCEPT ![c] = r] /\ ProjectOf[target] = ProjectOf[source]
  BY DEF BeginMerge, Begin
<1>2. r \in Request
  BY DEF IInv, TypeOK, Request, MergeTargetRead
<1>3. RequestValid(r)
  BY <1>1 DEF RequestValid, IInv, HistoryWellFormed
<1> QED BY <1>1, <1>2, <1>3, ReadStep

\* So is the source's head, even if it moved since the target was read.
LEMMA ReadSourceStep ==
    ASSUME IInv, NEW c \in Client, ReadSource(c)
    PROVE  IInv'
<1> DEFINE q == req[c]
           r == [op |-> "merge", target |-> q.target, source |-> q.source, ours |-> q.ours,
                 theirs |-> IF q.source = q.target THEN q.ours ELSE head[q.source]]
<1>1. UNCHANGED rows /\ req' = [req EXCEPT ![c] = r] /\ q.op = "target_read"
  BY DEF ReadSource
<1>2. q \in Request /\ RequestValid(q)
  BY DEF IInv, TypeOK
<1>3. q \in MergeTargetRead
  BY <1>1, <1>2, RequestKinds
<1>4. r \in Request
  BY <1>3 DEF IInv, TypeOK, Request, MergeTargetRead, MergeRequest
<1>5. RequestValid(r)
  BY <1>1, <1>2, <1>3 DEF RequestValid, IInv, HistoryWellFormed, MergeTargetRead
<1> QED BY <1>1, <1>4, <1>5, ReadStep

\* The conflict row a request loads exists, whatever its status.
LEMMA BeginResolveStep ==
    ASSUME IInv, NEW c \in Client, NEW m \in MergeIds, NEW p \in Path,
           NEW resolution \in Offered, BeginResolve(c, m, p, resolution)
    PROVE  IInv'
<1> DEFINE r == [op |-> "resolve", merge |-> m, path |-> p, resolution |-> resolution,
                 loaded |-> conflicts[m][p], open |-> merges[m].status = "conflicts"]
<1>1. UNCHANGED rows /\ req' = [req EXCEPT ![c] = r] /\ conflicts[m][p] # "none"
  BY DEF BeginResolve, Begin
<1>2. m \in Nat \ {0} /\ m \in 1 .. Len(conflicts)
  BY DEF MergeIds, IInv, ConflictRowsExact
<1>3. conflicts[m][p] \in ConflictState
  BY <1>2 DEF IInv, TypeOK
<1>4. r \in Request
  BY <1>2, <1>3 DEF Request, ResolveRequest
<1>5. RequestValid(r)
  BY <1>1 DEF RequestValid
<1> QED BY <1>1, <1>4, <1>5, ReadStep

\* The listed rows, with the request's own change, are the rows the merge has.
LEMMA ListConflictsStep ==
    ASSUME IInv, NEW c \in Client, ListConflicts(c)
    PROVE  IInv'
<1> DEFINE q == req[c]
           view == [conflicts[q.merge] EXCEPT ![q.path] = q.resolution]
           r == [op |-> "listed", merge |-> q.merge, path |-> q.path,
                 resolution |-> q.resolution, loaded |-> q.loaded, view |-> view]
<1>1. UNCHANGED rows /\ req' = [req EXCEPT ![c] = r] /\ q.op = "resolve"
  BY DEF ListConflicts
<1>2. q \in Request /\ RequestValid(q)
  BY DEF IInv, TypeOK
<1>3. q \in ResolveRequest
  BY <1>1, <1>2, RequestKinds
<1>4. q.merge \in MergeIds /\ conflicts[q.merge][q.path] # "none"
  BY <1>1, <1>2 DEF RequestValid
<1>5. conflicts[q.merge] \in [Path -> ConflictState]
  BY <1>4 DEF IInv, TypeOK, ConflictRowsExact, MergeIds
<1>6. q.resolution \in Resolution /\ q.path \in Path
  BY <1>3 DEF ResolveRequest
<1>7. view \in [Path -> ConflictState]
  BY <1>5, <1>6 DEF ConflictState
<1>8. r \in Request
  BY <1>3, <1>7 DEF Request, ResolveRequest, ConflictsListed
<1>9. q.resolution # "none"
  BY <1>6 DEF Resolution
<1>10. \A p \in Path : view[p] = "none" <=> conflicts[q.merge][p] = "none"
  BY <1>4, <1>5, <1>6, <1>9
<1>11. RequestValid(r)
  BY <1>4, <1>10 DEF RequestValid
<1> QED BY <1>1, <1>8, <1>11, ReadStep

\* A request that is rolled back changes nothing.
LEMMA AbortStep ==
    ASSUME IInv, NEW c \in Client, Abort(c)
    PROVE  IInv'
<1>1. UNCHANGED rows /\ req' = [req EXCEPT ![c] = Idle] /\ Idle \in Request
  BY DEF Abort, Finish, Request
<1>2. RequestValid(Idle)
  BY DEF RequestValid, Idle
<1> QED BY <1>1, <1>2, ReadStep

\* A request that ends leaves the others valid when rows are only added.
LEMMA FinishStep ==
    ASSUME IInv, CommitsKept, ConflictsKept, merges' \in Seq(MergeRow),
           NEW c \in Client, Finish(c)
    PROVE  /\ req' \in [Client -> Request]
           /\ \A d \in Client : RequestValid(req[d])'
<1>1. req \in [Client -> Request] /\ \A d \in Client : RequestValid(req[d])
  BY DEF IInv, TypeOK
<1>2. req' = [req EXCEPT ![c] = Idle] /\ Idle \in Request
  BY DEF Finish, Request
<1>3. ASSUME NEW d \in Client
      PROVE  RequestValid(req[d])'
  <2>1. CASE d = c
    <3>1. req'[d] = Idle
      BY <1>1, <1>2, <2>1
    <3> QED BY <3>1 DEF RequestValid, Idle
  <2>2. CASE d # c
    <3>1. req'[d] = req[d]
      BY <1>1, <1>2, <2>2
    <3> QED BY <1>1, <3>1, RequestKept DEF RequestValid, KnownParents
  <2> QED BY <2>1, <2>2
<1> QED BY <1>1, <1>2, <1>3

\* A commit adds one commit row and moves one head.
LEMMA EndCommitStep ==
    ASSUME IInv, NEW c \in Client, EndCommit(c)
    PROVE  IInv'
<1> DEFINE r == req[c]
<1>1. /\ r.op = "commit"
      /\ WriteCommit(r.branch, r.parents, r.tree)
      /\ UNCHANGED <<branches, merges, conflicts>>
      /\ Finish(c)
  BY DEF EndCommit
<1>2. r \in CommitRequest /\ RequestValid(r)
  BY <1>1, RequestKinds DEF IInv, TypeOK
<1>3. /\ CommitsKept
      /\ head' \in [Branch -> Nat]
      /\ HistoryWellFormed'
  <2>1. r.branch \in Branch /\ r.parents \in Seq(Nat) /\ r.tree \in SentTree
    BY <1>2 DEF CommitRequest
  <2>2. KnownParents(r.branch, r.parents)
    BY <1>1, <1>2 DEF RequestValid
  <2> QED BY <1>1, <2>1, <2>2, CommitAppended DEF IInv
<1>4. ConflictsKept /\ merges' \in Seq(MergeRow)
  BY <1>1 DEF ConflictsKept, IInv, TypeOK
<1>5. req' \in [Client -> Request] /\ \A d \in Client : RequestValid(req[d])'
  BY <1>1, <1>3, <1>4, FinishStep
<1>6. TypeOK'
  BY <1>1, <1>3, <1>5 DEF TypeOK, IInv, CommitsKept
<1>7. MergeHeadsKnown' /\ ConflictRowsExact' /\ MergeResultFaithful'
  <2>1. \A m \in MergeIds : MergeKept(m)
    BY <1>1 DEF MergeKept
  <2>2. MergeIds' = MergeIds
    BY <1>1 DEF MergeIds
  <2> QED BY <1>1, <1>3, <2>1, <2>2, UntouchedMerge
          DEF MergeHeadsKnown, ConflictRowsExact, MergeResultFaithful, IInv
<1> QED BY <1>3, <1>5, <1>6, <1>7 DEF IInv

\* The merge row a handler writes, with its conflict rows, is as it should be,
\* and the others stay so.
LEMMA MergeAppended ==
    ASSUME IInv, CommitsKept,
           NEW r \in MergeRequest, RequestValid(r),
           NEW status \in {"conflicts", "merged"}, NEW result \in Nat,
           WriteMerge(r, status, result),
           status = "conflicts" => ConflictPaths(r.ours, r.theirs) # {},
           status = "merged" =>
              /\ result \in 1 .. Len(commits')
              /\ commits'[result].branch = r.target
              /\ Range(commits'[result].parents) = {r.ours, r.theirs} \ {0}
              /\ NothingLost(commits'[result], TreeOf(r.ours), TreeOf(r.theirs))
    PROVE  /\ merges' \in Seq(MergeRow)
           /\ conflicts' \in Seq([Path -> ConflictState])
           /\ ConflictsKept
           /\ MergeHeadsKnown' /\ ConflictRowsExact' /\ MergeResultFaithful'
<1> DEFINE row == [target |-> r.target, source |-> r.source, ours |-> r.ours,
                   theirs |-> r.theirs, status |-> status, result |-> result]
           rowConflicts == [p \in Path |-> IF p \in ConflictPaths(r.ours, r.theirs)
                                             THEN "unresolved" ELSE "none"]
<1>1. /\ merges \in Seq(MergeRow)
      /\ conflicts \in Seq([Path -> ConflictState])
      /\ Len(conflicts) = Len(merges)
  BY DEF IInv, TypeOK, ConflictRowsExact
<1>n. PICK n \in Nat : n = Len(merges) + 1
  BY <1>1
<1>2. merges' = Append(merges, row) /\ conflicts' = Append(conflicts, rowConflicts)
  BY DEF WriteMerge
<1>3. row \in MergeRow /\ rowConflicts \in [Path -> ConflictState]
  BY DEF MergeRequest, MergeRow, ConflictState
<1> HIDE DEF row, rowConflicts
<1>4. /\ merges' \in Seq(MergeRow) /\ Len(merges') = n /\ merges'[n] = row
      /\ conflicts' \in Seq([Path -> ConflictState]) /\ Len(conflicts') = n
      /\ conflicts'[n] = rowConflicts
      /\ \A m \in MergeIds : merges'[m] = merges[m] /\ conflicts'[m] = conflicts[m]
  BY <1>1, <1>2, <1>3, <1>n DEF MergeIds
<1>5. \A m \in MergeIds : MergeKept(m)
  BY <1>4 DEF MergeKept
<1>6. ConflictsKept
  BY <1>1, <1>4, <1>n DEF ConflictsKept, MergeIds
<1>7. MergeIds' = MergeIds \cup {n}
  BY <1>1, <1>4, <1>n DEF MergeIds
<1>8. /\ r.ours # 0 => KnownCommit(r.ours, ProjectOf[r.target])
      /\ r.theirs # 0 => KnownCommit(r.theirs, ProjectOf[r.target])
  BY DEF RequestValid, MergeRequest
<1>9. HeadsKnown(n)'
  <2>1. merges'[n].ours = r.ours /\ merges'[n].theirs = r.theirs /\ merges'[n].target = r.target
    BY <1>4 DEF row
  <2> QED BY <1>8, <2>1, KnownCommitKept DEF HeadsKnown, IInv
<1>10. /\ TreeOf(r.ours)' = TreeOf(r.ours)
       /\ TreeOf(r.theirs)' = TreeOf(r.theirs)
  <2>1. /\ r.ours \in CommitIds \/ r.ours = 0
        /\ r.theirs \in CommitIds \/ r.theirs = 0
    BY <1>8 DEF KnownCommit
  <2> QED BY <2>1 DEF CommitsKept, TreeOf
<1>11. ConflictPaths(r.ours, r.theirs)' = ConflictPaths(r.ours, r.theirs)
  BY <1>10 DEF ConflictPaths
<1>12. RowsExact(n)'
  <2>1. /\ merges'[n].ours = r.ours /\ merges'[n].theirs = r.theirs
        /\ merges'[n].status = status
    BY <1>4 DEF row
  <2>2. \A p \in Path : conflicts'[n][p] # "none" <=> p \in ConflictPaths(r.ours, r.theirs)
    BY <1>4 DEF rowConflicts
  <2>3. ConflictPaths(r.ours, r.theirs) \subseteq Path
    BY DEF ConflictPaths
  <2> QED BY <1>11, <2>1, <2>2, <2>3 DEF RowsExact
<1>13. ResultFaithful(n)'
  <2>1. /\ merges'[n].ours = r.ours /\ merges'[n].theirs = r.theirs
        /\ merges'[n].status = status /\ merges'[n].target = r.target
        /\ merges'[n].result = result
    BY <1>4 DEF row
  <2> QED BY <1>10, <2>1 DEF ResultFaithful, NothingLost, CommitIds
<1>14. \A m \in MergeIds' : HeadsKnown(m)' /\ RowsExact(m)' /\ ResultFaithful(m)'
  BY <1>5, <1>7, <1>9, <1>12, <1>13, UntouchedMerge
<1> QED BY <1>4, <1>6, <1>14 DEF MergeHeadsKnown, ConflictRowsExact, MergeResultFaithful

\* A conflicting merge adds one open merge row with its conflict rows.
LEMMA EndConflictingMergeStep ==
    ASSUME IInv, NEW c \in Client, EndConflictingMerge(c)
    PROVE  IInv'
<1> DEFINE r == req[c]
<1>1. /\ r.op = "merge"
      /\ ConflictPaths(r.ours, r.theirs) # {}
      /\ WriteMerge(r, "conflicts", 0)
      /\ UNCHANGED <<branches, head, commits>>
      /\ Finish(c)
  BY DEF EndConflictingMerge
<1>2. r \in MergeRequest /\ RequestValid(r)
  BY <1>1, RequestKinds DEF IInv, TypeOK
<1>3. CommitsKept
  BY <1>1, SameCommits DEF IInv
<1>4. /\ merges' \in Seq(MergeRow)
      /\ conflicts' \in Seq([Path -> ConflictState])
      /\ ConflictsKept
      /\ MergeHeadsKnown' /\ ConflictRowsExact' /\ MergeResultFaithful'
  BY <1>1, <1>2, <1>3, MergeAppended
<1>5. req' \in [Client -> Request] /\ \A d \in Client : RequestValid(req[d])'
  BY <1>1, <1>3, <1>4, FinishStep
<1>6. TypeOK'
  BY <1>1, <1>4, <1>5 DEF TypeOK, IInv
<1>7. HistoryWellFormed'
  BY <1>1 DEF IInv, HistoryWellFormed, KnownCommit, CommitIds
<1> QED BY <1>4, <1>5, <1>6, <1>7 DEF IInv

\* The commit that finishes a merge extends the history and is what the merge
\* should result in.
LEMMA MergeCommitted ==
    ASSUME IInv,
           NEW target \in Branch, NEW ours \in Nat, NEW theirs \in Nat,
           ours # 0 => KnownCommit(ours, ProjectOf[target]),
           theirs # 0 => KnownCommit(theirs, ProjectOf[target]),
           NEW resolutions \in [Path -> ConflictState],
           \A p \in ConflictPaths(ours, theirs) :
               resolutions[p] \notin {"none", "unresolved", "invalid"},
           WriteCommit(target, MergeParents(ours, theirs), MergedTree(ours, theirs, resolutions))
    PROVE  /\ CommitsKept
           /\ head' \in [Branch -> Nat]
           /\ HistoryWellFormed'
           /\ Len(commits) + 1 \in 1 .. Len(commits')
           /\ commits'[Len(commits) + 1].branch = target
           /\ Range(commits'[Len(commits) + 1].parents) = {ours, theirs} \ {0}
           /\ NothingLost(commits'[Len(commits) + 1], TreeOf(ours), TreeOf(theirs))
<1> DEFINE parents == MergeParents(ours, theirs)
           sent == MergedTree(ours, theirs, resolutions)
<1>1. /\ ours \in CommitIds \/ ours = 0
      /\ theirs \in CommitIds \/ theirs = 0
  BY DEF KnownCommit
<1>2. /\ sent \in SentTree
      /\ NothingLost(CommitOf(target, parents, sent), TreeOf(ours), TreeOf(theirs))
  BY <1>1, MergedTreeFaithful DEF IInv
<1>3. parents \in Seq(Nat) /\ Range(parents) = {ours, theirs} \ {0}
  BY MergeParentsRange
<1> HIDE DEF parents, sent
<1>4. KnownParents(target, parents)
  <2>1. ASSUME NEW i \in DOMAIN parents
        PROVE  KnownCommit(parents[i], ProjectOf[target])
    <3>1. parents[i] \in {ours, theirs} \ {0}
      BY <1>3 DEF Range
    <3> QED BY <3>1
  <2> QED BY <2>1 DEF KnownParents
<1>5. WriteCommit(target, parents, sent)
  BY DEF parents, sent
<1>6. /\ CommitsKept
      /\ Len(commits') = Len(commits) + 1
      /\ commits'[Len(commits) + 1] = CommitOf(target, parents, sent)
      /\ head' \in [Branch -> Nat]
      /\ HistoryWellFormed'
  BY <1>2, <1>3, <1>4, <1>5, CommitAppended DEF IInv
<1>7. Len(commits) + 1 \in 1 .. Len(commits')
  BY <1>6 DEF IInv, TypeOK
<1> QED BY <1>2, <1>3, <1>6, <1>7 DEF CommitOf

\* A clean merge adds one merge row and the commit it results in.
LEMMA EndCleanMergeStep ==
    ASSUME IInv, NEW c \in Client, EndCleanMerge(c)
    PROVE  IInv'
<1> DEFINE r == req[c]
           resolutions == [p \in Path |-> "none"]
<1>1. /\ r.op = "merge"
      /\ ConflictPaths(r.ours, r.theirs) = {}
      /\ WriteMerge(r, "merged", Len(commits) + 1)
      /\ WriteCommit(r.target, MergeParents(r.ours, r.theirs),
                     MergedTree(r.ours, r.theirs, resolutions))
      /\ branches' = branches
      /\ Finish(c)
  BY DEF EndCleanMerge
<1>2. r \in MergeRequest /\ RequestValid(r)
  BY <1>1, RequestKinds DEF IInv, TypeOK
<1>3. /\ r.target \in Branch /\ r.ours \in Nat /\ r.theirs \in Nat
      /\ r.ours # 0 => KnownCommit(r.ours, ProjectOf[r.target])
      /\ r.theirs # 0 => KnownCommit(r.theirs, ProjectOf[r.target])
  BY <1>1, <1>2 DEF MergeRequest, RequestValid
<1>4. resolutions \in [Path -> ConflictState]
  BY DEF ConflictState
<1>5. /\ CommitsKept
      /\ head' \in [Branch -> Nat]
      /\ HistoryWellFormed'
      /\ Len(commits) + 1 \in 1 .. Len(commits')
      /\ commits'[Len(commits) + 1].branch = r.target
      /\ Range(commits'[Len(commits) + 1].parents) = {r.ours, r.theirs} \ {0}
      /\ NothingLost(commits'[Len(commits) + 1], TreeOf(r.ours), TreeOf(r.theirs))
  <2> HIDE DEF r, resolutions
  <2> QED BY <1>1, <1>3, <1>4, MergeCommitted
<1>6. /\ merges' \in Seq(MergeRow)
      /\ conflicts' \in Seq([Path -> ConflictState])
      /\ ConflictsKept
      /\ MergeHeadsKnown' /\ ConflictRowsExact' /\ MergeResultFaithful'
  <2>1. Len(commits) + 1 \in Nat
    BY <1>5
  <2> HIDE DEF r
  <2> QED BY <1>1, <1>2, <1>5, <2>1, MergeAppended
<1>7. req' \in [Client -> Request] /\ \A d \in Client : RequestValid(req[d])'
  BY <1>1, <1>5, <1>6, FinishStep
<1>8. TypeOK'
  BY <1>1, <1>5, <1>6, <1>7 DEF TypeOK, IInv, CommitsKept
<1> QED BY <1>5, <1>6, <1>7, <1>8 DEF IInv

\* Writing a resolution changes the state of a conflict row, never whether
\* there is one.
LEMMA ResolutionWritten ==
    ASSUME IInv, NEW r,
           r.merge \in MergeIds, r.path \in Path, r.resolution \in Resolution,
           conflicts[r.merge][r.path] # "none",
           WriteResolution(r)
    PROVE  /\ conflicts' \in Seq([Path -> ConflictState])
           /\ Len(conflicts') = Len(conflicts)
           /\ \A k \in MergeIds, q \in Path :
                conflicts'[k][q] = "none" <=> conflicts[k][q] = "none"
<1> DEFINE old == conflicts[r.merge]
           written == IF r.resolution = r.loaded THEN old[r.path] ELSE r.resolution
           new == [old EXCEPT ![r.path] = written]
<1>1. /\ conflicts \in Seq([Path -> ConflictState])
      /\ MergeIds = 1 .. Len(conflicts)
  BY DEF IInv, TypeOK, ConflictRowsExact, MergeIds
<1>2. conflicts' = [conflicts EXCEPT ![r.merge] = new]
  BY DEF WriteResolution
<1>3. old \in [Path -> ConflictState]
  BY <1>1
<1>4. written \in ConflictState /\ written # "none"
  BY <1>3 DEF ConflictState, Resolution, ConstantsAssumption
<1> HIDE DEF written
<1>5. new \in [Path -> ConflictState]
  BY <1>3, <1>4
<1>6. \A q \in Path : new[q] = "none" <=> old[q] = "none"
  BY <1>3, <1>4
<1> HIDE DEF new
<1>7. conflicts' \in Seq([Path -> ConflictState]) /\ Len(conflicts') = Len(conflicts)
  BY <1>1, <1>2, <1>5
<1>8. \A k \in MergeIds : conflicts'[k] = IF k = r.merge THEN new ELSE conflicts[k]
  BY <1>1, <1>2
<1> QED BY <1>6, <1>7, <1>8

\* A resolution that does not finalize changes one conflict row.
LEMMA EndResolveStep ==
    ASSUME IInv, NEW c \in Client, EndResolve(c)
    PROVE  IInv'
<1> DEFINE r == req[c]
<1>1. /\ r.op \in {"resolve", "listed"}
      /\ WriteResolution(r)
      /\ UNCHANGED <<branches, head, commits, merges>>
      /\ Finish(c)
  BY DEF EndResolve
<1>2. /\ r.merge \in MergeIds /\ r.path \in Path /\ r.resolution \in Resolution
      /\ conflicts[r.merge][r.path] # "none"
  <2>1. r \in ResolveRequest \cup ConflictsListed /\ RequestValid(r)
    BY <1>1, RequestKinds DEF IInv, TypeOK
  <2> QED BY <1>1, <2>1 DEF ResolveRequest, ConflictsListed, RequestValid
<1>3. /\ conflicts' \in Seq([Path -> ConflictState])
      /\ Len(conflicts') = Len(conflicts)
      /\ \A k \in MergeIds, q \in Path :
           conflicts'[k][q] = "none" <=> conflicts[k][q] = "none"
  <2> HIDE DEF r
  <2> QED BY <1>1, <1>2, ResolutionWritten
<1>4. CommitsKept /\ ConflictsKept /\ merges' \in Seq(MergeRow)
  BY <1>1, <1>3, SameCommits DEF IInv, TypeOK, ConflictsKept
<1>5. req' \in [Client -> Request] /\ \A d \in Client : RequestValid(req[d])'
  BY <1>1, <1>4, FinishStep
<1>6. TypeOK'
  BY <1>1, <1>3, <1>5 DEF TypeOK, IInv
<1>7. HistoryWellFormed'
  BY <1>1 DEF IInv, HistoryWellFormed, KnownCommit, CommitIds
<1> QED BY <1>1, <1>3, <1>4, <1>5, <1>6, <1>7, SameRows

\* Finalization changes one merge row and writes one commit.
LEMMA EndFinalizeStep ==
    ASSUME IInv, NEW c \in Client, EndFinalize(c)
    PROVE  IInv'
<1>1. PICK r \in ConflictsListed : r = req[c] /\ RequestValid(r)
  BY RequestKinds DEF EndFinalize, IInv, TypeOK
<1>2. PICK k \in MergeIds : k = r.merge
  BY <1>1 DEF RequestValid, ConflictsListed
<1>3. PICK m \in MergeRow : m = merges[k]
  BY DEF IInv, TypeOK, MergeIds
<1>4. PICK n \in Nat : n = Len(commits) + 1
  BY DEF IInv, TypeOK
<1> DEFINE row == [m EXCEPT !.status = "merged", !.result = n]
<1>5. /\ \A p \in Path : r.view[p] \notin {"unresolved", "invalid"}
      /\ WriteResolution(r)
      /\ WriteCommit(m.target, MergeParents(m.ours, m.theirs),
                     MergedTree(m.ours, m.theirs, r.view))
      /\ merges' = [merges EXCEPT ![k] = row]
      /\ branches' = branches
      /\ Finish(c)
  BY <1>1, <1>2, <1>3, <1>4 DEF EndFinalize
<1>6. /\ r.view \in [Path -> ConflictState] /\ r.path \in Path /\ r.resolution \in Resolution
      /\ conflicts[k][r.path] # "none"
      /\ \A p \in Path : r.view[p] = "none" <=> conflicts[k][p] = "none"
  BY <1>1, <1>2 DEF ConflictsListed, RequestValid
<1>7. HeadsKnown(k) /\ RowsExact(k)
  BY DEF IInv, MergeHeadsKnown, ConflictRowsExact
<1>8. /\ m.target \in Branch /\ m.ours \in Nat /\ m.theirs \in Nat
      /\ m.ours # 0 => KnownCommit(m.ours, ProjectOf[m.target])
      /\ m.theirs # 0 => KnownCommit(m.theirs, ProjectOf[m.target])
  BY <1>3, <1>7 DEF MergeRow, HeadsKnown
<1>9. \A p \in ConflictPaths(m.ours, m.theirs) :
        r.view[p] \notin {"none", "unresolved", "invalid"}
  <2>1. \A p \in ConflictPaths(m.ours, m.theirs) : p \in Path /\ conflicts[k][p] # "none"
    BY <1>3, <1>7 DEF RowsExact, ConflictPaths
  <2> QED BY <1>5, <1>6, <2>1
<1>10. /\ CommitsKept
       /\ head' \in [Branch -> Nat]
       /\ HistoryWellFormed'
       /\ n \in 1 .. Len(commits')
       /\ commits'[n].branch = m.target
       /\ Range(commits'[n].parents) = {m.ours, m.theirs} \ {0}
       /\ NothingLost(commits'[n], TreeOf(m.ours), TreeOf(m.theirs))
  BY <1>4, <1>5, <1>6, <1>8, <1>9, MergeCommitted
<1>11. /\ conflicts' \in Seq([Path -> ConflictState])
       /\ Len(conflicts') = Len(conflicts)
       /\ \A j \in MergeIds, q \in Path :
            conflicts'[j][q] = "none" <=> conflicts[j][q] = "none"
  BY <1>2, <1>5, <1>6, ResolutionWritten
<1>12. /\ merges' \in Seq(MergeRow) /\ Len(merges') = Len(merges)
       /\ merges'[k] = row
       /\ \A j \in MergeIds \ {k} : merges'[j] = merges[j]
  <2>1. row \in MergeRow
    BY DEF MergeRow
  <2>2. merges \in Seq(MergeRow) /\ MergeIds = 1 .. Len(merges)
    BY DEF IInv, TypeOK, MergeIds
  <2> HIDE DEF row
  <2> QED BY <1>5, <2>1, <2>2
<1>13. ConflictsKept /\ MergeIds' = MergeIds
  BY <1>11, <1>12 DEF ConflictsKept, MergeIds, IInv, TypeOK
<1>14. \A j \in MergeIds \ {k} : HeadsKnown(j)' /\ RowsExact(j)' /\ ResultFaithful(j)'
  <2>1. \A j \in MergeIds \ {k} : MergeKept(j)
    BY <1>11, <1>12 DEF MergeKept
  <2> QED BY <1>10, <2>1, UntouchedMerge
<1>15. HeadsKnown(k)' /\ RowsExact(k)' /\ ResultFaithful(k)'
  <2>1. /\ merges'[k].ours = m.ours /\ merges'[k].theirs = m.theirs
        /\ merges'[k].target = m.target
        /\ merges'[k].status = "merged" /\ merges'[k].result = n
    BY <1>12 DEF MergeRow
  <2>2. HeadsKnown(k)'
    BY <1>8, <1>10, <2>1, KnownCommitKept DEF HeadsKnown, IInv
  <2>3. /\ m.ours \in CommitIds \/ m.ours = 0
        /\ m.theirs \in CommitIds \/ m.theirs = 0
    BY <1>8 DEF KnownCommit
  <2>4. TreeOf(m.ours)' = TreeOf(m.ours) /\ TreeOf(m.theirs)' = TreeOf(m.theirs)
    BY <1>10, <2>3 DEF CommitsKept, TreeOf
  <2>5. ConflictPaths(m.ours, m.theirs)' = ConflictPaths(m.ours, m.theirs)
    BY <2>4 DEF ConflictPaths
  <2>6. RowsExact(k)'
    BY <1>3, <1>7, <1>11, <2>1, <2>5 DEF RowsExact
  <2>7. ResultFaithful(k)'
    BY <1>10, <2>1, <2>4 DEF ResultFaithful, NothingLost, CommitIds
  <2> QED BY <2>2, <2>6, <2>7
<1>16. MergeHeadsKnown' /\ ConflictRowsExact' /\ MergeResultFaithful'
  BY <1>11, <1>12, <1>13, <1>14, <1>15
     DEF MergeHeadsKnown, ConflictRowsExact, MergeResultFaithful, IInv
<1>17. req' \in [Client -> Request] /\ \A d \in Client : RequestValid(req[d])'
  BY <1>5, <1>10, <1>12, <1>13, FinishStep
<1>18. TypeOK'
  BY <1>5, <1>10, <1>11, <1>12, <1>17 DEF TypeOK, IInv, CommitsKept
<1> QED BY <1>10, <1>16, <1>17, <1>18 DEF IInv

\* Every step keeps IInv.
LEMMA NextIInv == IInv /\ [Next]_vars => IInv'
<1> SUFFICES ASSUME IInv, [Next]_vars
             PROVE  IInv'
  OBVIOUS
<1>1. CASE UNCHANGED vars
  <2>1. UNCHANGED rows /\ req' = req
    BY <1>1 DEF vars
  <2>2. TypeOK'
    BY <2>1 DEF IInv, TypeOK, rows
  <2>3. HistoryWellFormed'
    BY <2>1 DEF IInv, rows, HistoryWellFormed, KnownCommit, CommitIds
  <2>4. ConflictsKept
    BY <2>1 DEF rows, ConflictsKept, IInv, TypeOK
  <2>5. \A d \in Client : RequestValid(req[d])'
    BY <2>1 DEF IInv, rows, RequestValid, KnownParents, KnownCommit, CommitIds, MergeIds
  <2> QED BY <2>1, <2>2, <2>3, <2>4, <2>5, SameRows DEF rows
<1>2. ASSUME NEW c \in Client, NEW b \in Branch, NEW from \in CommitIds \cup {0},
             CreateBranch(c, b, from)
      PROVE  IInv'
  BY <1>2, CreateBranchStep
<1>3. ASSUME NEW c \in Client, NEW b \in Branch, NEW tree \in Payload,
             BeginCommit(c, b, tree)
      PROVE  IInv'
  BY <1>3, BeginCommitStep
<1>4. ASSUME NEW c \in Client, NEW b \in Branch, NEW tree \in Payload,
             NEW parents \in ExplicitParents, BeginCommitOnto(c, b, parents, tree)
      PROVE  IInv'
  BY <1>4, BeginCommitOntoStep
<1>5. ASSUME NEW c \in Client, EndCommit(c) PROVE IInv'
  BY <1>5, EndCommitStep
<1>6. ASSUME NEW c \in Client, NEW target \in Branch, NEW source \in Branch,
             BeginMerge(c, target, source)
      PROVE  IInv'
  BY <1>6, BeginMergeStep
<1>7. ASSUME NEW c \in Client, ReadSource(c) PROVE IInv'
  BY <1>7, ReadSourceStep
<1>8. ASSUME NEW c \in Client, EndCleanMerge(c) PROVE IInv'
  BY <1>8, EndCleanMergeStep
<1>9. ASSUME NEW c \in Client, EndConflictingMerge(c) PROVE IInv'
  BY <1>9, EndConflictingMergeStep
<1>10. ASSUME NEW c \in Client, NEW m \in MergeIds, NEW p \in Path,
              NEW resolution \in Offered, BeginResolve(c, m, p, resolution)
       PROVE  IInv'
  BY <1>10, BeginResolveStep
<1>11. ASSUME NEW c \in Client, ListConflicts(c) PROVE IInv'
  BY <1>11, ListConflictsStep
<1>12. ASSUME NEW c \in Client, EndResolve(c) PROVE IInv'
  BY <1>12, EndResolveStep
<1>13. ASSUME NEW c \in Client, EndFinalize(c) PROVE IInv'
  BY <1>13, EndFinalizeStep
<1>14. ASSUME NEW c \in Client, Abort(c) PROVE IInv'
  BY <1>14, AbortStep
<1> QED BY <1>1, <1>2, <1>3, <1>4, <1>5, <1>6, <1>7, <1>8, <1>9, <1>10, <1>11,
           <1>12, <1>13, <1>14 DEF Next

--------------------------------------------------------------------------------
(* The audit log and the events *)

\* The commit a handler writes gets the next number, and no row is changed.
LEMMA CommitNumbered ==
    ASSUME IInv, IInv', NEW row, commits' = Append(commits, row)
    PROVE  /\ CommitsKept
           /\ CommitIds' = CommitIds \cup {Len(commits) + 1}
           /\ commits'[Len(commits) + 1] = row
<1> DEFINE S == CommitRow \cup {row}
<1>1. commits \in Seq(CommitRow) /\ commits' \in Seq(CommitRow)
  BY DEF IInv, TypeOK
<1>2. commits \in Seq(S) /\ row \in S
  BY <1>1
<1> HIDE DEF S
<1>3. /\ Len(commits') = Len(commits) + 1
      /\ commits'[Len(commits) + 1] = row
      /\ \A id \in 1 .. Len(commits) : commits'[id] = commits[id]
  BY <1>2
<1> QED BY <1>1, <1>3 DEF CommitsKept, CommitIds

\* So does the merge a handler writes.
LEMMA MergeNumbered ==
    ASSUME IInv, NEW r \in MergeRequest, NEW status \in {"conflicts", "merged"},
           NEW result \in Nat, WriteMerge(r, status, result)
    PROVE  /\ MergeIds' = MergeIds \cup {Len(merges) + 1}
           /\ Len(merges) + 1 \notin MergeIds
           /\ \A m \in MergeIds : merges'[m] = merges[m] /\ conflicts'[m] = conflicts[m]
           /\ merges'[Len(merges) + 1] = [target |-> r.target, source |-> r.source,
                                          ours |-> r.ours, theirs |-> r.theirs,
                                          status |-> status, result |-> result]
           /\ conflicts'[Len(merges) + 1] =
                [p \in Path |-> IF p \in ConflictPaths(r.ours, r.theirs)
                                  THEN "unresolved" ELSE "none"]
<1> DEFINE row == [target |-> r.target, source |-> r.source, ours |-> r.ours,
                   theirs |-> r.theirs, status |-> status, result |-> result]
           rowConflicts == [p \in Path |-> IF p \in ConflictPaths(r.ours, r.theirs)
                                             THEN "unresolved" ELSE "none"]
<1>1. /\ merges \in Seq(MergeRow)
      /\ conflicts \in Seq([Path -> ConflictState])
      /\ Len(conflicts) = Len(merges)
  BY DEF IInv, TypeOK, ConflictRowsExact
<1>2. merges' = Append(merges, row) /\ conflicts' = Append(conflicts, rowConflicts)
  BY DEF WriteMerge
<1>3. row \in MergeRow /\ rowConflicts \in [Path -> ConflictState]
  BY DEF MergeRequest, MergeRow, ConflictState
<1> HIDE DEF row, rowConflicts
<1>4. /\ Len(merges') = Len(merges) + 1
      /\ merges'[Len(merges) + 1] = row
      /\ conflicts'[Len(merges) + 1] = rowConflicts
      /\ \A m \in MergeIds : merges'[m] = merges[m] /\ conflicts'[m] = conflicts[m]
  BY <1>1, <1>2, <1>3 DEF MergeIds
<1> QED BY <1>1, <1>4 DEF MergeIds, row, rowConflicts

\* Two recorded heads conflict as long as they are recorded.
LEMMA ConflictingKept ==
    ASSUME IInv, CommitsKept, NEW m \in MergeIds,
           merges'[m].ours = merges[m].ours, merges'[m].theirs = merges[m].theirs
    PROVE  Conflicting(m)' <=> Conflicting(m)
<1>1. /\ merges[m].ours \in CommitIds \/ merges[m].ours = 0
      /\ merges[m].theirs \in CommitIds \/ merges[m].theirs = 0
  BY HeadsAreCommits DEF IInv
<1>2. ConflictPaths(merges[m].ours, merges[m].theirs)'
        = ConflictPaths(merges[m].ours, merges[m].theirs)
  <2> DEFINE o == merges[m].ours
             t == merges[m].theirs
  <2>1. TreeOf(o)' = TreeOf(o) /\ TreeOf(t)' = TreeOf(t)
    BY <1>1 DEF CommitsKept, TreeOf
  <2> QED BY <2>1 DEF ConflictPaths
<1> QED BY <1>2 DEF Conflicting

\* The merges that have been completed by resolving their conflicts.
Completed == {m \in MergeIds : Conflicting(m) /\ merges[m].status = "merged"}

\* A step that writes commits, merges and branches with all the rows that tell
\* of them, and completes the merges it says it does, keeps the trail complete.
LEMMA TrailStep ==
    ASSUME IInv, TrailComplete, CommitsKept,
           \A m \in MergeIds : /\ merges'[m].ours = merges[m].ours
                               /\ merges'[m].theirs = merges[m].theirs,
           NEW newCommits, CommitIds' = CommitIds \cup newCommits,
           NEW newMerges, MergeIds' = MergeIds \cup newMerges,
           newMerges \cap MergeIds = {},
           NEW newBranches, branches' = branches \cup newBranches,
           NEW completed, Completed' = Completed \cup completed,
           events' = events \cup {<<"commit_created", id>> : id \in newCommits}
                            \cup {<<"merge_created", m>> : m \in newMerges}
                            \cup {<<"conflict_detected", m>> :
                                     m \in {n \in newMerges : Conflicting(n)'}},
           NEW written, audit' = audit \cup written,
           {row \in written : row[1] = "branch_created"}
               = {<<"branch_created", b>> : b \in newBranches},
           {row \in written : row[1] = "commit_created"}
               = {<<"commit_created", id>> : id \in newCommits},
           {row \in written : row[1] = "merge_created"}
               = {<<"merge_created", m>> : m \in newMerges},
           {row[2] : row \in {t \in written : t[1] = "merge_completed"}} = completed
    PROVE  TrailComplete'
<1>1. \A event : AuditOf(event)' = AuditOf(event) \cup {row \in written : row[1] = event}
  BY DEF AuditOf
<1>2. \A m \in MergeIds : Conflicting(m)' <=> Conflicting(m)
  BY ConflictingKept
<1>3. {n \in MergeIds' : Conflicting(n)'}
        = {n \in MergeIds : Conflicting(n)} \cup {n \in newMerges : Conflicting(n)'}
  BY <1>2
<1>4. events' = {<<"commit_created", id>> : id \in CommitIds'}
                  \cup {<<"merge_created", m>> : m \in MergeIds'}
                  \cup {<<"conflict_detected", m>> : m \in {n \in MergeIds' : Conflicting(n)'}}
  <2>1. events = {<<"commit_created", id>> : id \in CommitIds}
                  \cup {<<"merge_created", m>> : m \in MergeIds}
                  \cup {<<"conflict_detected", m>> : m \in {n \in MergeIds : Conflicting(n)}}
    BY DEF TrailComplete
  <2> DEFINE A == {n \in MergeIds : Conflicting(n)}
             B == {n \in newMerges : Conflicting(n)'}
             C == {n \in MergeIds' : Conflicting(n)'}
  <2>2. C = A \cup B
    BY <1>3
  <2>3. /\ events = {<<"commit_created", id>> : id \in CommitIds}
                     \cup {<<"merge_created", m>> : m \in MergeIds}
                     \cup {<<"conflict_detected", m>> : m \in A}
        /\ events' = events \cup {<<"commit_created", id>> : id \in newCommits}
                            \cup {<<"merge_created", m>> : m \in newMerges}
                            \cup {<<"conflict_detected", m>> : m \in B}
    BY <2>1
  <2> HIDE DEF A, B, C
  <2>4. events' = {<<"commit_created", id>> : id \in CommitIds'}
                    \cup {<<"merge_created", m>> : m \in MergeIds'}
                    \cup {<<"conflict_detected", m>> : m \in C}
    BY <2>2, <2>3
  <2> QED BY <2>4 DEF C
<1>5. AuditOf("branch_created")' = {<<"branch_created", b>> : b \in branches'}
  BY <1>1 DEF TrailComplete
<1>6. AuditOf("commit_created")' = {<<"commit_created", id>> : id \in CommitIds'}
  BY <1>1 DEF TrailComplete
<1>7. AuditOf("merge_created")' = {<<"merge_created", m>> : m \in MergeIds'}
  BY <1>1 DEF TrailComplete
<1>8. {row[2] : row \in AuditOf("merge_completed")'} = Completed'
  <2>1. {row[2] : row \in AuditOf("merge_completed")} = Completed
    BY DEF TrailComplete, Completed
  <2> DEFINE new == {t \in written : t[1] = "merge_completed"}
  <2>2. {row[2] : row \in new} = completed
    OBVIOUS
  <2>3. AuditOf("merge_completed")' = AuditOf("merge_completed") \cup new
    BY <1>1
  <2> HIDE DEF new
  <2> QED BY <2>1, <2>2, <2>3
<1> QED BY <1>4, <1>5, <1>6, <1>7, <1>8 DEF TrailComplete, Completed

\* Reading tells nothing.
LEMMA TrailKept ==
    ASSUME TrailComplete, UNCHANGED rows
    PROVE  TrailComplete'
    BY DEF TrailComplete, rows, AuditOf, CommitIds, MergeIds, Conflicting, ConflictPaths, TreeOf

\* A branch is told of by its audit row.
LEMMA TrailCreateBranch ==
    ASSUME IInv, TrailComplete, NEW c \in Client, NEW b \in Branch,
           NEW from \in CommitIds \cup {0}, CreateBranch(c, b, from)
    PROVE  TrailComplete'
<1>1. /\ commits' = commits /\ merges' = merges /\ events' = events
      /\ branches' = branches \cup {b}
      /\ audit' = audit \cup {<<"branch_created", b>>}
  BY DEF CreateBranch
<1>2. /\ CommitsKept /\ CommitIds' = CommitIds \cup {} /\ MergeIds' = MergeIds \cup {}
      /\ Completed' = Completed \cup {}
  BY <1>1, SameCommits DEF IInv, CommitIds, MergeIds, Completed, Conflicting, ConflictPaths, TreeOf
<1> DEFINE written == {<<"branch_created", b>>}
<1>3. /\ {row \in written : row[1] = "branch_created"} = {<<"branch_created", d>> : d \in {b}}
      /\ {row \in written : row[1] = "commit_created"} = {<<"commit_created", id>> : id \in {}}
      /\ {row \in written : row[1] = "merge_created"} = {<<"merge_created", m>> : m \in {}}
      /\ {row[2] : row \in {t \in written : t[1] = "merge_completed"}} = {}
  OBVIOUS
<1>4. events' = events \cup {<<"commit_created", id>> : id \in {}}
                       \cup {<<"merge_created", m>> : m \in {}}
                       \cup {<<"conflict_detected", m>> : m \in {j \in {} : Conflicting(j)'}}
  BY <1>1
<1>5. /\ {} \cap MergeIds = {} /\ audit' = audit \cup written
      /\ \A m \in MergeIds : /\ merges'[m].ours = merges[m].ours
                             /\ merges'[m].theirs = merges[m].theirs
  BY <1>1
<1> HIDE DEF written
<1> QED BY <1>1, <1>2, <1>3, <1>4, <1>5, TrailStep

\* A commit is told of by an audit row and an event.
LEMMA TrailEndCommit ==
    ASSUME IInv, IInv', TrailComplete, NEW c \in Client, EndCommit(c)
    PROVE  TrailComplete'
<1>n. PICK n \in Nat : n = Len(commits) + 1
  BY DEF IInv, TypeOK
<1>1. PICK row : commits' = Append(commits, row)
  BY DEF EndCommit, WriteCommit
<1>2. /\ merges' = merges /\ branches' = branches
      /\ audit' = audit \cup {<<"commit_created", n>>}
      /\ events' = events \cup {<<"commit_created", n>>}
  BY <1>n DEF EndCommit, CommitCreated
<1>3. CommitsKept /\ CommitIds' = CommitIds \cup {n}
  BY <1>1, <1>n, CommitNumbered
<1>4. MergeIds' = MergeIds \cup {} /\ \A m \in MergeIds : Conflicting(m)' <=> Conflicting(m)
  BY <1>2, <1>3, ConflictingKept DEF MergeIds
<1>5. Completed' = Completed \cup {}
  BY <1>2, <1>4 DEF Completed
<1> DEFINE written == {<<"commit_created", n>>}
<1>6. /\ {row_ \in written : row_[1] = "branch_created"} = {<<"branch_created", b>> : b \in {}}
      /\ {row_ \in written : row_[1] = "commit_created"} = {<<"commit_created", id>> : id \in {n}}
      /\ {row_ \in written : row_[1] = "merge_created"} = {<<"merge_created", m>> : m \in {}}
      /\ {row_[2] : row_ \in {t \in written : t[1] = "merge_completed"}} = {}
  OBVIOUS
<1>7. events' = events \cup {<<"commit_created", id>> : id \in {n}}
                       \cup {<<"merge_created", m>> : m \in {}}
                       \cup {<<"conflict_detected", m>> : m \in {j \in {} : Conflicting(j)'}}
  BY <1>2
<1>8. audit' = audit \cup written /\ branches' = branches \cup {}
  BY <1>2
<1>9. {} \cap MergeIds = {} /\ \A m \in MergeIds : /\ merges'[m].ours = merges[m].ours
                                                    /\ merges'[m].theirs = merges[m].theirs
  BY <1>2
<1> HIDE DEF written
<1> QED BY <1>3, <1>4, <1>5, <1>6, <1>7, <1>8, <1>9, TrailStep

\* A clean merge tells of itself and of its commit, and of no conflict.
LEMMA TrailEndCleanMerge ==
    ASSUME IInv, IInv', TrailComplete, NEW c \in Client, EndCleanMerge(c)
    PROVE  TrailComplete'
<1>n. PICK n \in Nat : n = Len(commits) + 1
  BY DEF IInv, TypeOK
<1>k. PICK k \in Nat : k = Len(merges) + 1
  BY DEF IInv, TypeOK
<1>1. PICK r \in MergeRequest : r = req[c] /\ RequestValid(r)
  BY RequestKinds DEF EndCleanMerge, IInv, TypeOK
<1>2. PICK row : commits' = Append(commits, row)
  BY DEF EndCleanMerge, WriteCommit
<1>3. /\ r.op = "merge"
      /\ ConflictPaths(r.ours, r.theirs) = {}
      /\ WriteMerge(r, "merged", n)
      /\ branches' = branches
      /\ audit' = audit \cup {<<"merge_created", k>>, <<"commit_created", n>>}
      /\ events' = events \cup {<<"merge_created", k>>, <<"commit_created", n>>}
  BY <1>1, <1>n, <1>k DEF EndCleanMerge, MergeCreated, CommitCreated
<1>4. CommitsKept /\ CommitIds' = CommitIds \cup {n}
  BY <1>2, <1>n, CommitNumbered
<1>6. /\ MergeIds' = MergeIds \cup {k} /\ k \notin MergeIds
      /\ \A m \in MergeIds : merges'[m] = merges[m]
      /\ merges'[k].ours = r.ours /\ merges'[k].theirs = r.theirs
  <2>1. /\ MergeIds' = MergeIds \cup {k} /\ k \notin MergeIds
        /\ \A m \in MergeIds : merges'[m] = merges[m]
        /\ merges'[k] = [target |-> r.target, source |-> r.source, ours |-> r.ours,
                         theirs |-> r.theirs, status |-> "merged", result |-> n]
    BY <1>3, <1>n, <1>k, MergeNumbered
  <2> QED BY <2>1
<1>7. \A m \in MergeIds : Conflicting(m)' <=> Conflicting(m)
  BY <1>4, <1>6, ConflictingKept
<1>8. ~Conflicting(k)'
  <2>1. /\ r.ours \in CommitIds \/ r.ours = 0
        /\ r.theirs \in CommitIds \/ r.theirs = 0
    BY <1>1, <1>3 DEF RequestValid, KnownCommit
  <2>2. TreeOf(r.ours)' = TreeOf(r.ours) /\ TreeOf(r.theirs)' = TreeOf(r.theirs)
    BY <1>4, <2>1 DEF CommitsKept, TreeOf
  <2> QED BY <1>3, <1>6, <2>2 DEF Conflicting, ConflictPaths
<1>9. Completed' = Completed \cup {}
  BY <1>6, <1>7, <1>8 DEF Completed
<1> DEFINE written == {<<"merge_created", k>>, <<"commit_created", n>>}
<1>10. /\ {row_ \in written : row_[1] = "branch_created"} = {<<"branch_created", b>> : b \in {}}
       /\ {row_ \in written : row_[1] = "commit_created"} = {<<"commit_created", id>> : id \in {n}}
       /\ {row_ \in written : row_[1] = "merge_created"} = {<<"merge_created", m>> : m \in {k}}
       /\ {row_[2] : row_ \in {t \in written : t[1] = "merge_completed"}} = {}
  OBVIOUS
<1>11. events' = events \cup {<<"commit_created", id>> : id \in {n}}
                        \cup {<<"merge_created", m>> : m \in {k}}
                        \cup {<<"conflict_detected", m>> : m \in {j \in {k} : Conflicting(j)'}}
  BY <1>3, <1>8
<1>12. audit' = audit \cup written /\ branches' = branches \cup {}
  BY <1>3
<1>13. {k} \cap MergeIds = {} /\ \A m \in MergeIds : /\ merges'[m].ours = merges[m].ours
                                                     /\ merges'[m].theirs = merges[m].theirs
  BY <1>6
<1> HIDE DEF written
<1> QED BY <1>4, <1>6, <1>9, <1>10, <1>11, <1>12, <1>13, TrailStep

\* A conflicting merge tells of itself and of its conflicts.
LEMMA TrailEndConflictingMerge ==
    ASSUME IInv, IInv', TrailComplete, NEW c \in Client, EndConflictingMerge(c)
    PROVE  TrailComplete'
<1>k. PICK k \in Nat : k = Len(merges) + 1
  BY DEF IInv, TypeOK
<1>1. PICK r \in MergeRequest : r = req[c] /\ RequestValid(r)
  BY RequestKinds DEF EndConflictingMerge, IInv, TypeOK
<1>3. /\ r.op = "merge"
      /\ ConflictPaths(r.ours, r.theirs) # {}
      /\ WriteMerge(r, "conflicts", 0)
      /\ branches' = branches /\ commits' = commits
      /\ audit' = audit \cup {<<"merge_created", k>>}
      /\ events' = events \cup {<<"merge_created", k>>, <<"conflict_detected", k>>}
  BY <1>1, <1>k DEF EndConflictingMerge, MergeCreated
<1>4. CommitsKept /\ CommitIds' = CommitIds \cup {}
  BY <1>3, SameCommits DEF IInv, CommitIds
<1>6. /\ MergeIds' = MergeIds \cup {k} /\ k \notin MergeIds
      /\ \A m \in MergeIds : merges'[m] = merges[m]
      /\ merges'[k].ours = r.ours /\ merges'[k].theirs = r.theirs
      /\ merges'[k].status = "conflicts"
  <2>1. /\ MergeIds' = MergeIds \cup {k} /\ k \notin MergeIds
        /\ \A m \in MergeIds : merges'[m] = merges[m]
        /\ merges'[k] = [target |-> r.target, source |-> r.source, ours |-> r.ours,
                         theirs |-> r.theirs, status |-> "conflicts", result |-> 0]
    BY <1>3, <1>k, MergeNumbered
  <2> QED BY <2>1
<1>7. \A m \in MergeIds : Conflicting(m)' <=> Conflicting(m)
  BY <1>4, <1>6, ConflictingKept
<1>8. Conflicting(k)'
  BY <1>3, <1>6 DEF Conflicting, ConflictPaths, TreeOf
<1>9. Completed' = Completed \cup {}
  BY <1>6, <1>7 DEF Completed
<1> DEFINE written == {<<"merge_created", k>>}
<1>10. /\ {row_ \in written : row_[1] = "branch_created"} = {<<"branch_created", b>> : b \in {}}
       /\ {row_ \in written : row_[1] = "commit_created"} = {<<"commit_created", id>> : id \in {}}
       /\ {row_ \in written : row_[1] = "merge_created"} = {<<"merge_created", m>> : m \in {k}}
       /\ {row_[2] : row_ \in {t \in written : t[1] = "merge_completed"}} = {}
  OBVIOUS
<1>11. events' = events \cup {<<"commit_created", id>> : id \in {}}
                        \cup {<<"merge_created", m>> : m \in {k}}
                        \cup {<<"conflict_detected", m>> : m \in {j \in {k} : Conflicting(j)'}}
  BY <1>3, <1>8
<1>12. audit' = audit \cup written /\ branches' = branches \cup {}
  BY <1>3
<1>13. {k} \cap MergeIds = {} /\ \A m \in MergeIds : /\ merges'[m].ours = merges[m].ours
                                                     /\ merges'[m].theirs = merges[m].theirs
  BY <1>6
<1> HIDE DEF written
<1> QED BY <1>4, <1>6, <1>9, <1>10, <1>11, <1>12, <1>13, TrailStep

\* A resolution alone is told of by a row of its own kind.
LEMMA TrailEndResolve ==
    ASSUME IInv, TrailComplete, NEW c \in Client, EndResolve(c)
    PROVE  TrailComplete'
<1> DEFINE written == {ConflictResolved(req[c])}
<1>1. /\ commits' = commits /\ merges' = merges /\ events' = events /\ branches' = branches
      /\ audit' = audit \cup written
  BY DEF EndResolve
<1>2. /\ CommitsKept /\ CommitIds' = CommitIds \cup {} /\ MergeIds' = MergeIds \cup {}
      /\ Completed' = Completed \cup {}
  BY <1>1, SameCommits DEF IInv, CommitIds, MergeIds, Completed, Conflicting, ConflictPaths, TreeOf
<1>3. \A t \in written : t[1] = "conflict_resolved"
  BY DEF ConflictResolved
<1>4. /\ {row \in written : row[1] = "branch_created"} = {<<"branch_created", b>> : b \in {}}
      /\ {row \in written : row[1] = "commit_created"} = {<<"commit_created", id>> : id \in {}}
      /\ {row \in written : row[1] = "merge_created"} = {<<"merge_created", m>> : m \in {}}
      /\ {row[2] : row \in {t \in written : t[1] = "merge_completed"}} = {}
  <2> HIDE DEF written
  <2> QED BY <1>3
<1>5. events' = events \cup {<<"commit_created", id>> : id \in {}}
                       \cup {<<"merge_created", m>> : m \in {}}
                       \cup {<<"conflict_detected", m>> : m \in {j \in {} : Conflicting(j)'}}
  BY <1>1
<1>6. /\ branches' = branches \cup {} /\ {} \cap MergeIds = {}
      /\ \A m \in MergeIds : /\ merges'[m].ours = merges[m].ours
                             /\ merges'[m].theirs = merges[m].theirs
  BY <1>1
<1>7. PICK w : w = written
  OBVIOUS
<1> HIDE DEF written
<1> QED BY <1>1, <1>2, <1>4, <1>5, <1>6, <1>7, TrailStep

\* Finalization tells of the commit and of the completion of its merge.
LEMMA TrailEndFinalize ==
    ASSUME IInv, IInv', TrailComplete, NEW c \in Client, EndFinalize(c)
    PROVE  TrailComplete'
<1>n. PICK n \in Nat : n = Len(commits) + 1
  BY DEF IInv, TypeOK
<1>1. PICK r \in ConflictsListed : r = req[c] /\ RequestValid(r)
  BY RequestKinds DEF EndFinalize, IInv, TypeOK
<1>2. PICK k \in MergeIds : k = r.merge
  BY <1>1 DEF RequestValid, ConflictsListed
<1>3. PICK row : commits' = Append(commits, row)
  BY DEF EndFinalize, WriteCommit
<1> DEFINE written == {ConflictResolved(r), <<"commit_created", n>>, <<"merge_completed", k, n>>}
<1>4. /\ merges' = [merges EXCEPT ![k].status = "merged", ![k].result = n]
      /\ branches' = branches
      /\ audit' = audit \cup written
      /\ events' = events \cup {<<"commit_created", n>>}
  BY <1>1, <1>2, <1>n DEF EndFinalize, CommitCreated
<1>5. CommitsKept /\ CommitIds' = CommitIds \cup {n}
  BY <1>3, <1>n, CommitNumbered
<1>6. /\ MergeIds' = MergeIds
      /\ \A m \in MergeIds : merges[m] \in MergeRow
      /\ \A m \in MergeIds \ {k} : merges'[m] = merges[m]
      /\ merges'[k] = [merges[k] EXCEPT !.status = "merged", !.result = n]
  <2> DEFINE new == [merges[k] EXCEPT !.status = "merged", !.result = n]
  <2>1. merges \in Seq(MergeRow) /\ MergeIds = 1 .. Len(merges)
    BY DEF MergeIds, IInv, TypeOK
  <2>2. merges' = [merges EXCEPT ![k] = new]
    BY <1>4
  <2>3. new \in MergeRow
    <3>1. merges[k] \in MergeRow
      BY <2>1
    <3> QED BY <1>n, <3>1 DEF MergeRow
  <2> HIDE DEF new
  <2>4. /\ Len(merges') = Len(merges) /\ merges'[k] = new
        /\ \A m \in MergeIds \ {k} : merges'[m] = merges[m]
    BY <2>1, <2>2, <2>3
  <2> QED BY <2>1, <2>4 DEF MergeIds, new
<1>7. \A m \in MergeIds : /\ merges'[m].ours = merges[m].ours
                          /\ merges'[m].theirs = merges[m].theirs
  <2>1. PICK m \in MergeRow : m = merges[k]
    BY <1>6
  <2>2. merges'[k].ours = m.ours /\ merges'[k].theirs = m.theirs
    BY <1>6, <2>1 DEF MergeRow
  <2> QED BY <1>6, <2>1, <2>2
<1>8. \A m \in MergeIds : Conflicting(m)' <=> Conflicting(m)
  BY <1>5, <1>7, ConflictingKept
<1>9. Conflicting(k)
  <2>1. r.path \in Path /\ conflicts[k][r.path] # "none"
    BY <1>1, <1>2 DEF RequestValid, ConflictsListed
  <2> QED BY <2>1 DEF IInv, ConflictRowsExact, RowsExact, Conflicting
<1>10. merges'[k].status = "merged"
  BY <1>6 DEF MergeRow
<1>11. Completed' = Completed \cup {k}
  BY <1>6, <1>8, <1>9, <1>10 DEF Completed
<1>12. /\ {row_ \in written : row_[1] = "branch_created"} = {<<"branch_created", b>> : b \in {}}
       /\ {row_ \in written : row_[1] = "commit_created"} = {<<"commit_created", id>> : id \in {n}}
       /\ {row_ \in written : row_[1] = "merge_created"} = {<<"merge_created", m>> : m \in {}}
       /\ {row_[2] : row_ \in {t \in written : t[1] = "merge_completed"}} = {k}
  <2>1. \A t : t \in written <=> \/ t = ConflictResolved(r)
                                 \/ t = <<"commit_created", n>>
                                 \/ t = <<"merge_completed", k, n>>
    OBVIOUS
  <2>2. ConflictResolved(r)[1] = "conflict_resolved"
    BY DEF ConflictResolved
  <2> DEFINE done == <<"merge_completed", k, n>>
  <2>3. done[1] = "merge_completed" /\ done[2] = k
    OBVIOUS
  <2> HIDE DEF written
  <2>4. {t \in written : t[1] = "merge_completed"} = {done}
    <3>1. \A t : t \in written <=> t \in {ConflictResolved(r), <<"commit_created", n>>, done}
      BY <2>1
    <3>2. <<"commit_created", n>>[1] = "commit_created"
      OBVIOUS
    <3> HIDE DEF done
    <3> QED BY <2>2, <2>3, <3>1, <3>2
  <2>5. {row_[2] : row_ \in {t \in written : t[1] = "merge_completed"}} = {k}
    <3> HIDE DEF done
    <3> QED BY <2>3, <2>4
  <2>6. <<"commit_created", n>>[1] = "commit_created"
    OBVIOUS
  <2>7. {row_ \in written : row_[1] = "commit_created"} = {<<"commit_created", n>>}
    <3>1. \A t : t \in written <=> t \in {ConflictResolved(r), <<"commit_created", n>>, done}
      BY <2>1
    <3> HIDE DEF done
    <3> QED BY <2>2, <2>3, <2>6, <3>1
  <2>8. /\ {row_ \in written : row_[1] = "branch_created"} = {}
        /\ {row_ \in written : row_[1] = "merge_created"} = {}
    <3>1. \A t : t \in written <=> t \in {ConflictResolved(r), <<"commit_created", n>>, done}
      BY <2>1
    <3> HIDE DEF done
    <3> QED BY <2>2, <2>3, <2>6, <3>1
  <2> QED BY <2>5, <2>7, <2>8
<1>13. events' = events \cup {<<"commit_created", id>> : id \in {n}}
                        \cup {<<"merge_created", m>> : m \in {}}
                        \cup {<<"conflict_detected", m>> : m \in {j \in {} : Conflicting(j)'}}
  BY <1>4
<1>14. audit' = audit \cup written /\ branches' = branches \cup {}
  BY <1>4
<1>15. {} \cap MergeIds = {} /\ MergeIds' = MergeIds \cup {}
  BY <1>6
<1> HIDE DEF written
<1> QED BY <1>5, <1>7, <1>11, <1>12, <1>13, <1>14, <1>15, TrailStep

\* Every step leaves the trail complete.
LEMMA NextTrail == IInv /\ IInv' /\ TrailComplete /\ [Next]_vars => TrailComplete'
<1> SUFFICES ASSUME IInv, IInv', TrailComplete, [Next]_vars
             PROVE  TrailComplete'
  OBVIOUS
<1>1. CASE UNCHANGED rows
  BY <1>1, TrailKept
<1>2. CASE ~ UNCHANGED rows
  <2>1. PICK c \in Client :
          \/ \E b \in Branch, from \in CommitIds \cup {0} : CreateBranch(c, b, from)
          \/ EndCommit(c)
          \/ EndCleanMerge(c)
          \/ EndConflictingMerge(c)
          \/ EndResolve(c)
          \/ EndFinalize(c)
    BY <1>2 DEF Next, vars, BeginCommit, BeginCommitOnto, BeginMerge, BeginResolve, Begin,
                ReadSource, ListConflicts, Abort
  <2>2. CASE \E b \in Branch, from \in CommitIds \cup {0} : CreateBranch(c, b, from)
    BY <2>2, TrailCreateBranch
  <2>3. CASE EndCommit(c)
    BY <2>3, TrailEndCommit
  <2>4. CASE EndCleanMerge(c)
    BY <2>4, TrailEndCleanMerge
  <2>5. CASE EndConflictingMerge(c)
    BY <2>5, TrailEndConflictingMerge
  <2>6. CASE EndResolve(c)
    BY <2>6, TrailEndResolve
  <2>7. CASE EndFinalize(c)
    BY <2>7, TrailEndFinalize
  <2> QED BY <2>1, <2>2, <2>3, <2>4, <2>5, <2>6, <2>7
<1> QED BY <1>1, <1>2

\* An empty database has an empty trail.
LEMMA InitTrail == Init => TrailComplete
    BY DEF Init, TrailComplete, AuditOf, CommitIds, MergeIds

--------------------------------------------------------------------------------
(* Requests that do not overlap *)

\* The empty tables satisfy SerialInv.
LEMMA InitSerial == Init => SerialInv
    BY DEF Init, SerialInv, BranchesExist, OpenIsUnresolved, OneCompletionRow, Fresh,
           MergeIds, AuditOf, Idle

\* A request that reads while no other one is in flight is fresh if what it has
\* read by now is.
LEMMA SerialRead ==
    ASSUME IInv, SerialInv, OneAtATime',
           NEW c \in Client, NEW r, r # Idle, UNCHANGED rows,
           req' = [req EXCEPT ![c] = r], Fresh(r)
    PROVE  SerialInv'
<1>1. ASSUME NEW d \in Client
      PROVE  Fresh(req[d])'
  <2>1. req \in [Client -> Request]
    BY DEF IInv, TypeOK
  <2>2. CASE d = c
    <3>1. req'[d] = r
      BY <2>1, <2>2
    <3> QED BY <3>1 DEF Fresh, rows
  <2>3. CASE d # c
    <3>1. req'[d] = Idle
      BY <2>1, <2>3 DEF OneAtATime
    <3> QED BY <3>1 DEF Fresh, Idle
  <2> QED BY <2>2, <2>3
<1>2. BranchesExist' /\ OpenIsUnresolved' /\ OneCompletionRow'
  BY DEF rows, SerialInv, BranchesExist, OpenIsUnresolved, OneCompletionRow, MergeIds, AuditOf
<1> QED BY <1>1, <1>2 DEF SerialInv

\* When the only request in flight ends, no request is left to be stale.
LEMMA SerialEnd ==
    ASSUME IInv, OneAtATime, NEW c \in Client, req[c] # Idle, Finish(c)
    PROVE  \A d \in Client : Fresh(req[d])'
<1>1. ASSUME NEW d \in Client
      PROVE  Fresh(req[d])'
  <2>1. req'[d] = Idle
    BY DEF Finish, OneAtATime, IInv, TypeOK
  <2> QED BY <2>1 DEF Fresh, Idle
<1> QED BY <1>1

\* A new branch is not the one any request in flight is about.
LEMMA SerialCreateBranch ==
    ASSUME IInv, SerialInv, NEW c \in Client, NEW b \in Branch,
           NEW from \in CommitIds \cup {0}, CreateBranch(c, b, from)
    PROVE  SerialInv'
<1>1. /\ commits' = commits /\ merges' = merges /\ conflicts' = conflicts /\ req' = req
      /\ branches' = branches \cup {b}
      /\ b \notin branches
      /\ audit' = audit \cup {<<"branch_created", b>>}
      /\ \A d \in Branch : head'[d] = IF d = b THEN from ELSE head[d]
  BY DEF CreateBranch, IInv, TypeOK
<1>2. BranchesExist' /\ OpenIsUnresolved'
  BY <1>1 DEF SerialInv, BranchesExist, OpenIsUnresolved, MergeIds
<1>3. OneCompletionRow'
  BY <1>1 DEF SerialInv, OneCompletionRow, AuditOf
<1>4. ASSUME NEW d \in Client
      PROVE  Fresh(req[d])'
  <2>1. PICK r \in Request : r = req[d]
    BY DEF IInv, TypeOK
  <2>2. Fresh(r)
    BY <2>1 DEF SerialInv
  <2>3. branches \subseteq Branch
    BY DEF IInv, TypeOK
  <2>4. \A e \in branches : head'[e] = head[e] /\ e \in branches'
    BY <1>1, <2>3
  <2>5. Fresh(r)'
    BY <1>1, <2>2, <2>4 DEF Fresh
  <2> QED BY <1>1, <2>1, <2>5
<1> QED BY <1>2, <1>3, <1>4 DEF SerialInv

\* What a request reads first is fresh.
LEMMA SerialBegin ==
    ASSUME IInv, IInv', SerialInv, OneAtATime', NEW c \in Client,
           \/ \E b \in Branch, tree \in Payload : BeginCommit(c, b, tree)
           \/ \E b \in Branch, tree \in Payload, parents \in ExplicitParents :
                  BeginCommitOnto(c, b, parents, tree)
           \/ \E target, source \in Branch : BeginMerge(c, target, source)
           \/ \E m \in MergeIds, p \in Path, resolution \in Offered :
                  BeginResolve(c, m, p, resolution)
    PROVE  SerialInv'
<1>1. ASSUME NEW r, Begin(c, r), r # Idle, Fresh(r)
      PROVE  SerialInv'
  BY <1>1, SerialRead DEF Begin
<1>2. ASSUME NEW b \in Branch, NEW tree \in Payload, BeginCommit(c, b, tree)
      PROVE  SerialInv'
  <2> DEFINE r == [op |-> "commit", branch |-> b, explicit |-> FALSE, tree |-> tree,
                   parents |-> IF head[b] = 0 THEN <<>> ELSE <<head[b]>>]
  <2>1. Begin(c, r) /\ b \in branches
    BY <1>2 DEF BeginCommit
  <2>2. r # Idle /\ Fresh(r)
    BY <2>1 DEF Fresh, Idle
  <2> HIDE DEF r
  <2> QED BY <1>1, <2>1, <2>2
<1>3. ASSUME NEW b \in Branch, NEW tree \in Payload, NEW parents \in ExplicitParents,
             BeginCommitOnto(c, b, parents, tree)
      PROVE  SerialInv'
  <2> DEFINE r == [op |-> "commit", branch |-> b, explicit |-> TRUE, tree |-> tree,
                   parents |-> parents]
  <2>1. Begin(c, r) /\ b \in branches
    BY <1>3 DEF BeginCommitOnto
  <2>2. r # Idle /\ Fresh(r)
    BY <2>1 DEF Fresh, Idle
  <2> HIDE DEF r
  <2> QED BY <1>1, <2>1, <2>2
<1>4. ASSUME NEW target \in Branch, NEW source \in Branch, BeginMerge(c, target, source)
      PROVE  SerialInv'
  <2> DEFINE r == [op |-> "target_read", target |-> target, source |-> source,
                   ours |-> head[target]]
  <2>1. Begin(c, r) /\ target \in branches
    BY <1>4 DEF BeginMerge
  <2>2. r # Idle /\ Fresh(r)
    BY <2>1 DEF Fresh, Idle
  <2> HIDE DEF r
  <2> QED BY <1>1, <2>1, <2>2
<1>5. ASSUME NEW m \in MergeIds, NEW p \in Path, NEW resolution \in Offered,
             BeginResolve(c, m, p, resolution)
      PROVE  SerialInv'
  <2> DEFINE r == [op |-> "resolve", merge |-> m, path |-> p, resolution |-> resolution,
                   loaded |-> conflicts[m][p], open |-> merges[m].status = "conflicts"]
  <2>1. Begin(c, r)
    BY <1>5 DEF BeginResolve
  <2>2. r # Idle /\ Fresh(r)
    BY DEF Fresh, Idle
  <2> HIDE DEF r
  <2> QED BY <1>1, <2>1, <2>2
<1> QED BY <1>2, <1>3, <1>4, <1>5

\* The head of the target has not moved when the source is read.
LEMMA SerialReadSource ==
    ASSUME IInv, IInv', SerialInv, OneAtATime', NEW c \in Client, ReadSource(c)
    PROVE  SerialInv'
<1> DEFINE q == req[c]
           r == [op |-> "merge", target |-> q.target, source |-> q.source, ours |-> q.ours,
                 theirs |-> IF q.source = q.target THEN q.ours ELSE head[q.source]]
<1>1. Fresh(q)
  BY DEF SerialInv
<1>2. req' = [req EXCEPT ![c] = r] /\ UNCHANGED rows /\ q.op = "target_read"
  BY DEF ReadSource
<1>3. r # Idle /\ Fresh(r)
  BY <1>1, <1>2 DEF Fresh, Idle
<1> HIDE DEF r
<1> QED BY <1>2, <1>3, SerialRead

\* No row has changed since the request loaded its own.
LEMMA SerialListConflicts ==
    ASSUME IInv, IInv', SerialInv, OneAtATime', NEW c \in Client, ListConflicts(c)
    PROVE  SerialInv'
<1> DEFINE q == req[c]
           r == [op |-> "listed", merge |-> q.merge, path |-> q.path,
                 resolution |-> q.resolution, loaded |-> q.loaded,
                 view |-> [conflicts[q.merge] EXCEPT ![q.path] = q.resolution]]
<1>1. Fresh(q)
  BY DEF SerialInv
<1>2. req' = [req EXCEPT ![c] = r] /\ UNCHANGED rows /\ q.op = "resolve" /\ q.open
  BY DEF ListConflicts
<1>3. r # Idle /\ Fresh(r)
  BY <1>1, <1>2 DEF Fresh, Idle
<1> HIDE DEF r
<1> QED BY <1>2, <1>3, SerialRead

\* A request that is rolled back leaves nothing.
LEMMA SerialAbort ==
    ASSUME IInv, SerialInv, OneAtATime, NEW c \in Client, Abort(c)
    PROVE  SerialInv'
<1>1. \A d \in Client : Fresh(req[d])'
  BY SerialEnd DEF Abort
<1>2. BranchesExist' /\ OpenIsUnresolved' /\ OneCompletionRow'
  BY DEF Abort, rows, SerialInv, BranchesExist, OpenIsUnresolved, OneCompletionRow,
         MergeIds, AuditOf
<1> QED BY <1>1, <1>2 DEF SerialInv

\* A commit moves the head of an existing branch.
LEMMA SerialEndCommit ==
    ASSUME IInv, SerialInv, OneAtATime, NEW c \in Client, EndCommit(c)
    PROVE  SerialInv'
<1>1. req[c].op = "commit" /\ Fresh(req[c])
  BY DEF EndCommit, SerialInv
<1>2. \A d \in Client : Fresh(req[d])'
  BY <1>1, SerialEnd DEF EndCommit, Idle
<1>3. PICK b : b = req[c].branch /\ b \in branches
  BY <1>1 DEF Fresh
<1>4. /\ branches' = branches /\ merges' = merges /\ conflicts' = conflicts
      /\ audit' = audit \cup {CommitCreated}
      /\ \A d \in Branch \ branches : head'[d] = head[d]
  BY <1>3 DEF EndCommit, WriteCommit, IInv, TypeOK
<1>5. BranchesExist' /\ OpenIsUnresolved'
  BY <1>4 DEF SerialInv, BranchesExist, OpenIsUnresolved, MergeIds
<1>6. OneCompletionRow'
  BY <1>4 DEF SerialInv, OneCompletionRow, AuditOf, CommitCreated
<1> QED BY <1>2, <1>5, <1>6 DEF SerialInv

\* A clean merge is not open.
LEMMA SerialEndCleanMerge ==
    ASSUME IInv, SerialInv, OneAtATime, NEW c \in Client, EndCleanMerge(c)
    PROVE  SerialInv'
<1>1. PICK r \in MergeRequest : r = req[c] /\ r.op = "merge" /\ Fresh(r)
  BY RequestKinds DEF EndCleanMerge, IInv, TypeOK, SerialInv
<1>2. \A d \in Client : Fresh(req[d])'
  BY <1>1, SerialEnd DEF EndCleanMerge, Idle
<1>3. r.target \in branches
  BY <1>1 DEF Fresh
<1>4. /\ branches' = branches
      /\ audit' = audit \cup {MergeCreated, CommitCreated}
      /\ \A d \in Branch \ branches : head'[d] = head[d]
  BY <1>1, <1>3 DEF EndCleanMerge, WriteCommit, IInv, TypeOK
<1>5. PICK n \in Nat : n = Len(commits) + 1
  BY DEF IInv, TypeOK
<1>6. PICK k \in Nat : k = Len(merges) + 1
  BY DEF IInv, TypeOK
<1>7. /\ MergeIds' = MergeIds \cup {k}
      /\ \A m \in MergeIds : merges'[m] = merges[m] /\ conflicts'[m] = conflicts[m]
      /\ merges'[k].target = r.target /\ merges'[k].status = "merged"
  <2>1. WriteMerge(r, "merged", n)
    BY <1>1, <1>5 DEF EndCleanMerge
  <2>2. /\ MergeIds' = MergeIds \cup {k}
        /\ \A m \in MergeIds : merges'[m] = merges[m] /\ conflicts'[m] = conflicts[m]
        /\ merges'[k] = [target |-> r.target, source |-> r.source, ours |-> r.ours,
                         theirs |-> r.theirs, status |-> "merged", result |-> n]
    BY <1>6, <2>1, MergeNumbered
  <2> QED BY <2>2
<1>8. BranchesExist' /\ OpenIsUnresolved'
  BY <1>3, <1>4, <1>7 DEF SerialInv, BranchesExist, OpenIsUnresolved
<1>9. OneCompletionRow'
  BY <1>4 DEF SerialInv, OneCompletionRow, AuditOf, MergeCreated, CommitCreated
<1> QED BY <1>2, <1>8, <1>9 DEF SerialInv

\* An open merge begins with all its conflicts unresolved.
LEMMA SerialEndConflictingMerge ==
    ASSUME IInv, SerialInv, OneAtATime, NEW c \in Client, EndConflictingMerge(c)
    PROVE  SerialInv'
<1>1. PICK r \in MergeRequest : r = req[c] /\ r.op = "merge" /\ Fresh(r)
  BY RequestKinds DEF EndConflictingMerge, IInv, TypeOK, SerialInv
<1>2. \A d \in Client : Fresh(req[d])'
  BY <1>1, SerialEnd DEF EndConflictingMerge, Idle
<1>3. r.target \in branches
  BY <1>1 DEF Fresh
<1>4. /\ branches' = branches /\ head' = head
      /\ audit' = audit \cup {MergeCreated}
      /\ ConflictPaths(r.ours, r.theirs) # {}
  BY <1>1 DEF EndConflictingMerge
<1>6. PICK k \in Nat : k = Len(merges) + 1
  BY DEF IInv, TypeOK
<1>7. /\ MergeIds' = MergeIds \cup {k}
      /\ \A m \in MergeIds : merges'[m] = merges[m] /\ conflicts'[m] = conflicts[m]
      /\ merges'[k].target = r.target
      /\ \A p \in ConflictPaths(r.ours, r.theirs) : p \in Path /\ conflicts'[k][p] = "unresolved"
  <2>1. WriteMerge(r, "conflicts", 0)
    BY <1>1 DEF EndConflictingMerge
  <2>2. /\ MergeIds' = MergeIds \cup {k}
        /\ \A m \in MergeIds : merges'[m] = merges[m] /\ conflicts'[m] = conflicts[m]
        /\ merges'[k] = [target |-> r.target, source |-> r.source, ours |-> r.ours,
                         theirs |-> r.theirs, status |-> "conflicts", result |-> 0]
        /\ conflicts'[k] = [p \in Path |-> IF p \in ConflictPaths(r.ours, r.theirs)
                                             THEN "unresolved" ELSE "none"]
    BY <1>6, <2>1, MergeNumbered
  <2>3. \A p \in ConflictPaths(r.ours, r.theirs) : p \in Path
    BY DEF ConflictPaths
  <2> QED BY <2>2, <2>3
<1>8. BranchesExist' /\ OpenIsUnresolved'
  BY <1>3, <1>4, <1>7 DEF SerialInv, BranchesExist, OpenIsUnresolved
<1>9. OneCompletionRow'
  BY <1>4 DEF SerialInv, OneCompletionRow, AuditOf, MergeCreated
<1> QED BY <1>2, <1>8, <1>9 DEF SerialInv

\* A resolution that is not the last one leaves a conflict unresolved; one of a
\* finished merge opens nothing.
LEMMA SerialEndResolve ==
    ASSUME IInv, SerialInv, OneAtATime, NEW c \in Client, EndResolve(c)
    PROVE  SerialInv'
<1>1. PICK r \in ResolveRequest \cup ConflictsListed :
         r = req[c] /\ r.op \in {"resolve", "listed"} /\ Fresh(r) /\ RequestValid(r)
  BY RequestKinds DEF EndResolve, IInv, TypeOK, SerialInv
<1>2. \A d \in Client : Fresh(req[d])'
  BY <1>1, SerialEnd DEF EndResolve, Idle
<1>3. /\ branches' = branches /\ head' = head /\ merges' = merges
      /\ audit' = audit \cup {ConflictResolved(r)}
      /\ WriteResolution(r)
      /\ \/ r.op = "resolve" /\ ~r.open
         \/ r.op = "listed" /\ \E p \in Path : r.view[p] = "unresolved"
  BY <1>1 DEF EndResolve
<1>4. BranchesExist'
  BY <1>3 DEF SerialInv, BranchesExist, MergeIds
<1>5. OneCompletionRow'
  BY <1>3 DEF SerialInv, OneCompletionRow, AuditOf, ConflictResolved
<1>6. PICK k \in MergeIds : k = r.merge
  BY <1>1 DEF RequestValid
<1> DEFINE new == [conflicts[k] EXCEPT ![r.path] = r.resolution]
<1>7. /\ conflicts'[k] = new
      /\ \A m \in MergeIds \ {k} : conflicts'[m] = conflicts[m]
  <2>1. conflicts \in Seq([Path -> ConflictState]) /\ MergeIds = 1 .. Len(conflicts)
    BY DEF IInv, TypeOK, ConflictRowsExact, MergeIds
  <2>2. r.loaded = conflicts[k][r.path]
    BY <1>1, <1>6 DEF Fresh
  <2>3. conflicts' = [conflicts EXCEPT ![k] = new]
    BY <1>3, <1>6, <2>2 DEF WriteResolution
  <2> HIDE DEF new
  <2> QED BY <2>1, <2>3
<1>8. CASE r.op = "resolve" /\ ~r.open
  <2>1. merges[k].status # "conflicts"
    BY <1>1, <1>6, <1>8 DEF Fresh
  <2> HIDE DEF new
  <2>2. OpenIsUnresolved'
    BY <1>3, <1>7, <2>1 DEF SerialInv, OpenIsUnresolved, MergeIds
  <2> QED BY <1>2, <1>4, <1>5, <2>2 DEF SerialInv
<1>9. CASE r.op = "listed" /\ \E p \in Path : r.view[p] = "unresolved"
  <2>1. r.view = new
    BY <1>1, <1>6, <1>9 DEF Fresh
  <2> HIDE DEF new
  <2>2. OpenIsUnresolved'
    BY <1>3, <1>7, <1>9, <2>1 DEF SerialInv, OpenIsUnresolved, MergeIds
  <2> QED BY <1>2, <1>4, <1>5, <2>2 DEF SerialInv
<1> QED BY <1>3, <1>8, <1>9

\* The finalization of merge k, row m, by request r, with commit n.
FinalizedBy(r, k, n, m) ==
    /\ r.op = "listed" /\ k = r.merge /\ n = Len(commits) + 1
    /\ m = merges[k] /\ m.status = "conflicts"
    /\ MergeIds' = MergeIds
    /\ \A j \in MergeIds \ {k} : merges'[j] = merges[j] /\ conflicts'[j] = conflicts[j]
    /\ merges'[k] = [m EXCEPT !.status = "merged", !.result = n]
    /\ conflicts'[k] = r.view
    /\ WriteCommit(m.target, MergeParents(m.ours, m.theirs),
                   MergedTree(m.ours, m.theirs, r.view))
    /\ branches' = branches
    /\ audit' = audit \cup {ConflictResolved(r), <<"commit_created", n>>,
                            <<"merge_completed", k, n>>}

\* What finalization does to the merge it finalizes, and to no other.
LEMMA FinalizeEffect ==
    ASSUME IInv, SerialInv, NEW c \in Client, EndFinalize(c)
    PROVE  \E r \in ConflictsListed, k \in MergeIds, n \in Nat, m \in MergeRow :
             r = req[c] /\ FinalizedBy(r, k, n, m)
<1>1. PICK r \in ConflictsListed : r = req[c] /\ r.op = "listed" /\ Fresh(r) /\ RequestValid(r)
  BY RequestKinds DEF EndFinalize, IInv, TypeOK, SerialInv
<1>2. PICK k \in MergeIds : k = r.merge
  BY <1>1 DEF RequestValid
<1>3. PICK n \in Nat : n = Len(commits) + 1
  BY DEF IInv, TypeOK
<1>4. PICK m \in MergeRow : m = merges[k]
  BY DEF IInv, TypeOK, MergeIds
<1> DEFINE row == [m EXCEPT !.status = "merged", !.result = n]
<1>5. /\ m.status = "conflicts"
      /\ r.view = [conflicts[k] EXCEPT ![r.path] = r.resolution]
      /\ r.loaded = conflicts[k][r.path]
  BY <1>1, <1>2, <1>4 DEF Fresh
<1>6. /\ WriteResolution(r)
      /\ WriteCommit(m.target, MergeParents(m.ours, m.theirs),
                     MergedTree(m.ours, m.theirs, r.view))
      /\ merges' = [merges EXCEPT ![k] = row]
      /\ branches' = branches
      /\ audit' = audit \cup {ConflictResolved(r), <<"commit_created", n>>,
                              <<"merge_completed", k, n>>}
  BY <1>1, <1>2, <1>3, <1>4 DEF EndFinalize, CommitCreated
<1>7. /\ conflicts'[k] = r.view
      /\ \A j \in MergeIds \ {k} : conflicts'[j] = conflicts[j]
  <2>1. conflicts \in Seq([Path -> ConflictState]) /\ MergeIds = 1 .. Len(conflicts)
    BY DEF IInv, TypeOK, ConflictRowsExact, MergeIds
  <2>2. conflicts' = [conflicts EXCEPT ![k] = r.view]
    BY <1>2, <1>5, <1>6 DEF WriteResolution
  <2> QED BY <2>1, <2>2
<1>8. /\ MergeIds' = MergeIds /\ merges'[k] = row
      /\ \A j \in MergeIds \ {k} : merges'[j] = merges[j]
  <2>1. row \in MergeRow
    BY DEF MergeRow
  <2>2. merges \in Seq(MergeRow)
    BY DEF IInv, TypeOK
  <2> HIDE DEF row
  <2> QED BY <1>6, <2>1, <2>2 DEF MergeIds
<1> HIDE DEF row
<1> WITNESS r \in ConflictsListed, k \in MergeIds, n \in Nat, m \in MergeRow
<1> QED BY <1>1, <1>2, <1>3, <1>4, <1>5, <1>6, <1>7, <1>8 DEF row, FinalizedBy

\* A merge is finalized when it has not been before.
LEMMA SerialEndFinalize ==
    ASSUME IInv, SerialInv, TrailComplete, OneAtATime, NEW c \in Client, EndFinalize(c)
    PROVE  SerialInv'
<1>1. PICK r \in ConflictsListed, k \in MergeIds, n \in Nat, m \in MergeRow :
         r = req[c] /\ FinalizedBy(r, k, n, m)
  BY FinalizeEffect
<1>2. \A d \in Client : Fresh(req[d])'
  BY <1>1, SerialEnd DEF EndFinalize, FinalizedBy, Idle
<1>3. m.target \in branches
  BY <1>1 DEF SerialInv, BranchesExist, FinalizedBy
<1>4. \A d \in Branch \ branches : head'[d] = head[d]
  BY <1>1, <1>3 DEF FinalizedBy, WriteCommit, IInv, TypeOK
<1>5. merges'[k].status = "merged" /\ merges'[k].target = m.target
  BY <1>1 DEF FinalizedBy, MergeRow
<1>6. BranchesExist' /\ OpenIsUnresolved'
  <2>1. /\ MergeIds' = MergeIds /\ branches' = branches
        /\ \A j \in MergeIds : \/ merges'[j] = merges[j] /\ conflicts'[j] = conflicts[j]
                               \/ merges'[j].status = "merged" /\ merges'[j].target = m.target
    BY <1>1, <1>5 DEF FinalizedBy
  <2>2. BranchesExist'
    BY <1>3, <1>4, <2>1 DEF SerialInv, BranchesExist
  <2>3. OpenIsUnresolved'
    BY <2>1 DEF SerialInv, OpenIsUnresolved
  <2> QED BY <2>2, <2>3
<1>7. OneCompletionRow'
  <2> DEFINE done == <<"merge_completed", k, n>>
  <2>1. AuditOf("merge_completed")' = AuditOf("merge_completed") \cup {done}
    <3>1. /\ ConflictResolved(r)[1] = "conflict_resolved"
          /\ <<"commit_created", n>>[1] = "commit_created"
      BY DEF ConflictResolved
    <3>2. done[1] = "merge_completed"
      OBVIOUS
    <3>3. audit' = audit \cup {ConflictResolved(r), <<"commit_created", n>>, done}
      BY <1>1 DEF FinalizedBy
    <3> HIDE DEF done
    <3> QED BY <3>1, <3>2, <3>3 DEF AuditOf
  <2>2. \A s \in AuditOf("merge_completed") : s[2] # k
    <3>1. {row[2] : row \in AuditOf("merge_completed")} = Completed
      BY DEF TrailComplete, Completed
    <3>2. k \notin Completed
      BY <1>1 DEF FinalizedBy, Completed
    <3> QED BY <3>1, <3>2
  <2>3. done[2] = k
    OBVIOUS
  <2> HIDE DEF done
  <2> QED BY <2>1, <2>2, <2>3 DEF SerialInv, OneCompletionRow
<1> QED BY <1>2, <1>6, <1>7 DEF SerialInv

\* Every step of requests that do not overlap keeps SerialInv.
LEMMA NextSerial ==
    /\ IInv /\ IInv' /\ TrailComplete /\ OneAtATime /\ OneAtATime'
    /\ SerialInv /\ [Next]_vars
    => SerialInv'
<1> SUFFICES ASSUME IInv, IInv', TrailComplete, OneAtATime, OneAtATime',
                    SerialInv, [Next]_vars
             PROVE  SerialInv'
  OBVIOUS
<1>1. CASE UNCHANGED vars
  BY <1>1 DEF vars, rows, SerialInv, BranchesExist, OpenIsUnresolved, OneCompletionRow,
              Fresh, MergeIds, AuditOf
<1>2. CASE Next
  <2>1. PICK c \in Client :
          \/ \E b \in Branch, from \in CommitIds \cup {0} : CreateBranch(c, b, from)
          \/ \/ \E b \in Branch, tree \in Payload : BeginCommit(c, b, tree)
             \/ \E b \in Branch, tree \in Payload, parents \in ExplicitParents :
                    BeginCommitOnto(c, b, parents, tree)
             \/ \E target, source \in Branch : BeginMerge(c, target, source)
             \/ \E m \in MergeIds, p \in Path, resolution \in Offered :
                    BeginResolve(c, m, p, resolution)
          \/ ReadSource(c)
          \/ ListConflicts(c)
          \/ Abort(c)
          \/ EndCommit(c)
          \/ EndCleanMerge(c)
          \/ EndConflictingMerge(c)
          \/ EndResolve(c)
          \/ EndFinalize(c)
    BY <1>2 DEF Next
  <2>2. CASE \E b \in Branch, from \in CommitIds \cup {0} : CreateBranch(c, b, from)
    BY <2>2, SerialCreateBranch
  <2>3. CASE \/ \E b \in Branch, tree \in Payload : BeginCommit(c, b, tree)
             \/ \E b \in Branch, tree \in Payload, parents \in ExplicitParents :
                    BeginCommitOnto(c, b, parents, tree)
             \/ \E target, source \in Branch : BeginMerge(c, target, source)
             \/ \E m \in MergeIds, p \in Path, resolution \in Offered :
                    BeginResolve(c, m, p, resolution)
    BY <2>3, SerialBegin
  <2>4. CASE ReadSource(c)
    BY <2>4, SerialReadSource
  <2>5. CASE ListConflicts(c)
    BY <2>5, SerialListConflicts
  <2>6. CASE Abort(c)
    BY <2>6, SerialAbort
  <2>7. CASE EndCommit(c)
    BY <2>7, SerialEndCommit
  <2>8. CASE EndCleanMerge(c)
    BY <2>8, SerialEndCleanMerge
  <2>9. CASE EndConflictingMerge(c)
    BY <2>9, SerialEndConflictingMerge
  <2>10. CASE EndResolve(c)
    BY <2>10, SerialEndResolve
  <2>11. CASE EndFinalize(c)
    BY <2>11, SerialEndFinalize
  <2> QED BY <2>1, <2>2, <2>3, <2>4, <2>5, <2>6, <2>7, <2>8, <2>9, <2>10, <2>11
<1> QED BY <1>1, <1>2

\* The value a finalization commits on a conflicting path is the one its row selects.
LEMMA FinalizationStep ==
    ASSUME IInv, IInv', SerialInv, [Next]_vars,
           NEW k \in MergeIds, merges[k].status = "conflicts", merges'[k].status = "merged",
           NEW p \in ConflictPaths(merges[k].ours, merges[k].theirs)
    PROVE  RowHonoured(k, p)'
<1>1. merges'[k] # merges[k]
  OBVIOUS
<1>2. PICK c \in Client : EndFinalize(c)
  <2>1. merges' # merges
    BY <1>1
  <2>2. ASSUME NEW c \in Client, EndCleanMerge(c) PROVE FALSE
    <3>1. PICK r \in MergeRequest : r = req[c]
      BY <2>2, RequestKinds DEF EndCleanMerge, IInv, TypeOK
    <3>2. PICK n \in Nat : n = Len(commits) + 1
      BY DEF IInv, TypeOK
    <3>3. WriteMerge(r, "merged", n)
      BY <2>2, <3>1, <3>2 DEF EndCleanMerge
    <3> QED BY <1>1, <3>3, MergeNumbered
  <2>3. ASSUME NEW c \in Client, EndConflictingMerge(c) PROVE FALSE
    <3>1. PICK r \in MergeRequest : r = req[c]
      BY <2>3, RequestKinds DEF EndConflictingMerge, IInv, TypeOK
    <3>2. WriteMerge(r, "conflicts", 0)
      BY <2>3, <3>1 DEF EndConflictingMerge
    <3> QED BY <1>1, <3>2, MergeNumbered
  <2> QED BY <2>1, <2>2, <2>3 DEF Next, vars, rows, CreateBranch, BeginCommit, BeginCommitOnto,
             BeginMerge, BeginResolve, Begin, ReadSource, ListConflicts, Abort,
             EndCommit, EndResolve
<1>3. PICK r \in ConflictsListed, j \in MergeIds, n \in Nat, m \in MergeRow :
         r = req[c] /\ FinalizedBy(r, j, n, m)
  BY <1>2, FinalizeEffect
<1>4. j = k
  BY <1>1, <1>3 DEF FinalizedBy
<1>5. merges'[k].result = n
  BY <1>3, <1>4 DEF FinalizedBy, MergeRow
<1>6. \E parents : commits'[n] = CommitOf(m.target, parents,
                                          MergedTree(m.ours, m.theirs, r.view))
  <2> DEFINE row(parents) == CommitOf(m.target, parents, MergedTree(m.ours, m.theirs, r.view))
  <2>1. PICK parents : commits' = Append(commits, row(parents))
    BY <1>3 DEF FinalizedBy, WriteCommit
  <2>2. n = Len(commits) + 1
    BY <1>3 DEF FinalizedBy
  <2> HIDE DEF row
  <2>3. commits'[n] = row(parents)
    BY <2>1, <2>2, CommitNumbered
  <2> QED BY <2>3 DEF row
<1>7. p \in Path
  BY DEF ConflictPaths
<1>8. p \in ConflictPaths(m.ours, m.theirs)
  BY <1>3, <1>4 DEF FinalizedBy
<1>9. MergedTree(m.ours, m.theirs, r.view)[p] = ResolvedValue(r.view[p], m.ours, m.theirs, p)
  BY <1>7, <1>8 DEF MergedTree
<1>10. /\ merges'[k].ours = m.ours /\ merges'[k].theirs = m.theirs
       /\ conflicts'[k] = r.view
  BY <1>3, <1>4 DEF FinalizedBy, MergeRow
<1>11. TreeOf(m.ours)' = TreeOf(m.ours) /\ TreeOf(m.theirs)' = TreeOf(m.theirs)
  <2>1. CommitsKept
    BY <1>3, CommitNumbered DEF FinalizedBy, WriteCommit
  <2>2. m = merges[k]
    BY <1>3, <1>4 DEF FinalizedBy
  <2> QED BY <2>1, <2>2, HeadsAreCommits DEF CommitsKept, TreeOf, IInv
<1> DEFINE V == ResolvedValue(r.view[p], m.ours, m.theirs, p)
<1>12. /\ commits'[n].tree[p] = Stored(V)
       /\ V \in Refused => commits'[n].warned
  <2> HIDE DEF V
  <2> QED BY <1>6, <1>7, <1>9 DEF CommitOf, V
<1>13. ResolvedValue(conflicts[k][p], merges[k].ours, merges[k].theirs, p)' = V
  BY <1>10, <1>11 DEF ResolvedValue
<1> QED BY <1>5, <1>12, <1>13 DEF RowHonoured, Stored

\* A merge commit descends from the head it was merged onto.
LEMMA LeftBehindStep ==
    ASSUME IInv, IInv', SerialInv, [Next]_vars, NEW b \in Branch, LeftBehind(b)
    PROVE  \E c \in Client :
              \/ req[c].op = "commit" /\ req[c].explicit
              \/ req[c].op = "listed" /\ merges[req[c].merge].ours # head[b]
<1>0. PICK n \in Nat : n = Len(commits) + 1
  BY DEF IInv, TypeOK
<1>1. head[b] # 0 /\ head'[b] # head[b] /\ head[b] \in Nat
      /\ head[b] \notin Range(commits'[head'[b]].parents)
  BY DEF LeftBehind, IInv, TypeOK
<1>2. ASSUME NEW d \in Branch, NEW parents, NEW sent, WriteCommit(d, parents, sent)
      PROVE  b = d /\ head[b] \notin Range(parents)
  <2>1. b = d /\ head'[b] = n
    BY <1>0, <1>1, <1>2 DEF WriteCommit, IInv, TypeOK
  <2>2. PICK row : commits' = Append(commits, row) /\ row.parents = parents
    BY <1>2 DEF WriteCommit, CommitOf
  <2>3. commits'[n].parents = parents
    BY <1>0, <2>2, CommitNumbered
  <2> QED BY <1>1, <2>1, <2>3
<1>3. ASSUME NEW c \in Client, NEW e \in Branch, NEW from \in CommitIds \cup {0},
             CreateBranch(c, e, from)
      PROVE  FALSE
  BY <1>1, <1>3 DEF CreateBranch, SerialInv, BranchesExist, IInv, TypeOK
<1>4. ASSUME NEW c \in Client, EndCommit(c)
      PROVE  req[c].op = "commit" /\ req[c].explicit
  <2>1. PICK r \in CommitRequest : r = req[c] /\ r.op = "commit" /\ Fresh(r)
    BY <1>4, RequestKinds DEF EndCommit, IInv, TypeOK, SerialInv
  <2>2. r.branch \in Branch /\ r.explicit \in BOOLEAN
    BY <2>1 DEF CommitRequest
  <2>3. b = r.branch /\ head[b] \notin Range(r.parents)
    BY <1>2, <1>4, <2>1, <2>2 DEF EndCommit
  <2>4. CASE ~r.explicit
    <3>1. r.parents = <<head[b]>>
      BY <1>1, <2>1, <2>3, <2>4 DEF Fresh
    <3>2. 1 \in DOMAIN r.parents /\ r.parents[1] = head[b]
      BY <3>1
    <3> QED BY <2>3, <3>2 DEF Range
  <2> QED BY <2>1, <2>2, <2>4
<1>5. ASSUME NEW c \in Client, EndCleanMerge(c)
      PROVE  FALSE
  <2>1. PICK r \in MergeRequest : r = req[c] /\ r.op = "merge" /\ Fresh(r)
    BY <1>5, RequestKinds DEF EndCleanMerge, IInv, TypeOK, SerialInv
  <2>2. r.target \in Branch /\ r.ours \in Nat /\ r.theirs \in Nat
    BY <2>1 DEF MergeRequest
  <2>3. b = r.target /\ head[b] \notin Range(MergeParents(r.ours, r.theirs))
    BY <1>2, <1>5, <2>1, <2>2 DEF EndCleanMerge
  <2>4. r.ours = head[b]
    BY <2>1, <2>3 DEF Fresh
  <2>5. Range(MergeParents(r.ours, r.theirs)) = {r.ours, r.theirs} \ {0}
    BY <2>2, MergeParentsRange
  <2> QED BY <1>1, <2>3, <2>4, <2>5
<1>6. ASSUME NEW c \in Client, EndFinalize(c)
      PROVE  req[c].op = "listed" /\ merges[req[c].merge].ours # head[b]
  <2>1. PICK r \in ConflictsListed, j \in MergeIds, i \in Nat, m \in MergeRow :
           r = req[c] /\ FinalizedBy(r, j, i, m)
    BY <1>6, FinalizeEffect
  <2>2. m.target \in Branch /\ m.ours \in Nat /\ m.theirs \in Nat
    BY DEF MergeRow
  <2>3. head[b] \notin Range(MergeParents(m.ours, m.theirs))
    BY <1>2, <2>1, <2>2 DEF FinalizedBy
  <2>4. Range(MergeParents(m.ours, m.theirs)) = {m.ours, m.theirs} \ {0}
    BY <2>2, MergeParentsRange
  <2>5. m.ours # head[b]
    BY <1>1, <2>3, <2>4
  <2> QED BY <2>1, <2>5 DEF FinalizedBy
<1> QED BY <1>1, <1>3, <1>4, <1>5, <1>6
        DEF Next, vars, rows, BeginCommit, BeginCommitOnto, BeginMerge, BeginResolve, Begin,
            ReadSource, ListConflicts, Abort, EndConflictingMerge, EndResolve

--------------------------------------------------------------------------------
(* The theorems *)

\* IInv holds in every reachable state.
THEOREM Invariance == Spec => []IInv
    BY InitIInv, NextIInv, PTL DEF Spec

\* Every variable keeps its type.
THEOREM TypeCorrect == Spec => []TypeOK
<1>1. IInv => TypeOK
  BY DEF IInv
<1> QED BY <1>1, Invariance, PTL

\* Whatever parents, start commits and branches clients name, the commits of a
\* project form a history of their own without cycles.
THEOREM HistoryIsWellFormed == Spec => []HistoryWellFormed
<1>1. IInv => HistoryWellFormed
  BY DEF IInv
<1> QED BY <1>1, Invariance, PTL

\* No merge crosses projects or records a head that does not exist.
THEOREM MergesStayInProject == Spec => []MergeHeadsKnown
<1>1. IInv => MergeHeadsKnown
  BY DEF IInv
<1> QED BY <1>1, Invariance, PTL

\* The conflict rows are exactly the disagreements of the recorded heads.
THEOREM RowsMatchConflicts == Spec => []ConflictRowsExact
<1>1. IInv => ConflictRowsExact
  BY DEF IInv
<1> QED BY <1>1, Invariance, PTL

\* Whichever requests race, the commit a finished merge points to is on the
\* target branch, has the recorded heads as parents and loses no path of either.
THEOREM MergesLoseNothing == Spec => []MergeResultFaithful
<1>1. IInv => MergeResultFaithful
  BY DEF IInv
<1> QED BY <1>1, Invariance, PTL

\* Whichever requests race, fail or die, the audit log and the event log tell of
\* exactly the branches, commits, merges and completions there are.
THEOREM TrailTellsEverything == Spec => []TrailComplete
    BY InitIInv, NextIInv, InitTrail, NextTrail, PTL DEF Spec

\* All three invariants hold when requests do not overlap.
LEMMA SerialInvariance == Spec /\ []OneAtATime => [](IInv /\ TrailComplete /\ SerialInv)
    BY InitIInv, NextIInv, InitTrail, NextTrail, InitSerial, NextSerial, PTL DEF Spec

\* When requests do not overlap, a merge whose conflicts are all resolved is merged.
THEOREM MergesAutoComplete == Spec /\ []OneAtATime => []AutoCompletes
<1>1. IInv /\ SerialInv => AutoCompletes
  <2>1. IInv => \A m \in MergeIds : merges[m].status \in {"conflicts", "merged"}
    <3> SUFFICES ASSUME IInv, NEW m \in MergeIds
                 PROVE  merges[m].status \in {"conflicts", "merged"}
      OBVIOUS
    <3>1. merges[m] \in MergeRow
      BY DEF IInv, TypeOK, MergeIds
    <3> QED BY <3>1 DEF MergeRow
  <2> QED BY <2>1 DEF SerialInv, OpenIsUnresolved, AutoCompletes
<1> QED BY <1>1, SerialInvariance, PTL

\* When requests do not overlap, no merge is finalized twice.
THEOREM MergesFinalizeOnce == Spec /\ []OneAtATime => []FinalizedOnce
<1>1. ASSUME SerialInv
      PROVE  FinalizedOnce
  <2>1. ASSUME NEW m \in MergeIds
        PROVE  Cardinality({row \in AuditOf("merge_completed") : row[2] = m}) <= 1
    <3> DEFINE S == {row \in AuditOf("merge_completed") : row[2] = m}
    <3>1. \A s, t \in S : s = t
      BY <1>1 DEF SerialInv, OneCompletionRow
    <3> SUFFICES Cardinality(S) <= 1
      OBVIOUS
    <3> HIDE DEF S
    <3>2. CASE S = {}
      BY <3>2, FS_EmptySet
    <3>3. CASE S # {}
      <4>1. PICK s : s \in S
        BY <3>3
      <4>2. S = {s}
        BY <3>1, <4>1
      <4>3. Cardinality({s}) = 1
        BY FS_Singleton
      <4> QED BY <4>2, <4>3
    <3> QED BY <3>2, <3>3
  <2> QED BY <2>1 DEF FinalizedOnce
<1> QED BY <1>1, SerialInvariance, PTL

\* When requests do not overlap, the commit that finalizes a merge holds what the
\* conflict rows select.
THEOREM FinalizationsHonourRows == Spec /\ []OneAtATime => FinalizationHonoursRows
<1> DEFINE P == \A m \in MergeIds :
         merges[m].status = "conflicts" /\ merges'[m].status = "merged" =>
             \A p \in ConflictPaths(merges[m].ours, merges[m].theirs) :
                 RowHonoured(m, p)'
<1>1. IInv /\ IInv' /\ SerialInv /\ [Next]_vars => P
  BY FinalizationStep
<1>2. Spec /\ []OneAtATime => [][P]_vars
  <2> HIDE DEF P
  <2> QED BY <1>1, SerialInvariance, PTL DEF Spec
<1> QED BY <1>2 DEF FinalizationHonoursRows

\* When requests do not overlap, a head is left behind only by a client that named
\* the parents, or by the finalization of a merge the target has moved on from.
THEOREM HeadsAreLeftKnowingly == Spec /\ []OneAtATime => HeadsLeftBehindKnowingly
<1> DEFINE P == \A b \in Branch : LeftBehind(b) =>
         \E c \in Client :
            \/ req[c].op = "commit" /\ req[c].explicit
            \/ req[c].op = "listed" /\ merges[req[c].merge].ours # head[b]
<1>1. IInv /\ IInv' /\ SerialInv /\ [Next]_vars => P
  BY LeftBehindStep
<1>2. Spec /\ []OneAtATime => [][P]_vars
  <2> HIDE DEF P
  <2> QED BY <1>1, SerialInvariance, PTL DEF Spec
<1> QED BY <1>2 DEF HeadsLeftBehindKnowingly
================================================================================
