----------------------------- MODULE SceneGraph -----------------------------
(***************************************************************************)
(* The scene graph of one project: nodes, edges and component identities   *)
(* that tools upsert in batches, HNF documents an upload upserts, and the  *)
(* snapshot of the scene a commit may have.                                *)
(* api/app/services/{scene_graph, hnf}.py, api/app/routers/scene.py.       *)
(*                                                                         *)
(* A request is one transaction of PostgreSQL at READ COMMITTED: what is   *)
(* flushed is locked until its end, who needs a locked row waits, and of   *)
(* those who wait in a circle one is made to fail.  The session does not   *)
(* flush before a SELECT, keeps what it first read of a row, and UPDATEs   *)
(* only the columns in which the row differs from that: a row that asks    *)
(* for what was read is not written at all.  Requests of viewers, and of   *)
(* projects that do not exist, are refused before they change anything     *)
(* and left out.                                                           *)
(***************************************************************************)
EXTENDS Naturals, FiniteSets, Sequences

CONSTANTS
  Clients,      \* API processes, each serving one request at a time
  NodeKeys, EdgeKeys, Identities, Documents,  \* unique keys of the four tables
  Columns, Values,  \* the columns a request gives and what they may hold
  NoRow,        \* there is no row
  Batches,      \* the batches clients send: sequences of rows of one table
  Commits,
  Rank,         \* the order of the rows' primary keys, in which a flush updates
  MaxRequests   \* bound on the number of requests

Keys == NodeKeys \cup EdgeKeys \cup Identities \cup Documents
Contents == [Columns -> Values]
Row(k, cols) == [key |-> k, cols |-> cols]

(* A value that is an identity refers to it (a node's identity_id). *)
ASSUME SceneAssumption ==
  /\ Batches \subseteq Seq([key : Keys, cols : Contents]) \ {<<>>}
  /\ NoRow \notin Contents
  /\ Identities \cap (NodeKeys \cup EdgeKeys) = {}
  /\ Rank \in [Keys -> Nat] /\ \A j, k \in Keys : Rank[j] = Rank[k] => j = k
  /\ MaxRequests \in Nat

VARIABLES
  table,    \* the committed rows' columns; NoRow where there is none
  commits,  \* committed commits
  snapshot, \* the snapshot row of each commit: who made it and of what; None
  tree,     \* the snapshot (its maker) commit.tree names; 0 where it names none
  audits,   \* <<commit, snapshot>> pairs in the audit log
  events,   \* sequence of the commits announced as having a snapshot
  session,  \* the transaction of each client
  asked,    \* number of requests so far
  log       \* the upserts that were committed and answered (history)

vars == <<table, commits, snapshot, tree, audits, events, session, asked, log>>
snapVars == <<commits, snapshot, tree, audits, events>>

None == [by |-> 0]
Idle == [pc |-> "idle", held |-> {}]

Init ==
  /\ table = [k \in Keys |-> NoRow]
  /\ commits = {} /\ audits = {} /\ events = <<>> /\ log = <<>>
  /\ snapshot = [c \in Commits |-> None]
  /\ tree = [c \in Commits |-> 0]
  /\ session = [p \in Clients |-> Idle]
  /\ asked = 0

At(p, pc) == session[p].pc = pc
HeldElsewhere(p, x) == \E q \in Clients \ {p} : x \in session[q].held

(* A request begins.                                                        *)
Begin(p, r) ==
  /\ At(p, "idle")
  /\ asked < MaxRequests /\ asked' = asked + 1
  /\ session' = [session EXCEPT ![p] = r]

(* get_db closes the session of a request that failed: all is rolled back.  *)
Fail(p) == session' = [session EXCEPT ![p] = Idle]

-----------------------------------------------------------------------------
(* Upserts: upsert_nodes, upsert_edges, create_component_identity and       *)
(* upsert_document.  `at' is the row of the batch at hand and `first' the   *)
(* first one not rolled back; `seen' is each row as read or flushed, `mine' *)
(* as it is to be, `wrote' the columns written and not committed, and       *)
(* `read' how many upserts had been answered when each row was read.        *)

Nothing == [k \in Keys |-> NoRow]

BeginUpsert(p) ==
  /\ \E b \in Batches :
       Begin(p, [pc |-> "row", held |-> {}, batch |-> b, at |-> 1, first |-> 1,
                 seen |-> Nothing, mine |-> Nothing, wrote |-> {},
                 read |-> [k \in Keys |-> 0], begun |-> Len(log)])
  /\ UNCHANGED <<table, snapVars, log>>

Current(p) == session[p].batch[session[p].at]
Exists(p, k) == table[k] # NoRow \/ k \in session[p].held

(* The position after the row at hand. *)
NextPc(p) == IF session[p].at < Len(session[p].batch) THEN "row" ELSE "commit"
Advance(p, s) == [s EXCEPT !.pc = NextPc(p), !.at = @ + 1]

(* SELECT the row: one that is there is changed in the session, another is  *)
(* inserted; identities are always inserted.                                *)
SelectRow(p) ==
  /\ At(p, "row")
  /\ LET r == Current(p)
         s == [session[p] EXCEPT
                 !.read[r.key] = IF session[p].seen[r.key] = NoRow THEN Len(log) ELSE @]
     IN session' = [session EXCEPT ![p] =
          IF Exists(p, r.key) /\ r.key \notin Identities
          THEN Advance(p, [s EXCEPT
                 !.seen[r.key] = IF @ = NoRow THEN table[r.key] ELSE @,
                 !.mine[r.key] = r.cols])
          ELSE [s EXCEPT !.pc = "insert"]]
  /\ UNCHANGED <<table, snapVars, asked, log>>

(* What the flush does next: the updates by primary key, then the INSERT.   *)
Changed(p) == {k \in Keys : session[p].mine[k] # session[p].seen[k]}
NextUpdate(p) == CHOOSE k \in Changed(p) : \A j \in Changed(p) : Rank[k] <= Rank[j]

Flushing(p) == At(p, "insert") \/ (At(p, "commit") /\ Changed(p) # {})
NextWrite(p) == IF Changed(p) # {}
                THEN Row(NextUpdate(p), session[p].mine[NextUpdate(p)])
                ELSE Current(p)
IdentitiesKnown(r) ==
  \A c \in Columns : r.cols[c] \in Identities => table[r.cols[c]] # NoRow
Violates(p) ==
  \/ ~IdentitiesKnown(NextWrite(p))
  \/ Changed(p) = {} /\ Exists(p, Current(p).key)

(* An UPDATE sets the columns that differ from what was seen, an INSERT all. *)
Differing(s, r) ==
  {c \in Columns : s.seen[r.key] = NoRow \/ s.seen[r.key][c] # r.cols[c]}

Write(p) ==
  /\ Flushing(p)
  /\ LET r == NextWrite(p)
         s == [session[p] EXCEPT !.held = @ \cup {r.key},
                 !.wrote = @ \cup {r.key} \X Differing(session[p], r),
                 !.seen[r.key] = r.cols, !.mine[r.key] = r.cols]
     IN /\ ~HeldElsewhere(p, r.key) /\ ~Violates(p)
        /\ session' = [session EXCEPT ![p] = IF Changed(p) # {} THEN s ELSE Advance(p, s)]
  /\ UNCHANGED <<table, snapVars, asked, log>>

(* The transaction after a rollback that found row r, which shall be `cols'. *)
Again(p, r, cols) ==
  Advance(p, [session[p] EXCEPT !.first = session[p].at, !.held = {}, !.wrote = {},
                !.read[r.key] = Len(log),
                !.seen = [Nothing EXCEPT ![r.key] = table[r.key]],
                !.mine = [Nothing EXCEPT ![r.key] = cols]])

(* Mutant: the row found after a collision is left as it is. *)
CollideIgnoring(p) ==
  /\ Flushing(p)
  /\ ~HeldElsewhere(p, NextWrite(p).key) /\ Violates(p)
  /\ IF /\ At(p, "insert") /\ Current(p).key \in NodeKeys \cup EdgeKeys
        /\ table[Current(p).key] # NoRow
     THEN session' = [session EXCEPT ![p] = Again(p, Current(p), table[Current(p).key])]
     ELSE Fail(p)
  /\ UNCHANGED <<table, snapVars, asked, log>>

(* IntegrityError.  The upsert of a node or an edge rolls the transaction   *)
(* back, rows of the batch before this one included, and goes on from the   *)
(* row that is there now; everything else fails.                            *)
Collide(p) ==
  /\ Flushing(p)
  /\ ~HeldElsewhere(p, NextWrite(p).key) /\ Violates(p)
  /\ IF /\ At(p, "insert") /\ Current(p).key \in NodeKeys \cup EdgeKeys
        /\ table[Current(p).key] # NoRow
     THEN session' = [session EXCEPT ![p] = Again(p, Current(p), Current(p).cols)]
     ELSE Fail(p)
  /\ UNCHANGED <<table, snapVars, asked, log>>

(* Only what was written reaches the table: a column left out keeps what    *)
(* another request has put there since the row was read.                    *)
CommitUpsert(p) ==
  /\ At(p, "commit") /\ Changed(p) = {}
  /\ LET s == session[p] IN
     /\ table' = [k \in Keys |->
          IF k \notin s.held THEN table[k]
          ELSE [c \in Columns |-> IF <<k, c>> \in s.wrote THEN s.seen[k][c] ELSE table[k][c]]]
     /\ log' = Append(log, [batch |-> s.batch, first |-> s.first,
                            read |-> s.read, begun |-> s.begun])
  /\ session' = [session EXCEPT ![p] = Idle]
  /\ UNCHANGED <<snapVars, asked>>

-----------------------------------------------------------------------------
(* Snapshots: of a commit that is there, or of one create_commit is making  *)
(* in the same transaction.                                                 *)

(* What has been read, the row the commit will name, and whether it is new. *)
Snapshot(pc, c, held) ==
  [pc |-> pc, id |-> asked + 1, held |-> held, commit |-> c,
   nodes |-> <<>>, edges |-> <<>>, row |-> 0, created |-> FALSE]

BeginSnapshot(p) ==
  /\ \E c \in commits : Begin(p, Snapshot("check", c, {}))
  /\ UNCHANGED <<table, snapVars, log>>

BeginCommit(p) ==
  /\ \E c \in Commits \ commits :
       /\ ~HeldElsewhere(p, c)
       /\ \E wanted \in BOOLEAN :
            Begin(p, Snapshot(IF wanted THEN "check" ELSE "plain", c, {c}))
  /\ UNCHANGED <<table, snapVars, log>>

FinishPlainCommit(p) ==
  /\ At(p, "plain")
  /\ commits' = commits \cup {session[p].commit}
  /\ session' = [session EXCEPT ![p] = Idle]
  /\ UNCHANGED <<table, snapshot, tree, audits, events, asked, log>>

(* A commit that has a snapshot keeps it: nothing is written. *)
CheckSnapshot(p) ==
  /\ At(p, "check")
  /\ session' = [session EXCEPT ![p] =
       IF snapshot[@.commit] # None THEN Idle ELSE [@ EXCEPT !.pc = "nodes"]]
  /\ UNCHANGED <<table, snapVars, asked, log>>

Rows(keys) == [k \in {j \in keys : table[j] # NoRow} |-> table[k]]

ReadNodes(p) ==
  /\ At(p, "nodes")
  /\ session' = [session EXCEPT ![p] = [@ EXCEPT !.nodes = Rows(NodeKeys), !.pc = "edges"]]
  /\ UNCHANGED <<table, snapVars, asked, log>>

ReadEdges(p) ==
  /\ At(p, "edges")
  /\ session' = [session EXCEPT ![p] = [@ EXCEPT !.edges = Rows(EdgeKeys), !.pc = "store"]]
  /\ UNCHANGED <<table, snapVars, asked, log>>

(* Mutant: the row that collided is not replaced by the one there is. *)
StoreAsOwn(p) ==
  /\ At(p, "store") /\ ~HeldElsewhere(p, session[p].commit)
  /\ session' = [session EXCEPT ![p] =
       [@ EXCEPT !.pc = "finish", !.row = session[p].id, !.held = {session[p].commit},
                 !.created = snapshot[session[p].commit] = None]]
  /\ UNCHANGED <<table, snapVars, asked, log>>

(* INSERT of the snapshot, unique by commit; who comes second takes the     *)
(* first one's.                                                             *)
StoreSnapshot(p) ==
  /\ At(p, "store") /\ ~HeldElsewhere(p, session[p].commit)
  /\ LET there == snapshot[session[p].commit] IN
     session' = [session EXCEPT ![p] =
       [@ EXCEPT !.pc = "finish", !.created = (there = None),
                 !.row = IF there = None THEN session[p].id ELSE there.by,
                 !.held = IF there = None THEN {session[p].commit} ELSE {}]]
  /\ UNCHANGED <<table, snapVars, asked, log>>

(* tree, audit row and, of a new snapshot, the event; then COMMIT. *)
FinishSnapshot(p) ==
  /\ At(p, "finish")
  /\ LET s == session[p] IN
     /\ commits' = commits \cup {s.commit}
     /\ snapshot' = IF s.created
                    THEN [snapshot EXCEPT ![s.commit] =
                            [by |-> s.id, nodes |-> s.nodes, edges |-> s.edges]]
                    ELSE snapshot
     /\ tree' = [tree EXCEPT ![s.commit] = s.row]
     /\ audits' = audits \cup {<<s.commit, s.row>>}
     /\ events' = IF s.created THEN Append(events, s.commit) ELSE events
  /\ session' = [session EXCEPT ![p] = Idle]
  /\ UNCHANGED <<table, asked, log>>

-----------------------------------------------------------------------------
(* PostgreSQL finds a circle of waiting transactions and fails one of them. *)
Waits(p, q) ==
  \/ p # q /\ Flushing(p) /\ NextWrite(p).key \in session[q].held
  \/ p # q /\ At(p, "store") /\ session[p].commit \in session[q].held

Circle(ps) == ps # {} /\ \A p \in ps : \E q \in ps : Waits(p, q)

(* Mutant: the failed request's session is not closed. *)
DeadlockUnclosed(p) ==
  /\ \E ps \in SUBSET Clients :
       p \in ps /\ Circle(ps) /\ \A qs \in SUBSET ps \ {ps} : ~Circle(qs)
  /\ session' = [session EXCEPT ![p] = [Idle EXCEPT !.held = session[p].held]]
  /\ UNCHANGED <<table, snapVars, asked, log>>

Deadlock(p) ==
  /\ \E ps \in SUBSET Clients :
       p \in ps /\ Circle(ps) /\ \A qs \in SUBSET ps \ {ps} : ~Circle(qs)
  /\ Fail(p)
  /\ UNCHANGED <<table, snapVars, asked, log>>

(* The process dies, or loses the database, in the middle of a request. *)
Crash(p) == ~At(p, "idle") /\ Fail(p) /\ UNCHANGED <<table, snapVars, asked, log>>

-----------------------------------------------------------------------------
Step(p) ==
  \/ SelectRow(p) \/ Write(p) \/ Collide(p) \/ CommitUpsert(p)
  \/ FinishPlainCommit(p) \/ CheckSnapshot(p) \/ ReadNodes(p) \/ ReadEdges(p)
  \/ StoreSnapshot(p) \/ FinishSnapshot(p) \/ Deadlock(p)

Next == \E p \in Clients :
  Step(p) \/ Crash(p) \/ BeginUpsert(p) \/ BeginSnapshot(p) \/ BeginCommit(p)

(* A request that has begun goes on, and so does the database. *)
Spec == Init /\ [][Next]_vars /\ \A p \in Clients : WF_vars(Step(p))

-----------------------------------------------------------------------------
(* Properties. *)

(* Row n of the batch is the last that upsert u kept of its key. *)
LastKept(u, n) ==
  /\ n \in u.first .. Len(u.batch)
  /\ \A m \in n + 1 .. Len(u.batch) : u.batch[m].key # u.batch[n].key

(* Upsert u was answered with row k, with column c of it as v. *)
Upserted(u, k) == \E n \in u.first .. Len(u.batch) : u.batch[n].key = k
AskedFor(u, k, c, v) ==
  \E n \in 1 .. Len(u.batch) :
    LastKept(u, n) /\ u.batch[n].key = k /\ u.batch[n].cols[c] = v

(* A row is there if an answered upsert brought it, and each column holds   *)
(* what an upsert asked for whose answer no upsert of the row had already   *)
(* when it last read the row and was answered itself: requests that overlap *)
(* may leave a mix of their columns, never something older than both, and   *)
(* one that lost an insertion sees to the row it found.  An upsert answered *)
(* for a part of its batch lost an insertion to a request that committed    *)
(* meanwhile: the rollback in upsert_nodes and upsert_edges takes the rows  *)
(* before.                                                                  *)
AnsweredRowsKept ==
  /\ \A i \in 1..Len(log) :
       log[i].first > 1 =>
         \E j \in log[i].begun + 1 .. i - 1 : Upserted(log[j], log[i].batch[log[i].first].key)
  /\ \A k \in Keys :
       IF \A i \in 1..Len(log) : ~Upserted(log[i], k) THEN table[k] = NoRow
       ELSE \A c \in Columns : \E i \in 1..Len(log) :
              /\ AskedFor(log[i], k, c, table[k][c])
              /\ \A j \in i + 1 .. Len(log) : Upserted(log[j], k) => log[j].read[k] < i

(* A commit gets one snapshot whoever asks for it and how often: it is      *)
(* announced once, every audit row about it is of that snapshot, and        *)
(* commit.tree names it, also when the request that lost the race wrote     *)
(* the tree last (create_snapshot).                                         *)
SnapshotToldOnce ==
  \A c \in Commits :
    LET s == snapshot[c] IN
    /\ Cardinality({i \in 1..Len(events) : events[i] = c}) = IF s = None THEN 0 ELSE 1
    /\ tree[c] = s.by
    /\ {a \in audits : a[1] = c} = IF s = None THEN {} ELSE {<<c, s.by>>}

(* Every request ends, also those whose batches cross (nobody orders the    *)
(* rows of a batch): the one PostgreSQL picks fails and lets go of its rows. *)
RequestsEnd == \A p \in Clients : []<>(At(p, "idle"))

=============================================================================
