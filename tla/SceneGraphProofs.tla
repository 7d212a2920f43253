--------------------------- MODULE SceneGraphProofs ---------------------------
(***************************************************************************)
(* Proofs about SceneGraph for any clients, keys, columns, batches and      *)
(* commits: what an upsert answered is stored unless an overlapping one     *)
(* wrote it, and a commit gets one snapshot.  That every request ends is a  *)
(* liveness property and left to TLC.                                       *)
(***************************************************************************)
EXTENDS SceneGraph, FiniteSetTheorems, WellFoundedInduction, TLAPS

USE SceneAssumption

--------------------------------------------------------------------------------
(* The inductive invariant *)

RowSet == [key : Keys, cols : Contents]
Held == Contents \cup {NoRow}

\* A request in flight, by what it does.
Upserting == {"row", "insert", "commit"}
Upsert == [pc : Upserting, held : SUBSET Keys, batch : Batches, at : Nat \ {0},
           first : Nat \ {0}, seen : [Keys -> Held], mine : [Keys -> Held],
           wrote : SUBSET (Keys \X Columns), read : [Keys -> Nat], begun : Nat]

ReadRows == {<<>>} \cup UNION {[K -> Contents] : K \in SUBSET Keys}
Snapshotting == {"check", "plain", "nodes", "edges", "store", "finish"}
Snapshots == [pc : Snapshotting, id : Nat \ {0}, held : SUBSET Commits, commit : Commits,
              nodes : ReadRows, edges : ReadRows, row : Nat, created : BOOLEAN]

Session == {Idle} \cup Upsert \cup Snapshots

Answer == [batch : Batches, first : Nat \ {0}, read : [Keys -> Nat], begun : Nat]

Types ==
  /\ table \in [Keys -> Held]
  /\ commits \subseteq Commits
  /\ DOMAIN snapshot = Commits
  /\ \A c \in Commits : snapshot[c].by \in Nat /\ (snapshot[c] = None <=> snapshot[c].by = 0)
  /\ tree \in [Commits -> Nat]
  /\ events \in Seq(Commits)
  /\ session \in [Clients -> Session]
  /\ asked \in Nat
  /\ log \in Seq(Answer)

\* No two transactions hold a lock on the same row.
HeldApart ==
  \A p, q \in Clients : p # q => session[p].held \cap session[q].held = {}

\* Column c of row k is what upsert i asked for, and no upsert that read the
\* row after its answer has followed.
Witness(i, k, c) ==
  /\ AskedFor(log[i], k, c, table[k][c])
  /\ \A j \in i + 1 .. Len(log) : Upserted(log[j], k) => log[j].read[k] < i

Overtaken(read, k, c) == \E i \in read + 1 .. Len(log) : Witness(i, k, c)
AnsweredSince(begun, k) == \E j \in begun + 1 .. Len(log) : Upserted(log[j], k)

\* A column that an upsert has not written is as it was seen, or another
\* request has set it since this one read it.
ColumnValid(s, k, c) ==
  \/ k \in s.held /\ <<k, c>> \in s.wrote
  \/ table[k] # NoRow /\ (s.seen[k][c] = table[k][c] \/ Overtaken(s.read[k], k, c))

\* Row n of the batch is the last one of row k from the first one not rolled
\* back to the one before the row at hand.
LastOf(s, k, n) ==
  /\ n \in s.first .. s.at - 1
  /\ s.batch[n].key = k
  /\ \A m \in n + 1 .. s.at - 1 : s.batch[m].key # k

\* What an upsert is to make of a row is what its batch last asks for.
RowValid(s, k) ==
  IF s.mine[k] = NoRow
  THEN /\ s.seen[k] = NoRow /\ k \notin s.held
       /\ \A n \in s.first .. s.at - 1 : s.batch[n].key # k
  ELSE /\ s.seen[k] # NoRow
       /\ \E n \in s.first .. s.at - 1 : LastOf(s, k, n) /\ s.mine[k] = s.batch[n].cols
       /\ k \in s.held \/ table[k] # NoRow
       /\ \A c \in Columns : ColumnValid(s, k, c)

\* A row an upsert could not find and is about to insert, or has lost the
\* insertion of, has been answered to another request since it began.
UpsertValid(s) ==
  s.pc \in Upserting =>
    /\ s.begun <= Len(log)
    /\ s.first <= s.at
    /\ IF s.pc = "commit" THEN s.at = Len(s.batch) + 1 ELSE s.at <= Len(s.batch)
    /\ s.first > 1 => s.first < s.at /\ AnsweredSince(s.begun, s.batch[s.first].key)
    /\ s.pc = "insert" =>
         LET k == s.batch[s.at].key IN
         k \in NodeKeys \cup EdgeKeys /\ table[k] # NoRow => AnsweredSince(s.begun, k)
    /\ \A k \in Keys : s.read[k] <= Len(log) /\ RowValid(s, k)

\* A request that is about to finish a new snapshot keeps others from it; one
\* that has found a snapshot names that one.
SnapshotValid(s) ==
  s.pc = "finish" =>
    IF s.created
      THEN s.commit \in s.held /\ s.row = s.id /\ snapshot[s.commit] = None
      ELSE snapshot[s.commit] # None /\ s.row = snapshot[s.commit].by

IInv ==
  /\ Types
  /\ HeldApart
  /\ AnsweredRowsKept
  /\ SnapshotToldOnce
  /\ \A p \in Clients : UpsertValid(session[p]) /\ SnapshotValid(session[p])

--------------------------------------------------------------------------------
(* Sessions *)

\* A request in flight has the fields of its kind.
LEMMA SessionKinds ==
  ASSUME Types, NEW p \in Clients
  PROVE  /\ session[p].held \subseteq Keys \cup Commits
         /\ session[p].pc \in Upserting => session[p] \in Upsert
         /\ session[p].pc \in Snapshotting => session[p] \in Snapshots
  BY DEF Types, Session, Idle, Upsert, Snapshots, Upserting, Snapshotting

\* A batch is a sequence of rows, and not empty.
LEMMA BatchRows ==
  ASSUME NEW b \in Batches
  PROVE  /\ Len(b) \in Nat \ {0}
         /\ \A i \in 1 .. Len(b) : b[i] \in RowSet
<1>1. b \in Seq(RowSet) /\ b # <<>>
  BY DEF RowSet
<1> QED BY <1>1

\* A set of numbers that is not empty has a least one.
LEMMA LeastNumber ==
  ASSUME NEW T, T \subseteq Nat, T # {}
  PROVE  \E n \in T : \A m \in T : n <= m
<1>1. PICK n \in T : \A m \in T : ~ (<<m, n>> \in OpToRel(<, Nat))
  BY WFMin, NatLessThanWellFounded
<1>2. \A m \in T : ~ (m < n)
  BY <1>1 DEF OpToRel
<1> QED BY <1>2

\* A flush writes one of the rows that are changed.
LEMMA UpdateIsChanged ==
  ASSUME NEW p \in Clients, Changed(p) # {}
  PROVE  NextUpdate(p) \in Changed(p)
<1> DEFINE T == {Rank[k] : k \in Changed(p)}
<1>0. Changed(p) \subseteq Keys
  BY DEF Changed
<1>1. T \subseteq Nat /\ T # {}
  BY <1>0
<1>2. PICK n \in T : \A m \in T : n <= m
  BY <1>1, LeastNumber
<1>3. PICK k \in Changed(p) : n = Rank[k]
  BY <1>2
<1>4. \A j \in Changed(p) : Rank[k] <= Rank[j]
  BY <1>2, <1>3
<1> QED BY <1>3, <1>4 DEF NextUpdate

\* What is valid of an upsert depends on the table and the log only.
LEMMA ValidUnchanged ==
  ASSUME UNCHANGED <<table, log>>, NEW q, NEW u, UpsertValid(u), session'[q] = u
  PROVE  UpsertValid(session[q])'
<1>1. table' = table /\ log' = log
  OBVIOUS
<1>2. \A i, k, c : Witness(i, k, c) => Witness(i, k, c)'
  BY <1>1 DEF Witness
<1>3. \A b, k, c : Overtaken(b, k, c) => Overtaken(b, k, c)'
  BY <1>1, <1>2 DEF Overtaken
<1>4. \A b, k : AnsweredSince(b, k) => AnsweredSince(b, k)'
  BY <1>1 DEF AnsweredSince
<1>5. \A k, c : ColumnValid(u, k, c) => ColumnValid(session[q], k, c)'
  BY <1>1, <1>3 DEF ColumnValid
<1>6. \A k, n : LastOf(u, k, n) => LastOf(session[q], k, n)'
  BY DEF LastOf
<1>7. \A k \in Keys : RowValid(u, k) => RowValid(session[q], k)'
  BY <1>1, <1>5, <1>6 DEF RowValid
<1> QED BY <1>1, <1>4, <1>7 DEF UpsertValid

\* Neither does what the answers promise change without the table and the log.
LEMMA AnswersUnchanged ==
  ASSUME UNCHANGED <<table, log>>, AnsweredRowsKept
  PROVE  AnsweredRowsKept'
<1>1. table' = table /\ log' = log
  OBVIOUS
<1> QED BY <1>1 DEF AnsweredRowsKept

\* A step of one client that leaves the tables and the log alone keeps the
\* invariant if what the client has then is valid and its locks were free.
LEMMA SessionStep ==
  ASSUME IInv, NEW p \in Clients, NEW s \in Session,
         UNCHANGED <<table, snapVars, log>>, asked' \in Nat,
         session' = [session EXCEPT ![p] = s],
         \A q \in Clients : q # p => s.held \cap session[q].held = {},
         UpsertValid(s), SnapshotValid(s)
  PROVE  IInv'
<1>1. /\ session' \in [Clients -> Session]
      /\ session'[p] = s
      /\ \A q \in Clients : q # p => session'[q] = session[q]
  BY DEF IInv, Types
<1>2. /\ table' = table /\ commits' = commits /\ snapshot' = snapshot /\ tree' = tree
      /\ audits' = audits /\ events' = events /\ log' = log
  BY DEF snapVars
<1>3. Types'
  BY <1>1, <1>2 DEF IInv, Types
<1>4. HeldApart'
  BY <1>1 DEF IInv, HeldApart
<1>5. AnsweredRowsKept'
  BY <1>2, AnswersUnchanged DEF IInv
<1>6. SnapshotToldOnce'
  BY <1>2 DEF IInv, SnapshotToldOnce
<1>7. ASSUME NEW q \in Clients
      PROVE  UpsertValid(session[q])' /\ SnapshotValid(session[q])'
  <2> DEFINE t == IF q = p THEN s ELSE session[q]
  <2>1. UpsertValid(t) /\ SnapshotValid(t) /\ session'[q] = t
    BY <1>1, <1>7 DEF IInv
  <2> HIDE DEF t
  <2>2. UpsertValid(session[q])'
    BY <1>2, <2>1, ValidUnchanged
  <2>3. SnapshotValid(session[q])'
    BY <1>2, <2>1 DEF SnapshotValid
  <2> QED BY <2>2, <2>3
<1> QED BY <1>3, <1>4, <1>5, <1>6, <1>7 DEF IInv

\* A request that fails lets go of all it has.
LEMMA FailStep ==
  ASSUME IInv, NEW p \in Clients, Fail(p), UNCHANGED <<table, snapVars, asked, log>>
  PROVE  IInv'
<1>1. Idle \in Session /\ UpsertValid(Idle) /\ SnapshotValid(Idle) /\ Idle.held = {}
  BY DEF Session, Idle, UpsertValid, Upserting, SnapshotValid
<1>2. asked' \in Nat
  BY DEF IInv, Types
<1> QED BY <1>1, <1>2, SessionStep DEF Fail

--------------------------------------------------------------------------------
(* Upserts *)

\* An upsert that has seen to the row at hand: that row is what the batch asks
\* for, the others are as they were.
LEMMA Advanced ==
  ASSUME NEW s \in Upsert, s.pc \in {"row", "insert"}, UpsertValid(s),
         NEW t \in Upsert, NEW k \in Keys, k = s.batch[s.at].key,
         t.pc = (IF s.at < Len(s.batch) THEN "row" ELSE "commit"),
         t.read[k] <= Len(log), t.at = s.at + 1, t.first = s.first, t.batch = s.batch, t.begun = s.begun,
         t.mine[k] = s.batch[s.at].cols, t.mine[k] # NoRow, t.seen[k] # NoRow,
         k \in t.held \/ table[k] # NoRow, \A c \in Columns : ColumnValid(t, k, c),
         \A j \in Keys \ {k} :
           /\ t.mine[j] = s.mine[j] /\ t.seen[j] = s.seen[j] /\ t.read[j] = s.read[j]
           /\ j \in t.held <=> j \in s.held
           /\ \A c \in Columns : <<j, c>> \in t.wrote <=> <<j, c>> \in s.wrote
  PROVE  UpsertValid(t)
<1>1. /\ s.batch \in Batches /\ s.at \in Nat \ {0} /\ s.begun \in Nat /\ s.first \in Nat \ {0}
      /\ Len(s.batch) \in Nat /\ s.at <= Len(s.batch) /\ s.first <= s.at
      /\ s.begun <= Len(log)
      /\ s.first > 1 => s.first < s.at /\ AnsweredSince(s.begun, s.batch[s.first].key)
  BY BatchRows DEF Upsert, UpsertValid, Upserting
<1>2. /\ t.first <= t.at /\ t.begun <= Len(log) /\ t.pc # "insert"
      /\ IF t.pc = "commit" THEN t.at = Len(t.batch) + 1 ELSE t.at <= Len(t.batch)
      /\ t.first > 1 => t.first < t.at /\ AnsweredSince(t.begun, t.batch[t.first].key)
  <2>1. t.at = s.at + 1 /\ t.first = s.first /\ t.begun = s.begun /\ t.batch = s.batch
    OBVIOUS
  <2>2. IF t.pc = "commit" THEN t.at = Len(t.batch) + 1 ELSE t.at <= Len(t.batch)
    <3>1. CASE s.at < Len(s.batch)
      BY <1>1, <2>1, <3>1
    <3>2. CASE ~(s.at < Len(s.batch))
      <4>1. s.at = Len(s.batch)
        BY <1>1, <3>2
      <4> QED BY <2>1, <3>2, <4>1
    <3> QED BY <3>1, <3>2
  <2>3. t.first <= t.at /\ (t.first > 1 => t.first < t.at)
    BY <1>1, <2>1
  <2>4. t.pc # "insert" /\ t.begun <= Len(log)
    BY <1>1
  <2>5. t.first > 1 => AnsweredSince(t.begun, t.batch[t.first].key)
    BY <1>1, <2>1, Zenon
  <2> QED BY <2>2, <2>3, <2>4, <2>5
<1>3. /\ t.first .. t.at - 1 = (s.first .. s.at - 1) \cup {s.at}
      /\ s.at \notin s.first .. s.at - 1
      /\ \A n \in s.first .. s.at - 1 : n + 1 .. t.at - 1 = (n + 1 .. s.at - 1) \cup {s.at}
      /\ s.at + 1 .. t.at - 1 = {}
  <2>1. t.at - 1 = s.at /\ t.first = s.first /\ s.at \in Nat /\ s.first \in Nat /\ s.first <= s.at
    BY <1>1
  <2>2. t.first .. t.at - 1 = (s.first .. s.at - 1) \cup {s.at}
    BY <2>1
  <2>3. ASSUME NEW n \in s.first .. s.at - 1
        PROVE  n + 1 .. t.at - 1 = (n + 1 .. s.at - 1) \cup {s.at}
    BY <2>1
  <2>4. s.at + 1 .. t.at - 1 = {} /\ s.at \notin s.first .. s.at - 1
    BY <2>1
  <2> QED BY <2>2, <2>3, <2>4
<1>4. RowValid(t, k) /\ t.read[k] <= Len(log)
  <2>1. LastOf(t, k, s.at) /\ t.mine[k] = t.batch[s.at].cols
    BY <1>1, <1>3 DEF LastOf
  <2>2. s.at \in t.first .. t.at - 1
    BY <1>3
  <2> QED BY <2>1, <2>2 DEF RowValid
<1>5. ASSUME NEW j \in Keys \ {k}
      PROVE  RowValid(t, j) /\ t.read[j] <= Len(log)
  <2>1. RowValid(s, j) /\ t.read[j] <= Len(log)
    BY DEF UpsertValid, Upserting
  <2>2. CASE s.mine[j] = NoRow
    <3>1. \A n \in t.first .. t.at - 1 : t.batch[n].key # j
      BY <1>3, <1>5, <2>1, <2>2 DEF RowValid
    <3> QED BY <1>5, <2>1, <2>2, <3>1 DEF RowValid
  <2>3. CASE s.mine[j] # NoRow
    <3>1. PICK n \in s.first .. s.at - 1 : LastOf(s, j, n) /\ s.mine[j] = s.batch[n].cols
      BY <2>1, <2>3 DEF RowValid
    <3>2. n \in t.first .. t.at - 1 /\ LastOf(t, j, n) /\ t.mine[j] = t.batch[n].cols
      BY <1>3, <1>5, <3>1 DEF LastOf
    <3>3. \A c \in Columns : ColumnValid(t, j, c)
      BY <1>5, <2>1, <2>3 DEF RowValid, ColumnValid
    <3> QED BY <1>5, <2>1, <2>3, <3>2, <3>3 DEF RowValid
  <2> QED BY <2>2, <2>3
<1> QED BY <1>2, <1>4, <1>5 DEF UpsertValid

LEMMA BeginUpsertIInv ==
  ASSUME IInv, NEW p \in Clients, BeginUpsert(p)
  PROVE  IInv'
<1>1. asked \in Nat /\ Len(log) \in Nat
  BY DEF IInv, Types
<1>2. PICK b \in Batches :
        Begin(p, [pc |-> "row", held |-> {}, batch |-> b, at |-> 1, first |-> 1,
                  seen |-> Nothing, mine |-> Nothing, wrote |-> {},
                  read |-> [k \in Keys |-> 0], begun |-> Len(log)])
  BY DEF BeginUpsert
<1> DEFINE s == [pc |-> "row", held |-> {}, batch |-> b, at |-> 1, first |-> 1,
                 seen |-> Nothing, mine |-> Nothing, wrote |-> {},
                 read |-> [k \in Keys |-> 0], begun |-> Len(log)]
<1>3. s \in Upsert
  BY <1>1 DEF Upsert, Upserting, Nothing, Held
<1>4. UpsertValid(s)
  <2>1. s.at <= Len(b) /\ s.begun <= Len(log)
    BY <1>1, BatchRows
  <2>2. \A k \in Keys : s.read[k] <= Len(log) /\ RowValid(s, k)
    BY <1>1 DEF RowValid, Nothing
  <2>3. s.pc = "row" /\ s.first = 1 /\ s.at = 1 /\ s.batch = b
    OBVIOUS
  <2> HIDE DEF s
  <2> QED BY <2>1, <2>2, <2>3 DEF UpsertValid
<1>5. SnapshotValid(s) /\ s.held = {}
  BY DEF SnapshotValid
<1>6. UNCHANGED <<table, snapVars, log>>
  BY DEF BeginUpsert
<1>7. asked' \in Nat /\ session' = [session EXCEPT ![p] = s]
  BY <1>1, <1>2 DEF Begin
<1> HIDE DEF s
<1> QED BY <1>3, <1>4, <1>5, <1>6, <1>7, SessionStep DEF Session

LEMMA SelectRowIInv ==
  ASSUME IInv, NEW p \in Clients, SelectRow(p)
  PROVE  IInv'
<1> DEFINE s == session[p]
           r == Current(p)
           k == r.key
<1>1. s \in Upsert /\ s.pc = "row" /\ UpsertValid(s)
  BY SessionKinds DEF IInv, SelectRow, At, Upserting
<1>2. /\ UNCHANGED <<table, snapVars, log>> /\ asked' \in Nat
      /\ \A q \in Clients : q # p => s.held \cap session[q].held = {}
  BY DEF SelectRow, IInv, Types, HeldApart
<1>3. /\ s.at \in 1 .. Len(s.batch) /\ s.batch \in Batches /\ s.at \in Nat \ {0}
      /\ s.seen \in [Keys -> Held] /\ s.mine \in [Keys -> Held] /\ table \in [Keys -> Held]
      /\ r \in RowSet /\ r = s.batch[s.at] /\ k \in Keys /\ r.cols \in Contents
  <2>1. s.at \in 1 .. Len(s.batch) /\ s.batch \in Batches
    BY <1>1, BatchRows DEF Upsert, UpsertValid, Upserting
  <2>2. r = s.batch[s.at] /\ r \in RowSet
    BY <2>1, BatchRows DEF Current
  <2> QED BY <1>1, <2>1, <2>2 DEF Upsert, IInv, Types, RowSet
<1>4. RowValid(s, k) /\ s.read[k] <= Len(log) /\ s.read \in [Keys -> Nat] /\ Len(log) \in Nat
  BY <1>1, <1>3 DEF UpsertValid, Upserting, Upsert, IInv, Types
<1> DEFINE n == IF s.seen[k] = NoRow THEN Len(log) ELSE s.read[k]
           read == [s.read EXCEPT ![k] = n]
<1>7. n \in Nat /\ n <= Len(log) /\ read \in [Keys -> Nat] /\ read[k] = n
      /\ \A j \in Keys \ {k} : read[j] = s.read[j]
  <2>1. s.read[k] \in Nat
    BY <1>3, <1>4
  <2>2. n \in Nat /\ n <= Len(log)
    BY <1>4, <2>1
  <2> HIDE DEF n, s, k
  <2> QED BY <1>3, <1>4, <2>2
<1>8. [session[p] EXCEPT !.read[Current(p).key] =
         IF session[p].seen[Current(p).key] = NoRow THEN Len(log) ELSE @] = [s EXCEPT !.read = read]
  BY <1>1 DEF Upsert
<1>5. CASE Exists(p, k) /\ k \notin Identities
  <2> DEFINE seen == IF s.seen[k] = NoRow THEN table[k] ELSE s.seen[k]
             v == [s EXCEPT !.read = read]
             t == [s EXCEPT !.pc = NextPc(p), !.at = s.at + 1, !.read = read,
                            !.seen = [s.seen EXCEPT ![k] = seen],
                            !.mine = [s.mine EXCEPT ![k] = r.cols]]
  <2>1. session' = [session EXCEPT ![p] = t]
    <3> DEFINE w == [session[p] EXCEPT !.read[Current(p).key] =
                       IF session[p].seen[Current(p).key] = NoRow THEN Len(log) ELSE @]
    <3>1. session' = [session EXCEPT ![p] = Advance(p, [w EXCEPT
                 !.seen[k] = IF @ = NoRow THEN table[k] ELSE @, !.mine[k] = r.cols])]
      BY <1>5 DEF SelectRow
    <3>2. w = v
      BY <1>8
    <3>3. Advance(p, [v EXCEPT
                 !.seen[k] = IF @ = NoRow THEN table[k] ELSE @, !.mine[k] = r.cols]) = t
      BY <1>1 DEF Advance, Upsert
    <3> HIDE DEF w, v, t
    <3> QED BY <3>1, <3>2, <3>3
  <2>2. seen \in Held /\ r.cols \in Held
    BY <1>3 DEF Held
  <2>3. /\ t \in Upsert /\ t.pc = NextPc(p) /\ t.at = s.at + 1 /\ t.first = s.first
        /\ t.batch = s.batch /\ t.begun = s.begun /\ t.held = s.held /\ t.wrote = s.wrote
        /\ t.read = read /\ t.seen = [s.seen EXCEPT ![k] = seen] /\ t.mine = [s.mine EXCEPT ![k] = r.cols]
    <3>1. NextPc(p) \in Upserting /\ s.at + 1 \in Nat \ {0}
      BY <1>3 DEF NextPc, Upserting
    <3>2. [s.seen EXCEPT ![k] = seen] \in [Keys -> Held]
      BY <1>3, <2>2
    <3>3. [s.mine EXCEPT ![k] = r.cols] \in [Keys -> Held]
      BY <1>3, <2>2
    <3> HIDE DEF seen, read
    <3> QED BY <1>1, <1>7, <3>1, <3>2, <3>3 DEF Upsert
  <2> HIDE DEF t
  <2>4. s.seen[k] = NoRow => k \notin s.held /\ table[k] # NoRow
    BY <1>4, <1>5 DEF RowValid, Exists
  <2>5. /\ seen # NoRow /\ t.seen[k] = seen /\ t.mine[k] = r.cols /\ r.cols # NoRow
        /\ k \in t.held \/ table[k] # NoRow
    BY <1>3, <1>5, <2>3, <2>4 DEF Exists
  <2>6. ASSUME NEW c \in Columns
        PROVE  ColumnValid(t, k, c)
    <3>1. CASE s.seen[k] = NoRow
      BY <2>3, <2>4, <2>5, <3>1 DEF ColumnValid
    <3>2. CASE s.seen[k] # NoRow
      BY <1>4, <1>7, <2>3, <2>5, <3>2 DEF ColumnValid, RowValid
    <3> QED BY <3>1, <3>2
  <2>7. \A j \in Keys \ {k} :
          /\ t.mine[j] = s.mine[j] /\ t.seen[j] = s.seen[j] /\ t.read[j] = s.read[j]
          /\ j \in t.held <=> j \in s.held
          /\ \A c \in Columns : <<j, c>> \in t.wrote <=> <<j, c>> \in s.wrote
    BY <1>3, <1>7, <2>3
  <2>8. UpsertValid(t)
    <3>1. s.pc \in {"row", "insert"} /\ k = s.batch[s.at].key /\ t.mine[k] = s.batch[s.at].cols
      BY <1>1, <1>3, <2>5
    <3>2. t.pc = IF s.at < Len(s.batch) THEN "row" ELSE "commit"
      BY <2>3 DEF NextPc
    <3>3. t.mine[k] # NoRow /\ t.seen[k] # NoRow /\ t.read[k] <= Len(log)
      BY <1>7, <2>3, <2>5
    <3> HIDE DEF s, k, r, seen, n, read
    <3> QED BY <1>1, <1>3, <2>3, <2>5, <2>6, <2>7, <3>1, <3>2, <3>3, Advanced
  <2>9. SnapshotValid(t)
    BY <2>3 DEF SnapshotValid, NextPc
  <2>10. t \in Session /\ \A q \in Clients : q # p => t.held \cap session[q].held = {}
    BY <1>2, <2>3 DEF Session
  <2> HIDE DEF s, n, read, k, r
  <2> QED BY <1>2, <2>1, <2>8, <2>9, <2>10, SessionStep
<1>6. CASE ~(Exists(p, k) /\ k \notin Identities)
  <2> DEFINE t == [s EXCEPT !.pc = "insert", !.read = read]
  <2>1. t \in Upsert /\ t.held = s.held /\ SnapshotValid(t)
    <3> HIDE DEF read
    <3> QED BY <1>1, <1>7 DEF Upsert, Upserting, SnapshotValid
  <2>2. k \in NodeKeys \cup EdgeKeys => table[k] = NoRow
    BY <1>6 DEF Exists
  <2>3. UpsertValid(t)
    <3>1. /\ t.pc = "insert" /\ t.begun = s.begun /\ t.batch = s.batch /\ t.at = s.at
          /\ t.held = s.held /\ t.first = s.first /\ t.seen = s.seen /\ t.mine = s.mine
          /\ t.wrote = s.wrote /\ t.read = read
      BY <1>1 DEF Upsert
    <3> HIDE DEF t
    <3>2. ASSUME NEW j \in Keys
          PROVE  t.read[j] <= Len(log) /\ RowValid(t, j)
      <4>1. RowValid(s, j) /\ s.read[j] <= Len(log)
        BY <1>1 DEF UpsertValid, Upserting
      <4>2. s.mine[j] # NoRow => t.read[j] = s.read[j]
        BY <1>4, <1>7, <3>1, <4>1 DEF RowValid
      <4>3. t.read[j] <= Len(log)
        BY <1>7, <3>1, <4>1
      <4> HIDE DEF read, s
      <4> QED BY <3>1, <4>1, <4>2, <4>3 DEF RowValid, LastOf, ColumnValid
    <3> QED BY <1>1, <1>3, <2>2, <3>1, <3>2 DEF UpsertValid, Upserting
  <2>4. session' = [session EXCEPT ![p] = t]
    <3> DEFINE v == [s EXCEPT !.read = read]
               w == [session[p] EXCEPT !.read[Current(p).key] =
                       IF session[p].seen[Current(p).key] = NoRow THEN Len(log) ELSE @]
    <3>1. session' = [session EXCEPT ![p] = [w EXCEPT !.pc = "insert"]]
      BY <1>6 DEF SelectRow
    <3>2. w = v /\ [v EXCEPT !.pc = "insert"] = t
      BY <1>1, <1>8 DEF Upsert
    <3> HIDE DEF w, v, t
    <3> QED BY <3>1, <3>2
  <2>5. t \in Session /\ \A q \in Clients : q # p => t.held \cap session[q].held = {}
    BY <1>2, <2>1 DEF Session
  <2> HIDE DEF t, s, n, read, k, r
  <2> QED BY <1>2, <2>1, <2>3, <2>4, <2>5, SessionStep
<1> QED BY <1>5, <1>6

\* A flush of an update: the row and what it is to be stay, and the columns
\* that differ from what was seen are written.
LEMMA UpdateIsValid ==
  ASSUME NEW s \in Upsert, UpsertValid(s), NEW t \in Upsert, NEW k \in Keys,
         s.mine[k] # s.seen[k],
         t.pc = s.pc, t.at = s.at, t.first = s.first, t.batch = s.batch, t.begun = s.begun,
         t.read = s.read, t.mine = s.mine, t.seen = [s.seen EXCEPT ![k] = s.mine[k]],
         t.held = s.held \cup {k},
         t.wrote = s.wrote \cup {k} \X {c \in Columns : s.seen[k] = NoRow \/ s.seen[k][c] # s.mine[k][c]}
  PROVE  UpsertValid(t)
<1>1. \A j \in Keys : s.read[j] <= Len(log) /\ RowValid(s, j)
  BY DEF UpsertValid, Upsert
<1>2. s.seen \in [Keys -> Held]
  BY DEF Upsert
<1>3. ASSUME NEW j \in Keys
      PROVE  RowValid(t, j)
  <2>1. RowValid(s, j) /\ \A n : LastOf(s, j, n) => LastOf(t, j, n)
    BY <1>1 DEF LastOf
  <2>2. CASE j = k
    <3>1. s.mine[k] # NoRow /\ t.seen[k] = s.mine[k] /\ k \in t.held
      BY <1>2, <2>1, <2>2 DEF RowValid
    <3>2. ASSUME NEW c \in Columns
          PROVE  ColumnValid(t, k, c)
      <4>1. ColumnValid(s, k, c) /\ s.seen[k] # NoRow
        BY <2>1, <2>2, <3>1 DEF RowValid
      <4>2. CASE s.seen[k][c] = s.mine[k][c]
        BY <3>1, <4>1, <4>2 DEF ColumnValid
      <4>3. CASE s.seen[k][c] # s.mine[k][c]
        BY <3>1, <4>3 DEF ColumnValid
      <4> QED BY <4>2, <4>3
    <3> QED BY <2>1, <2>2, <3>1, <3>2 DEF RowValid
  <2>3. CASE j # k
    <3>1. t.seen[j] = s.seen[j] /\ (j \in t.held <=> j \in s.held)
      BY <1>2, <2>3
    <3>2. \A c \in Columns : ColumnValid(s, j, c) => ColumnValid(t, j, c)
      BY <3>1 DEF ColumnValid
    <3> QED BY <2>1, <3>1, <3>2 DEF RowValid
  <2> QED BY <2>2, <2>3
<1> QED BY <1>1, <1>3 DEF UpsertValid

LEMMA WriteIInv ==
  ASSUME IInv, NEW p \in Clients, Write(p)
  PROVE  IInv'
<1> DEFINE s == session[p]
           r == NextWrite(p)
           k == r.key
           h == s.held \cup {k}
           w == s.wrote \cup {k} \X Differing(s, r)
           u == [s EXCEPT !.held = h, !.wrote = w, !.seen = [s.seen EXCEPT ![k] = r.cols],
                          !.mine = [s.mine EXCEPT ![k] = r.cols]]
<1>1. s \in Upsert /\ s.pc \in {"insert", "commit"} /\ UpsertValid(s)
  BY SessionKinds DEF IInv, Write, Flushing, At, Upserting
<1>2. /\ UNCHANGED <<table, snapVars, log>> /\ asked' \in Nat
      /\ \A q \in Clients : q # p => h \cap session[q].held = {}
      /\ ~Violates(p)
  BY DEF Write, HeldElsewhere, IInv, Types, HeldApart
<1>3. /\ s.seen \in [Keys -> Held] /\ s.mine \in [Keys -> Held] /\ table \in [Keys -> Held]
      /\ s.held \subseteq Keys /\ s.wrote \subseteq Keys \X Columns
      /\ s.batch \in Batches /\ s.at \in Nat \ {0}
  BY <1>1 DEF Upsert, IInv, Types
<1>4. session' = [session EXCEPT ![p] = IF Changed(p) # {} THEN u ELSE Advance(p, u)]
  <2> DEFINE v == [session[p] EXCEPT !.held = @ \cup {NextWrite(p).key},
                     !.wrote = @ \cup {NextWrite(p).key} \X Differing(session[p], NextWrite(p)),
                     !.seen[NextWrite(p).key] = NextWrite(p).cols,
                     !.mine[NextWrite(p).key] = NextWrite(p).cols]
  <2>1. v = u
    BY <1>1 DEF Upsert
  <2>2. session' = [session EXCEPT ![p] = IF Changed(p) # {} THEN v ELSE Advance(p, v)]
    BY DEF Write
  <2> HIDE DEF u, v
  <2> QED BY <2>1, <2>2
<1>5. ASSUME k \in Keys, r.cols \in Contents
      PROVE  /\ u \in Upsert
             /\ u.pc = s.pc /\ u.at = s.at /\ u.first = s.first /\ u.batch = s.batch
             /\ u.begun = s.begun /\ u.read = s.read /\ u.held = h /\ u.wrote = w
             /\ u.seen = [s.seen EXCEPT ![k] = r.cols]
             /\ u.mine = [s.mine EXCEPT ![k] = r.cols]
  <2>1. r.cols \in Held
    BY <1>5 DEF Held
  <2>2. [s.seen EXCEPT ![k] = r.cols] \in [Keys -> Held]
    BY <1>3, <2>1
  <2>3. [s.mine EXCEPT ![k] = r.cols] \in [Keys -> Held]
    BY <1>3, <2>1
  <2>4. Differing(s, r) \subseteq Columns
    BY DEF Differing
  <2>5. w \subseteq Keys \X Columns /\ h \subseteq Keys
    BY <1>3, <1>5, <2>4
  <2> HIDE DEF w, h, k, r
  <2> QED BY <1>1, <2>2, <2>3, <2>5 DEF Upsert
<1>6. CASE Changed(p) # {}
  <2>1. k \in Keys /\ s.mine[k] # s.seen[k] /\ r.cols = s.mine[k]
    BY <1>6, UpdateIsChanged DEF NextWrite, Changed, Row
  <2>2. s.mine[k] # NoRow
    BY <1>1, <2>1 DEF UpsertValid, Upserting, RowValid
  <2>3. r.cols \in Contents
    BY <1>3, <2>1, <2>2 DEF Held
  <2>4. u.mine = s.mine
    <3>1. u.mine = [s.mine EXCEPT ![k] = r.cols]
      BY <1>5, <2>1, <2>3
    <3>2. [s.mine EXCEPT ![k] = s.mine[k]] = s.mine
      BY <1>3
    <3> HIDE DEF u
    <3> QED BY <2>1, <3>1, <3>2
  <2>5. u.wrote = s.wrote \cup {k} \X {c \in Columns :
                    s.seen[k] = NoRow \/ s.seen[k][c] # s.mine[k][c]}
    BY <1>5, <2>1, <2>3 DEF Differing
  <2>6. UpsertValid(u)
    <3>1. u.seen = [s.seen EXCEPT ![k] = s.mine[k]] /\ u.held = s.held \cup {k}
      BY <1>5, <2>1, <2>3
    <3> HIDE DEF u, k, r, w, h
    <3> QED BY <1>1, <1>5, <2>1, <2>3, <2>4, <2>5, <3>1, UpdateIsValid
  <2>7. SnapshotValid(u) /\ u.held = h /\ u \in Session
    BY <1>1, <1>5, <2>1, <2>3 DEF SnapshotValid, Session
  <2>8. session' = [session EXCEPT ![p] = u]
    BY <1>4, <1>6
  <2> HIDE DEF u, h
  <2> QED BY <1>2, <2>6, <2>7, <2>8, SessionStep
<1>7. CASE Changed(p) = {}
  <2> DEFINE t == [u EXCEPT !.pc = NextPc(p), !.at = s.at + 1]
  <2>1. s.pc = "insert" /\ r = Current(p) /\ s.at \in 1 .. Len(s.batch)
    BY <1>1, <1>3, <1>7 DEF Write, Flushing, At, NextWrite, UpsertValid, Upserting
  <2>2. r = s.batch[s.at] /\ r \in RowSet /\ k \in Keys /\ r.cols \in Contents
    <3>1. r = s.batch[s.at] /\ r \in RowSet
      BY <1>3, <2>1, BatchRows DEF Current
    <3> QED BY <3>1 DEF RowSet
  <2>3. table[k] = NoRow /\ k \notin s.held
    BY <1>2, <1>7, <2>1 DEF Violates, Exists
  <2>4. s.seen[k] = NoRow
    BY <1>1, <2>2, <2>3 DEF UpsertValid, Upserting, RowValid
  <2>5. w = s.wrote \cup {k} \X Columns
    BY <2>4 DEF Differing
  <2>6. /\ t \in Upsert /\ t.pc = NextPc(p) /\ t.at = s.at + 1 /\ t.first = s.first
        /\ t.batch = s.batch /\ t.begun = s.begun /\ t.read = s.read
        /\ t.held = h /\ t.wrote = w
        /\ t.seen = [s.seen EXCEPT ![k] = r.cols] /\ t.mine = [s.mine EXCEPT ![k] = r.cols]
    <3>1. NextPc(p) \in Upserting /\ s.at + 1 \in Nat \ {0}
      BY <1>3 DEF NextPc, Upserting
    <3>2. u \in Upsert
      BY <1>5, <2>2
    <3> HIDE DEF u
    <3> QED BY <1>5, <2>2, <3>1, <3>2 DEF Upsert
  <2>7. session' = [session EXCEPT ![p] = t]
    <3>1. Advance(p, u) = t
      BY <1>5, <2>2 DEF Advance
    <3> HIDE DEF t, u
    <3> QED BY <1>4, <1>7, <3>1
  <2> HIDE DEF t, u
  <2>8. /\ t.mine[k] = r.cols /\ t.seen[k] = r.cols /\ r.cols # NoRow /\ k \in t.held
        /\ \A c \in Columns : ColumnValid(t, k, c)
    BY <1>3, <2>2, <2>5, <2>6 DEF ColumnValid
  <2>9. \A j \in Keys \ {k} :
          /\ t.mine[j] = s.mine[j] /\ t.seen[j] = s.seen[j] /\ t.read[j] = s.read[j]
          /\ j \in t.held <=> j \in s.held
          /\ \A c \in Columns : <<j, c>> \in t.wrote <=> <<j, c>> \in s.wrote
    BY <1>3, <2>6
  <2>10. UpsertValid(t)
    <3>1. s.pc \in {"row", "insert"} /\ k = s.batch[s.at].key /\ t.mine[k] = s.batch[s.at].cols
      BY <2>1, <2>2, <2>8
    <3>2. t.pc = IF s.at < Len(s.batch) THEN "row" ELSE "commit"
      BY <2>6 DEF NextPc
    <3>3. t.mine[k] # NoRow /\ t.seen[k] # NoRow /\ t.read[k] <= Len(log)
      BY <1>1, <2>2, <2>6, <2>8 DEF UpsertValid, Upserting
    <3> HIDE DEF s, k, r, h, w
    <3> QED BY <1>1, <2>2, <2>6, <2>8, <2>9, <3>1, <3>2, <3>3, Advanced
  <2>11. SnapshotValid(t) /\ t \in Session
    BY <2>6 DEF SnapshotValid, NextPc, Session
  <2> HIDE DEF h
  <2> QED BY <1>2, <2>6, <2>7, <2>10, <2>11, SessionStep
<1> QED BY <1>6, <1>7

LEMMA CollideIInv ==
  ASSUME IInv, NEW p \in Clients, Collide(p)
  PROVE  IInv'
<1> DEFINE s == session[p]
           r == Current(p)
           k == r.key
           fresh == At(p, "insert") /\ k \in NodeKeys \cup EdgeKeys /\ table[k] # NoRow
<1>1. s \in Upsert /\ UpsertValid(s)
  BY SessionKinds DEF IInv, Collide, Flushing, At, Upserting
<1>2. UNCHANGED <<table, snapVars, asked, log>> /\ asked' \in Nat
  BY DEF Collide, IInv, Types
<1>3. CASE ~fresh
  BY <1>2, <1>3, FailStep DEF Collide
<1>4. CASE fresh
  <2> DEFINE t == [s EXCEPT !.pc = NextPc(p), !.at = s.at + 1, !.first = s.at, !.held = {},
                     !.wrote = {}, !.read = [s.read EXCEPT ![k] = Len(log)],
                     !.seen = [Nothing EXCEPT ![k] = table[k]],
                     !.mine = [Nothing EXCEPT ![k] = r.cols]]
  <2>1. /\ s.pc = "insert" /\ s.batch \in Batches /\ s.at \in Nat \ {0} /\ s.at \in 1 .. Len(s.batch)
        /\ Len(s.batch) \in Nat /\ s.begun \in Nat /\ s.begun <= Len(log)
        /\ AnsweredSince(s.begun, k)
    BY <1>1, <1>4, BatchRows DEF At, Upsert, UpsertValid, Upserting, Current
  <2>2. r = s.batch[s.at] /\ k \in Keys /\ r.cols \in Contents
    <3>1. r = s.batch[s.at] /\ r \in RowSet
      BY <2>1, BatchRows DEF Current
    <3> QED BY <3>1 DEF RowSet
  <2>3. session' = [session EXCEPT ![p] = t]
    <3>1. session' = [session EXCEPT ![p] = Again(p, r, r.cols)]
      BY <1>4 DEF Collide
    <3>2. Again(p, r, r.cols) = t
      BY <1>1 DEF Again, Advance, Upsert
    <3> QED BY <3>1, <3>2
  <2>4. /\ t \in Upsert
        /\ t.pc = NextPc(p) /\ t.at = s.at + 1 /\ t.first = s.at /\ t.held = {} /\ t.wrote = {}
        /\ t.batch = s.batch /\ t.begun = s.begun /\ t.read = [s.read EXCEPT ![k] = Len(log)]
        /\ t.seen = [Nothing EXCEPT ![k] = table[k]] /\ t.mine = [Nothing EXCEPT ![k] = r.cols]
    <3>1. NextPc(p) \in Upserting /\ s.at + 1 \in Nat \ {0}
      BY <2>1 DEF NextPc, Upserting
    <3>2. [Nothing EXCEPT ![k] = table[k]] \in [Keys -> Held]
      BY DEF Nothing, Held, IInv, Types
    <3>3. [Nothing EXCEPT ![k] = r.cols] \in [Keys -> Held]
      BY <2>2 DEF Nothing, Held
    <3>4. [s.read EXCEPT ![k] = Len(log)] \in [Keys -> Nat]
      <4>1. s.read \in [Keys -> Nat] /\ Len(log) \in Nat
        BY <1>1 DEF Upsert, IInv, Types
      <4> QED BY <4>1
    <3> HIDE DEF k, r
    <3> QED BY <1>1, <2>1, <3>1, <3>2, <3>3, <3>4 DEF Upsert
  <2> HIDE DEF t
  <2>5. t.first .. t.at - 1 = {s.at} /\ s.at + 1 .. t.at - 1 = {}
    BY <2>1, <2>4
  <2>6. ASSUME NEW j \in Keys
        PROVE  t.read[j] <= Len(log) /\ RowValid(t, j)
    <3>3. t.read[j] <= Len(log)
      <4>1. s.read \in [Keys -> Nat] /\ s.read[j] <= Len(log) /\ Len(log) \in Nat
        BY <1>1 DEF UpsertValid, Upserting, Upsert, IInv, Types
      <4> QED BY <2>4, <4>1
    <3>1. CASE j = k
      <4>1. /\ t.mine[j] = r.cols /\ t.seen[j] = table[k] /\ t.seen[j] # NoRow /\ t.mine[j] # NoRow
            /\ table[j] # NoRow
        BY <1>4, <2>2, <2>4, <3>1 DEF Nothing
      <4>2. LastOf(t, j, s.at) /\ t.mine[j] = t.batch[s.at].cols
        BY <2>2, <2>4, <2>5, <3>1, <4>1 DEF LastOf
      <4>3. \A c \in Columns : ColumnValid(t, j, c)
        BY <3>1, <4>1 DEF ColumnValid
      <4> QED BY <2>5, <3>3, <4>1, <4>2, <4>3 DEF RowValid
    <3>2. CASE j # k
      <4>1. t.mine[j] = NoRow /\ t.seen[j] = NoRow /\ j \notin t.held
        BY <2>4, <3>2 DEF Nothing
      <4>2. \A n \in t.first .. t.at - 1 : t.batch[n].key # j
        BY <2>2, <2>4, <2>5, <3>2
      <4> QED BY <3>3, <4>1, <4>2 DEF RowValid
    <3> QED BY <3>1, <3>2
  <2>7. UpsertValid(t)
    <3>1. AnsweredSince(t.begun, t.batch[t.first].key)
      BY <2>1, <2>2, <2>4
    <3>2. t.first < t.at /\ t.first <= t.at
      BY <2>1, <2>4
    <3>3. /\ t.begun <= Len(log) /\ t.pc # "insert"
          /\ IF t.pc = "commit" THEN t.at = Len(t.batch) + 1 ELSE t.at <= Len(t.batch)
      BY <2>1, <2>4 DEF NextPc
    <3> QED BY <2>6, <3>1, <3>2, <3>3 DEF UpsertValid
  <2>8. SnapshotValid(t) /\ t.held = {}
    BY <2>4 DEF SnapshotValid, NextPc
  <2>9. UNCHANGED <<table, snapVars, log>>
    BY <1>2
  <2> QED BY <1>2, <2>3, <2>4, <2>7, <2>8, <2>9, SessionStep DEF Session
<1> QED BY <1>3, <1>4

\* What an upsert is to make of a row is what it is answered for.
LEMMA MineIsAsked ==
  ASSUME NEW s \in Upsert, s.pc = "commit", UpsertValid(s), NEW e,
         e = [batch |-> s.batch, first |-> s.first, read |-> s.read, begun |-> s.begun], NEW k \in Keys
  PROVE  /\ Upserted(e, k) <=> s.mine[k] # NoRow
         /\ \A c \in Columns : s.mine[k] # NoRow => AskedFor(e, k, c, s.mine[k][c])
<1>1. /\ s.at - 1 = Len(s.batch) /\ RowValid(s, k) /\ s.first \in Nat \ {0}
      /\ e.first = s.first /\ e.batch = s.batch /\ Len(s.batch) \in Nat
  BY BatchRows DEF UpsertValid, Upserting, Upsert
<1>2. CASE s.mine[k] = NoRow
  BY <1>1, <1>2 DEF RowValid, Upserted
<1>3. CASE s.mine[k] # NoRow
  <2>1. PICK n \in s.first .. s.at - 1 : LastOf(s, k, n) /\ s.mine[k] = s.batch[n].cols
    BY <1>1, <1>3 DEF RowValid
  <2>2. n \in 1 .. Len(e.batch) /\ LastKept(e, n) /\ e.batch[n].key = k
    BY <1>1, <2>1 DEF LastOf, LastKept
  <2> QED BY <1>1, <1>3, <2>1, <2>2 DEF Upserted, AskedFor, LastOf
<1> QED BY <1>2, <1>3

\* The commit of an upsert s, which logs the answer e.
Committing(s, e) ==
  /\ s \in Upsert /\ s.pc = "commit" /\ UpsertValid(s)
  /\ \A k \in Keys : s.mine[k] = s.seen[k]
  /\ e = [batch |-> s.batch, first |-> s.first, read |-> s.read, begun |-> s.begun] /\ e \in Answer
  /\ log \in Seq(Answer) /\ log' = Append(log, e)
  /\ table \in [Keys -> Held]
  /\ table' = [k \in Keys |->
       IF k \notin s.held THEN table[k]
       ELSE [c \in Columns |-> IF <<k, c>> \in s.wrote THEN s.seen[k][c] ELSE table[k][c]]]

LEMMA LogGrows ==
  ASSUME NEW s, NEW e, Committing(s, e)
  PROVE  /\ Len(log) \in Nat /\ Len(log') = Len(log) + 1
         /\ log' \in Seq(Answer) /\ log'[Len(log) + 1] = e
         /\ \A i \in 1 .. Len(log) : log'[i] = log[i] /\ log[i] \in Answer
<1>1. log \in Seq(Answer) /\ e \in Answer /\ log' = Append(log, e)
  BY DEF Committing
<1> QED BY <1>1

\* What the table has after it.
LEMMA Committed ==
  ASSUME NEW s, NEW e, Committing(s, e), NEW k \in Keys
  PROVE  /\ table' \in [Keys -> Held]
         /\ ~Upserted(e, k) => table'[k] = table[k]
         /\ Upserted(e, k) => table'[k] # NoRow
         /\ table[k] # NoRow => table'[k] # NoRow
         /\ \A c \in Columns :
              \/ Upserted(e, k) /\ AskedFor(e, k, c, table'[k][c])
              \/ /\ table'[k][c] = table[k][c]
                 /\ Upserted(e, k) => table[k] # NoRow /\ Overtaken(s.read[k], k, c)
<1>1. /\ s \in Upsert /\ s.pc = "commit" /\ UpsertValid(s)
      /\ \A j \in Keys : s.mine[j] = s.seen[j]
      /\ table \in [Keys -> Held]
      /\ table' = [j \in Keys |->
           IF j \notin s.held THEN table[j]
           ELSE [c \in Columns |-> IF <<j, c>> \in s.wrote THEN s.seen[j][c] ELSE table[j][c]]]
  BY DEF Committing
<1>2. ASSUME NEW j \in Keys
      PROVE  /\ RowValid(s, j) /\ s.seen[j] \in Held
             /\ Upserted(e, j) <=> s.mine[j] # NoRow
             /\ \A c \in Columns : s.mine[j] # NoRow => AskedFor(e, j, c, s.mine[j][c])
             /\ j \in s.held => s.mine[j] # NoRow
             /\ s.mine[j] # NoRow => (j \in s.held \/ table[j] # NoRow)
                                     /\ \A c \in Columns : ColumnValid(s, j, c)
  <2>1. RowValid(s, j) /\ s.seen[j] \in Held
    BY <1>1 DEF UpsertValid, Upserting, Upsert
  <2>2. e = [batch |-> s.batch, first |-> s.first, read |-> s.read, begun |-> s.begun]
    BY DEF Committing
  <2>3. /\ Upserted(e, j) <=> s.mine[j] # NoRow
        /\ \A c \in Columns : s.mine[j] # NoRow => AskedFor(e, j, c, s.mine[j][c])
    BY <1>1, <2>2, MineIsAsked
  <2> QED BY <2>1, <2>3 DEF RowValid
<1>3. ASSUME NEW j \in Keys, j \in s.held
      PROVE  /\ table'[j] \in Contents
             /\ \A c \in Columns :
                  table'[j][c] = IF <<j, c>> \in s.wrote THEN s.seen[j][c] ELSE table[j][c]
  <2>1. table'[j] = [c \in Columns |-> IF <<j, c>> \in s.wrote THEN s.seen[j][c] ELSE table[j][c]]
    BY <1>1, <1>3
  <2>2. s.seen[j] \in Contents
    BY <1>1, <1>2, <1>3 DEF Held
  <2>3. ASSUME NEW c \in Columns, <<j, c>> \notin s.wrote
        PROVE  table[j][c] \in Values
    <3>1. table[j] # NoRow
      BY <1>2, <1>3, <2>3 DEF ColumnValid
    <3>2. table[j] \in Contents
      BY <1>1, <3>1 DEF Held
    <3> QED BY <3>2 DEF Contents
  <2>4. \A c \in Columns : s.seen[j][c] \in Values
    BY <2>2 DEF Contents
  <2> QED BY <2>1, <2>3, <2>4 DEF Contents
<1>4. table' \in [Keys -> Held]
  <2>1. \A j \in Keys : table'[j] \in Held
    BY <1>1, <1>3 DEF Held
  <2>2. table' = [j \in Keys |-> table'[j]]
    BY <1>1
  <2> QED BY <2>1, <2>2
<1>5. k \notin s.held => table'[k] = table[k]
  BY <1>1
<1>6. k \in s.held => table'[k] # NoRow
  BY <1>3
<1>7. ASSUME NEW c \in Columns
      PROVE  \/ Upserted(e, k) /\ AskedFor(e, k, c, table'[k][c])
             \/ /\ table'[k][c] = table[k][c]
                /\ Upserted(e, k) => table[k] # NoRow /\ Overtaken(s.read[k], k, c)
  <2>1. CASE s.mine[k] = NoRow
    BY <1>2, <1>5, <2>1
  <2>2. CASE s.mine[k] # NoRow
    <3>1. ColumnValid(s, k, c) /\ Upserted(e, k) /\ AskedFor(e, k, c, s.mine[k][c])
      BY <1>2, <2>2
    <3>2. CASE k \in s.held /\ <<k, c>> \in s.wrote
      BY <1>1, <1>3, <3>1, <3>2
    <3>3. CASE ~(k \in s.held /\ <<k, c>> \in s.wrote)
      <4>1. table'[k][c] = table[k][c]
        BY <1>3, <1>5, <3>3
      <4>2. table[k] # NoRow /\ (s.seen[k][c] = table[k][c] \/ Overtaken(s.read[k], k, c))
        BY <3>1, <3>3 DEF ColumnValid
      <4> QED BY <1>1, <3>1, <4>1, <4>2
    <3> QED BY <3>2, <3>3
  <2> QED BY <2>1, <2>2
<1>8. /\ ~Upserted(e, k) => table'[k] = table[k]
      /\ Upserted(e, k) => table'[k] # NoRow
      /\ table[k] # NoRow => table'[k] # NoRow
  BY <1>2, <1>5, <1>6
<1> QED BY <1>4, <1>7, <1>8

\* The answer that is logged vouches for a column it asked for.
LEMMA NewWitness ==
  ASSUME NEW s, NEW e, Committing(s, e), NEW k, NEW c, NEW n, n = Len(log) + 1,
         AskedFor(e, k, c, table'[k][c])
  PROVE  Witness(n, k, c)'
<1>1. n \in Nat /\ Len(log') = n /\ log'[n] = e
  BY LogGrows
<1>2. n + 1 .. Len(log') = {}
  BY <1>1
<1> QED BY <1>1, <1>2 DEF Witness

\* An earlier one goes on to if the column is the same and the upsert that is
\* logged did not ask for the row or had read it before that answer.
LEMMA OldWitness ==
  ASSUME NEW s, NEW e, Committing(s, e), NEW k, NEW c, NEW i \in 1 .. Len(log),
         Witness(i, k, c), table'[k][c] = table[k][c],
         Upserted(e, k) => e.read[k] < i
  PROVE  Witness(i, k, c)'
<1>1. Len(log) \in Nat /\ Len(log') = Len(log) + 1 /\ log'[Len(log) + 1] = e
  BY LogGrows
<1>2. \A j \in 1 .. Len(log) : log'[j] = log[j]
  BY LogGrows
<1>3. AskedFor(log'[i], k, c, table'[k][c])
  BY <1>2 DEF Witness
<1>4. ASSUME NEW j \in i + 1 .. Len(log'), Upserted(log'[j], k)
      PROVE  log'[j].read[k] < i
  <2>1. CASE j \in 1 .. Len(log)
    <3>1. j \in i + 1 .. Len(log) /\ log'[j] = log[j]
      BY <1>1, <1>2, <2>1
    <3> QED BY <1>4, <3>1 DEF Witness
  <2>2. CASE j = Len(log) + 1
    BY <1>1, <1>4, <2>2
  <2> QED BY <1>1, <2>1, <2>2
<1> QED BY <1>3, <1>4 DEF Witness

\* Whoever vouches for a column before, somebody not earlier does after.
LEMMA Followed ==
  ASSUME NEW s, NEW e, Committing(s, e), NEW k \in Keys, NEW c \in Columns,
         NEW i \in 1 .. Len(log), Witness(i, k, c)
  PROVE  \E m \in i .. Len(log') : Witness(m, k, c)'
<1>1. /\ Len(log) \in Nat /\ Len(log') = Len(log) + 1
      /\ i \in Nat /\ i \in i .. Len(log')
  BY LogGrows
<1>2. CASE Upserted(e, k) /\ AskedFor(e, k, c, table'[k][c])
  <2>1. PICK n : n = Len(log) + 1
    OBVIOUS
  <2>2. Witness(n, k, c)'
    BY <1>2, <2>1, NewWitness
  <2>3. n \in i .. Len(log')
    BY <1>1, <2>1
  <2> QED BY <2>2, <2>3
<1>3. CASE /\ table'[k][c] = table[k][c]
           /\ Upserted(e, k) => table[k] # NoRow /\ Overtaken(s.read[k], k, c)
  <2>1. CASE Upserted(e, k) => e.read[k] < i
    <3>1. Witness(i, k, c)'
      BY <1>3, <2>1, OldWitness
    <3> QED BY <1>1, <3>1
  <2>2. CASE Upserted(e, k) /\ ~(e.read[k] < i)
    <3>1. PICK j \in s.read[k] + 1 .. Len(log) : Witness(j, k, c)
      BY <1>3, <2>2 DEF Overtaken
    <3>2. e.read = s.read /\ s.read[k] \in Nat
      BY DEF Committing, Upsert
    <3>3. j \in 1 .. Len(log) /\ j \in i .. Len(log') /\ e.read[k] < j
      BY <1>1, <2>2, <3>2
    <3>4. Witness(j, k, c)'
      BY <1>3, <3>1, <3>3, OldWitness
    <3> QED BY <3>3, <3>4
  <2> QED BY <2>1, <2>2
<1> QED BY <1>2, <1>3, Committed

\* An answer that is logged keeps what the other requests rely on.
LEMMA AnswerIsLogged ==
  ASSUME NEW s, NEW e, Committing(s, e), NEW q, NEW u \in Upsert, UpsertValid(u),
         session'[q] = u, u.held \cap s.held = {}
  PROVE  UpsertValid(session[q])'
<1>1. /\ Len(log) \in Nat /\ Len(log') = Len(log) + 1 /\ log'[Len(log) + 1] = e
      /\ u.begun \in Nat /\ u.begun <= Len(log)
  BY LogGrows DEF UpsertValid, Upsert
<1>2. \A i \in 1 .. Len(log) : log'[i] = log[i]
  BY LogGrows
<1>3. ASSUME NEW k, AnsweredSince(u.begun, k)
      PROVE  AnsweredSince(u.begun, k)'
  <2>1. PICK j \in u.begun + 1 .. Len(log) : Upserted(log[j], k)
    BY <1>3 DEF AnsweredSince
  <2>2. j \in u.begun + 1 .. Len(log') /\ Upserted(log'[j], k)
    BY <1>1, <1>2, <2>1
  <2> QED BY <2>2 DEF AnsweredSince
<1>4. ASSUME NEW k, Upserted(e, k)
      PROVE  AnsweredSince(u.begun, k)'
  <2>1. Len(log') \in u.begun + 1 .. Len(log') /\ Upserted(log'[Len(log')], k)
    BY <1>1, <1>4
  <2> QED BY <2>1 DEF AnsweredSince
<1>5. ASSUME NEW k \in Keys, NEW c \in Columns, table[k] # NoRow,
             u.seen[k][c] = table[k][c] \/ Overtaken(u.read[k], k, c)
      PROVE  table'[k] # NoRow /\ (u.seen[k][c] = table'[k][c] \/ Overtaken(u.read[k], k, c)')
  <2>1. table'[k] # NoRow /\ u.read[k] \in Nat /\ u.read[k] <= Len(log)
    BY <1>5, Committed DEF UpsertValid, Upsert
  <2>2. CASE Overtaken(u.read[k], k, c)
    <3>1. PICK i \in u.read[k] + 1 .. Len(log) : Witness(i, k, c)
      BY <2>2 DEF Overtaken
    <3>2. i \in 1 .. Len(log)
      BY <1>1, <2>1
    <3>3. PICK m \in i .. Len(log') : Witness(m, k, c)'
      BY <3>1, <3>2, Followed
    <3>4. m \in u.read[k] + 1 .. Len(log')
      BY <1>1, <2>1, <3>2
    <3> QED BY <2>1, <3>3, <3>4 DEF Overtaken
  <2>3. CASE u.seen[k][c] = table[k][c] /\ table'[k][c] # table[k][c]
    <3>1. AskedFor(e, k, c, table'[k][c])
      BY <2>3, Committed
    <3>2. PICK n : n = Len(log) + 1
      OBVIOUS
    <3>3. Witness(n, k, c)' /\ n \in u.read[k] + 1 .. Len(log')
      BY <1>1, <2>1, <3>1, <3>2, NewWitness
    <3> QED BY <2>1, <3>3 DEF Overtaken
  <2> QED BY <1>5, <2>1, <2>2, <2>3
<1>6. ASSUME NEW k \in Keys, RowValid(u, k)
      PROVE  RowValid(session[q], k)'
  <2>1. \A n : LastOf(u, k, n) => LastOf(session[q], k, n)'
    BY DEF LastOf
  <2>2. \A c \in Columns : ColumnValid(u, k, c) => ColumnValid(session[q], k, c)'
    BY <1>5 DEF ColumnValid
  <2>3. table[k] # NoRow => table'[k] # NoRow
    BY Committed
  <2> QED BY <1>6, <2>1, <2>2, <2>3 DEF RowValid
<1>7. /\ u.begun <= Len(log')
      /\ \A k \in Keys : u.read[k] <= Len(log') /\ RowValid(session[q], k)'
  <2>1. \A k \in Keys : u.read[k] \in Nat /\ u.read[k] <= Len(log) /\ RowValid(u, k)
    BY DEF UpsertValid, Upsert
  <2> QED BY <1>1, <1>6, <2>1
<1>8. ASSUME u.pc = "insert"
      PROVE  LET k == u.batch[u.at].key IN
             k \in NodeKeys \cup EdgeKeys /\ table'[k] # NoRow => AnsweredSince(u.begun, k)'
  <2>1. NodeKeys \cup EdgeKeys \subseteq Keys
    BY DEF Keys
  <2>2. LET k == u.batch[u.at].key IN
        k \in NodeKeys \cup EdgeKeys /\ table[k] # NoRow => AnsweredSince(u.begun, k)
    BY <1>8 DEF UpsertValid, Upserting
  <2>3. \A k \in Keys : table'[k] # NoRow => table[k] # NoRow \/ Upserted(e, k)
    BY Committed
  <2> QED BY <1>3, <1>4, <2>1, <2>2, <2>3
<1>9. u.first > 1 => u.first < u.at /\ AnsweredSince(u.begun, u.batch[u.first].key)'
  BY <1>3 DEF UpsertValid, Upsert
<1> QED BY <1>7, <1>8, <1>9 DEF UpsertValid, Upsert

LEMMA CommitUpsertIInv ==
  ASSUME IInv, NEW p \in Clients, CommitUpsert(p)
  PROVE  IInv'
<1>1. PICK s : s = session[p]
  OBVIOUS
<1>2. PICK e : e = [batch |-> s.batch, first |-> s.first, read |-> s.read, begun |-> s.begun]
  OBVIOUS
<1>3. s \in Upsert /\ s.pc = "commit" /\ UpsertValid(s) /\ Changed(p) = {}
  BY <1>1, SessionKinds DEF IInv, CommitUpsert, At, Upserting
<1>4. /\ log' = Append(log, e)
      /\ session' = [session EXCEPT ![p] = Idle]
      /\ commits' = commits /\ snapshot' = snapshot /\ tree' = tree /\ audits' = audits
      /\ events' = events /\ asked' = asked
  BY <1>1, <1>2 DEF CommitUpsert, snapVars
<1>5. Committing(s, e)
  <2>1. e \in Answer
    BY <1>2, <1>3 DEF Upsert, Answer
  <2>2. \A k \in Keys : s.mine[k] = s.seen[k]
    BY <1>1, <1>3 DEF Changed
  <2>3. table' = [k \in Keys |->
          IF k \notin s.held THEN table[k]
          ELSE [c \in Columns |-> IF <<k, c>> \in s.wrote THEN s.seen[k][c] ELSE table[k][c]]]
    BY <1>1 DEF CommitUpsert
  <2>4. table \in [Keys -> Held] /\ log \in Seq(Answer)
    BY DEF IInv, Types
  <2> QED BY <1>2, <1>3, <1>4, <2>1, <2>2, <2>3, <2>4 DEF Committing
<1>6. /\ session' \in [Clients -> Session] /\ session'[p] = Idle
      /\ \A q \in Clients : q # p => session'[q] = session[q]
  BY <1>4 DEF IInv, Types, Session
<1>7. /\ Len(log) \in Nat /\ Len(log') = Len(log) + 1 /\ log' \in Seq(Answer)
      /\ log'[Len(log) + 1] = e
  BY <1>5, LogGrows
<1>8. \A i \in 1 .. Len(log) : log'[i] = log[i] /\ log[i] \in Answer
  BY <1>5, LogGrows
<1>9. Types'
  <2>1. table' \in [Keys -> Held]
    <3>1. CASE Keys = {}
      BY <1>5, <3>1 DEF Committing
    <3>2. CASE Keys # {}
      BY <1>5, <3>2, Committed
    <3> QED BY <3>1, <3>2
  <2> QED BY <1>4, <1>6, <1>7, <2>1 DEF IInv, Types
<1>10. HeldApart'
  BY <1>6 DEF IInv, HeldApart, Idle
<1>11. AnsweredRowsKept'
  <2>1. ASSUME NEW i \in 1 .. Len(log'), log'[i].first > 1
        PROVE  \E j \in log'[i].begun + 1 .. i - 1 :
                 Upserted(log'[j], log'[i].batch[log'[i].first].key)
    <3>1. CASE i \in 1 .. Len(log)
      <4>1. log'[i] = log[i] /\ log[i].begun \in Nat
        BY <1>8, <3>1 DEF Answer
      <4>2. PICK j \in log[i].begun + 1 .. i - 1 :
              Upserted(log[j], log[i].batch[log[i].first].key)
        BY <2>1, <3>1, <4>1 DEF IInv, AnsweredRowsKept
      <4>3. j \in 1 .. Len(log)
        BY <1>7, <3>1, <4>1
      <4> QED BY <1>8, <4>1, <4>2, <4>3
    <3>2. CASE i = Len(log) + 1
      <4>1. log'[i] = e /\ s.begun \in Nat /\ s.first > 1
        BY <1>2, <1>3, <1>7, <2>1, <3>2 DEF Upsert
      <4>2. PICK j \in s.begun + 1 .. Len(log) : Upserted(log[j], s.batch[s.first].key)
        BY <1>3, <4>1 DEF UpsertValid, Upserting, AnsweredSince
      <4>3. j \in 1 .. Len(log) /\ i - 1 = Len(log)
        BY <1>7, <3>2, <4>1
      <4> QED BY <1>2, <1>8, <4>1, <4>2, <4>3
    <3> QED BY <1>7, <3>1, <3>2
  <2>2. ASSUME NEW k \in Keys, \A i \in 1 .. Len(log') : ~Upserted(log'[i], k)
        PROVE  table'[k] = NoRow
    <3>1. ~Upserted(e, k) /\ \A i \in 1 .. Len(log) : ~Upserted(log[i], k)
      BY <1>7, <1>8, <2>2
    <3>2. table[k] = NoRow
      BY <3>1 DEF IInv, AnsweredRowsKept
    <3> QED BY <1>5, <3>1, <3>2, Committed
  <2>3. ASSUME NEW k \in Keys, ~ \A i \in 1 .. Len(log') : ~Upserted(log'[i], k),
               NEW c \in Columns
        PROVE  \E i \in 1 .. Len(log') : Witness(i, k, c)'
    <3>1. CASE Upserted(e, k) /\ AskedFor(e, k, c, table'[k][c])
      <4>1. PICK n : n = Len(log) + 1
        OBVIOUS
      <4>2. Witness(n, k, c)' /\ n \in 1 .. Len(log')
        BY <1>5, <1>7, <3>1, <4>1, NewWitness
      <4> QED BY <4>2
    <3>2. CASE \E i \in 1 .. Len(log) : Witness(i, k, c)
      <4>1. PICK i \in 1 .. Len(log) : Witness(i, k, c)
        BY <3>2
      <4>2. PICK m \in i .. Len(log') : Witness(m, k, c)'
        BY <1>5, <4>1, Followed
      <4>3. m \in 1 .. Len(log')
        BY <1>7, <4>1, <4>2
      <4> QED BY <4>2, <4>3
    <3>3. CASE Upserted(e, k) /\ Overtaken(s.read[k], k, c)
      <4>1. s.read[k] \in Nat
        BY <1>3 DEF Upsert
      <4> QED BY <1>7, <3>2, <3>3, <4>1 DEF Overtaken
    <3>4. CASE ~Upserted(e, k)
      <4>1. \E i \in 1 .. Len(log) : Upserted(log[i], k)
        BY <1>7, <1>8, <2>3, <3>4
      <4> QED BY <3>2, <4>1 DEF IInv, AnsweredRowsKept, Witness
    <3> QED BY <1>5, <3>1, <3>3, <3>4, Committed
  <2> QED BY <2>1, <2>2, <2>3 DEF AnsweredRowsKept, Witness
<1>12. SnapshotToldOnce'
  BY <1>4 DEF IInv, SnapshotToldOnce
<1>13. ASSUME NEW q \in Clients
       PROVE  UpsertValid(session[q])' /\ SnapshotValid(session[q])'
  <2>1. CASE q = p
    BY <1>6, <2>1 DEF UpsertValid, SnapshotValid, Idle, Upserting
  <2>2. CASE q # p
    <3>1. PICK u : u = session[q]
      OBVIOUS
    <3>2. session'[q] = u /\ UpsertValid(u)
      BY <1>6, <2>2, <3>1 DEF IInv
    <3>3. SnapshotValid(session[q])'
      BY <1>4, <3>1, <3>2 DEF IInv, SnapshotValid
    <3>4. CASE u.pc \in Upserting
      <4>1. u \in Upsert /\ u.held \cap s.held = {}
        BY <1>1, <2>2, <3>1, <3>4, SessionKinds DEF IInv, HeldApart
      <4> QED BY <1>5, <3>2, <3>3, <4>1, AnswerIsLogged
    <3>5. CASE u.pc \notin Upserting
      BY <3>2, <3>3, <3>5 DEF UpsertValid
    <3> QED BY <3>4, <3>5
  <2> QED BY <2>1, <2>2
<1> QED BY <1>9, <1>10, <1>11, <1>12, <1>13 DEF IInv

--------------------------------------------------------------------------------
(* Snapshots *)

\* What a snapshot has read are rows of some keys.
LEMMA RowsRead ==
  ASSUME Types, NEW K \in SUBSET Keys
  PROVE  Rows(K) \in ReadRows
<1> DEFINE L == {j \in K : table[j] # NoRow}
<1>1. Rows(K) \in [L -> Contents] /\ L \in SUBSET Keys
  BY DEF Rows, Types, Held
<1> QED BY <1>1 DEF ReadRows

LEMMA BeginSnapshotIInv ==
  ASSUME IInv, NEW p \in Clients, BeginSnapshot(p)
  PROVE  IInv'
<1>1. asked \in Nat /\ commits \subseteq Commits
  BY DEF IInv, Types
<1>2. PICK c \in commits : Begin(p, Snapshot("check", c, {}))
  BY DEF BeginSnapshot
<1> DEFINE s == Snapshot("check", c, {})
<1>3. s \in Snapshots /\ s.pc = "check" /\ s.held = {}
  BY <1>1 DEF Snapshot, Snapshots, Snapshotting, ReadRows
<1>4. session' = [session EXCEPT ![p] = s] /\ asked' \in Nat
  BY <1>1, <1>2 DEF Begin
<1>5. UNCHANGED <<table, snapVars, log>>
  BY DEF BeginSnapshot
<1> HIDE DEF s
<1>6. UpsertValid(s) /\ SnapshotValid(s)
  BY <1>3 DEF UpsertValid, Upserting, SnapshotValid
<1> QED BY <1>3, <1>4, <1>5, <1>6, SessionStep DEF Session

LEMMA BeginCommitIInv ==
  ASSUME IInv, NEW p \in Clients, BeginCommit(p)
  PROVE  IInv'
<1>1. asked \in Nat
  BY DEF IInv, Types
<1>2. PICK c \in Commits \ commits, wanted \in BOOLEAN :
        /\ ~HeldElsewhere(p, c)
        /\ Begin(p, Snapshot(IF wanted THEN "check" ELSE "plain", c, {c}))
  BY DEF BeginCommit
<1> DEFINE s == Snapshot(IF wanted THEN "check" ELSE "plain", c, {c})
<1>3. s \in Snapshots /\ s.pc \in {"check", "plain"} /\ s.held = {c}
  BY <1>1 DEF Snapshot, Snapshots, Snapshotting, ReadRows
<1>4. session' = [session EXCEPT ![p] = s] /\ asked' \in Nat
  BY <1>1, <1>2 DEF Begin
<1>5. UNCHANGED <<table, snapVars, log>>
  BY DEF BeginCommit
<1> HIDE DEF s
<1>6. UpsertValid(s) /\ SnapshotValid(s)
  BY <1>3 DEF UpsertValid, Upserting, SnapshotValid
<1>7. \A q \in Clients : q # p => s.held \cap session[q].held = {}
  BY <1>2, <1>3 DEF HeldElsewhere
<1> QED BY <1>3, <1>4, <1>5, <1>6, <1>7, SessionStep DEF Session

LEMMA CheckSnapshotIInv ==
  ASSUME IInv, NEW p \in Clients, CheckSnapshot(p)
  PROVE  IInv'
<1> DEFINE s == session[p]
           t == [s EXCEPT !.pc = "nodes"]
<1>1. s \in Snapshots
  BY SessionKinds DEF IInv, CheckSnapshot, At, Snapshotting
<1>2. UNCHANGED <<table, snapVars, asked, log>>
  BY DEF CheckSnapshot
<1>3. CASE snapshot[s.commit] # None
  <2>1. Fail(p)
    BY <1>3 DEF CheckSnapshot, Fail
  <2> QED BY <1>2, <2>1, FailStep
<1>4. CASE snapshot[s.commit] = None
  <2>1. t \in Snapshots /\ t.pc = "nodes" /\ t.held = s.held
    BY <1>1 DEF Snapshots, Snapshotting
  <2>2. session' = [session EXCEPT ![p] = t]
    BY <1>4 DEF CheckSnapshot
  <2>3. \A q \in Clients : q # p => t.held \cap session[q].held = {}
    BY <2>1 DEF IInv, HeldApart
  <2>4. UpsertValid(t) /\ SnapshotValid(t)
    BY <2>1 DEF UpsertValid, Upserting, SnapshotValid
  <2>5. asked' \in Nat /\ UNCHANGED <<table, snapVars, log>>
    BY <1>2 DEF IInv, Types
  <2> HIDE DEF t
  <2> QED BY <2>1, <2>2, <2>3, <2>4, <2>5, SessionStep DEF Session
<1> QED BY <1>3, <1>4

LEMMA ReadNodesIInv ==
  ASSUME IInv, NEW p \in Clients, ReadNodes(p)
  PROVE  IInv'
<1> DEFINE s == session[p]
           t == [s EXCEPT !.nodes = Rows(NodeKeys), !.pc = "edges"]
<1>1. s \in Snapshots
  BY SessionKinds DEF IInv, ReadNodes, At, Snapshotting
<1>2. Rows(NodeKeys) \in ReadRows
  BY RowsRead DEF IInv, Keys
<1>3. t \in Snapshots /\ t.pc = "edges" /\ t.held = s.held
  BY <1>1, <1>2 DEF Snapshots, Snapshotting
<1>4. /\ session' = [session EXCEPT ![p] = t]
      /\ asked' \in Nat /\ UNCHANGED <<table, snapVars, log>>
  BY DEF ReadNodes, IInv, Types
<1>5. \A q \in Clients : q # p => t.held \cap session[q].held = {}
  BY <1>3 DEF IInv, HeldApart
<1> HIDE DEF t
<1>6. UpsertValid(t) /\ SnapshotValid(t)
  BY <1>3 DEF UpsertValid, Upserting, SnapshotValid
<1> QED BY <1>3, <1>4, <1>5, <1>6, SessionStep DEF Session

LEMMA ReadEdgesIInv ==
  ASSUME IInv, NEW p \in Clients, ReadEdges(p)
  PROVE  IInv'
<1> DEFINE s == session[p]
           t == [s EXCEPT !.edges = Rows(EdgeKeys), !.pc = "store"]
<1>1. s \in Snapshots
  BY SessionKinds DEF IInv, ReadEdges, At, Snapshotting
<1>2. Rows(EdgeKeys) \in ReadRows
  BY RowsRead DEF IInv, Keys
<1>3. t \in Snapshots /\ t.pc = "store" /\ t.held = s.held
  BY <1>1, <1>2 DEF Snapshots, Snapshotting
<1>4. /\ session' = [session EXCEPT ![p] = t]
      /\ asked' \in Nat /\ UNCHANGED <<table, snapVars, log>>
  BY DEF ReadEdges, IInv, Types
<1>5. \A q \in Clients : q # p => t.held \cap session[q].held = {}
  BY <1>3 DEF IInv, HeldApart
<1> HIDE DEF t
<1>6. UpsertValid(t) /\ SnapshotValid(t)
  BY <1>3 DEF UpsertValid, Upserting, SnapshotValid
<1> QED BY <1>3, <1>4, <1>5, <1>6, SessionStep DEF Session

LEMMA StoreSnapshotIInv ==
  ASSUME IInv, NEW p \in Clients, StoreSnapshot(p)
  PROVE  IInv'
<1> DEFINE s == session[p]
           there == snapshot[s.commit]
           t == [s EXCEPT !.pc = "finish", !.created = (there = None),
                          !.row = IF there = None THEN s.id ELSE there.by,
                          !.held = IF there = None THEN {s.commit} ELSE {}]
<1>1. s \in Snapshots /\ s.commit \in Commits /\ s.id \in Nat
  BY SessionKinds DEF IInv, StoreSnapshot, At, Snapshotting, Snapshots
<1>2. there.by \in Nat
  BY <1>1 DEF IInv, Types
<1>3. /\ t \in Snapshots /\ t.pc = "finish" /\ t.commit = s.commit /\ t.id = s.id
      /\ t.created = (there = None)
      /\ t.row = IF there = None THEN s.id ELSE there.by
      /\ t.held = IF there = None THEN {s.commit} ELSE {}
  BY <1>1, <1>2 DEF Snapshots, Snapshotting
<1>4. /\ session' = [session EXCEPT ![p] = t]
      /\ asked' \in Nat /\ UNCHANGED <<table, snapVars, log>>
  BY DEF StoreSnapshot, IInv, Types
<1>5. ~HeldElsewhere(p, s.commit)
  BY DEF StoreSnapshot
<1> HIDE DEF t
<1>6. \A q \in Clients : q # p => t.held \cap session[q].held = {}
  BY <1>3, <1>5 DEF HeldElsewhere
<1>7. UpsertValid(t) /\ SnapshotValid(t)
  BY <1>3 DEF UpsertValid, Upserting, SnapshotValid
<1> QED BY <1>3, <1>4, <1>6, <1>7, SessionStep DEF Session

\* The end of a request about a commit keeps the rows apart from it.
LEMMA RequestEnds ==
  ASSUME IInv, NEW p \in Clients, session' = [session EXCEPT ![p] = Idle],
         UNCHANGED <<table, asked, log>>, Types', SnapshotToldOnce',
         \A q \in Clients : q # p => SnapshotValid(session[q])'
  PROVE  IInv'
<1>1. /\ session'[p] = Idle
      /\ \A q \in Clients : q # p => session'[q] = session[q]
  BY DEF IInv, Types
<1>2. HeldApart'
  BY <1>1 DEF IInv, HeldApart, Idle
<1>3. AnsweredRowsKept'
  BY AnswersUnchanged DEF IInv
<1>4. ASSUME NEW q \in Clients
      PROVE  UpsertValid(session[q])' /\ SnapshotValid(session[q])'
  <2>1. PICK u : u = IF q = p THEN Idle ELSE session[q]
    OBVIOUS
  <2>2. UpsertValid(session[q])'
    <3>1. UpsertValid(u) /\ session'[q] = u
      BY <1>1, <2>1 DEF IInv, UpsertValid, Idle, Upserting
    <3> QED BY <3>1, ValidUnchanged
  <2>3. SnapshotValid(session[q])'
    BY <1>1 DEF SnapshotValid, Idle
  <2> QED BY <2>2, <2>3
<1> QED BY <1>2, <1>3, <1>4 DEF IInv

LEMMA FinishPlainCommitIInv ==
  ASSUME IInv, NEW p \in Clients, FinishPlainCommit(p)
  PROVE  IInv'
<1>1. session[p].commit \in Commits
  BY SessionKinds DEF IInv, FinishPlainCommit, At, Snapshotting, Snapshots
<1>2. /\ session' = [session EXCEPT ![p] = Idle] /\ commits' = commits \cup {session[p].commit}
      /\ UNCHANGED <<table, snapshot, tree, audits, events, asked, log>>
  BY DEF FinishPlainCommit
<1>3. Types'
  BY <1>1, <1>2 DEF IInv, Types, Session
<1>4. SnapshotToldOnce'
  BY <1>2 DEF IInv, SnapshotToldOnce
<1>5. ASSUME NEW q \in Clients, q # p
      PROVE  SnapshotValid(session[q])'
  <2>1. session'[q] = session[q]
    BY <1>2, <1>5 DEF IInv, Types
  <2> QED BY <1>2, <2>1 DEF IInv, SnapshotValid
<1> QED BY <1>2, <1>3, <1>4, <1>5, RequestEnds

LEMMA FinishSnapshotIInv ==
  ASSUME IInv, NEW p \in Clients, FinishSnapshot(p)
  PROVE  IInv'
<1> DEFINE s == session[p]
           c == s.commit
           new == [by |-> s.id, nodes |-> s.nodes, edges |-> s.edges]
           Told(d) == {i \in 1 .. Len(events) : events[i] = d}
<1>1. /\ s \in Snapshots /\ s.pc = "finish" /\ SnapshotValid(s)
      /\ c \in Commits /\ s.id \in Nat \ {0} /\ s.row \in Nat /\ s.created \in BOOLEAN
  BY SessionKinds DEF IInv, FinishSnapshot, At, Snapshotting, Snapshots
<1>2. /\ commits' = commits \cup {c}
      /\ snapshot' = IF s.created THEN [snapshot EXCEPT ![c] = new] ELSE snapshot
      /\ tree' = [tree EXCEPT ![c] = s.row]
      /\ audits' = audits \cup {<<c, s.row>>}
      /\ events' = IF s.created THEN Append(events, c) ELSE events
      /\ session' = [session EXCEPT ![p] = Idle]
      /\ UNCHANGED <<table, asked, log>>
  BY DEF FinishSnapshot
<1>3. /\ s.created => c \in s.held /\ s.row = s.id /\ snapshot[c] = None
      /\ ~s.created => snapshot[c] # None /\ s.row = snapshot[c].by
  BY <1>1 DEF SnapshotValid
<1>4. /\ DOMAIN snapshot = Commits
      /\ \A d \in Commits : snapshot[d].by \in Nat /\ (snapshot[d] = None <=> snapshot[d].by = 0)
      /\ tree \in [Commits -> Nat] /\ events \in Seq(Commits)
  BY DEF IInv, Types
<1>5. new.by = s.id /\ new # None
  <2>1. None.by = 0 /\ new.by = s.id
    BY DEF None
  <2> QED BY <1>1, <2>1
<1> HIDE DEF new
<1>6. /\ DOMAIN snapshot' = Commits
      /\ s.created => snapshot'[c] = new
      /\ ~s.created => snapshot'[c] = snapshot[c]
      /\ \A d \in Commits : d # c => snapshot'[d] = snapshot[d]
  BY <1>1, <1>2, <1>4
<1>7. snapshot'[c] # None /\ snapshot'[c].by = s.row
  BY <1>1, <1>3, <1>5, <1>6
<1>8. Types'
  <2>1. \A d \in Commits :
          snapshot'[d].by \in Nat /\ (snapshot'[d] = None <=> snapshot'[d].by = 0)
    <3>1. snapshot'[c].by # 0
      BY <1>1, <1>3, <1>4, <1>5, <1>6
    <3> QED BY <1>1, <1>4, <1>6, <1>7, <3>1
  <2>2. tree' \in [Commits -> Nat] /\ events' \in Seq(Commits)
    BY <1>1, <1>2, <1>4
  <2>3. session' \in [Clients -> Session]
    BY <1>2 DEF IInv, Types, Session
  <2>4. commits' \subseteq Commits
    BY <1>1, <1>2 DEF IInv, Types
  <2> QED BY <1>2, <1>6, <2>1, <2>2, <2>3, <2>4 DEF IInv, Types
<1>9. ASSUME NEW d \in Commits
      PROVE  /\ IsFiniteSet(Told(d))
             /\ Told(d)' = IF s.created /\ d = c THEN Told(d) \cup {Len(events) + 1} ELSE Told(d)
             /\ Len(events) + 1 \notin Told(d)
  <2>1. Len(events) \in Nat
    BY <1>4
  <2>2. IsFiniteSet(1 .. Len(events))
    BY <2>1, FS_Interval
  <2>3. Told(d) \in SUBSET (1 .. Len(events)) /\ Len(events) + 1 \notin 1 .. Len(events)
    BY <2>1
  <2>4. IsFiniteSet(Told(d))
    BY <2>2, <2>3, FS_Subset
  <2>5. CASE s.created
    <3>1. /\ Len(events') = Len(events) + 1 /\ events'[Len(events) + 1] = c
          /\ \A i \in 1 .. Len(events) : events'[i] = events[i]
      BY <1>1, <1>2, <1>4, <2>5
    <3> QED BY <2>1, <2>3, <2>4, <2>5, <3>1
  <2>6. CASE ~s.created
    BY <1>2, <2>3, <2>4, <2>6
  <2> QED BY <2>5, <2>6
<1>10. SnapshotToldOnce'
  <2> SUFFICES ASSUME NEW d \in Commits
               PROVE  /\ Cardinality(Told(d)') = IF snapshot'[d] = None THEN 0 ELSE 1
                      /\ tree'[d] = snapshot'[d].by
                      /\ {a \in audits' : a[1] = d}
                           = IF snapshot'[d] = None THEN {} ELSE {<<d, snapshot'[d].by>>}
    BY DEF SnapshotToldOnce
  <2>1. /\ Cardinality(Told(d)) = IF snapshot[d] = None THEN 0 ELSE 1
        /\ tree[d] = snapshot[d].by
        /\ {a \in audits : a[1] = d} = IF snapshot[d] = None THEN {} ELSE {<<d, snapshot[d].by>>}
    BY DEF IInv, SnapshotToldOnce
  <2>2. {a \in audits' : a[1] = d} = IF d = c THEN {a \in audits : a[1] = d} \cup {<<c, s.row>>}
                                    ELSE {a \in audits : a[1] = d}
    BY <1>2
  <2>3. CASE d # c
    <3>1. Told(d)' = Told(d)
      BY <1>9, <2>3
    <3>2. tree'[d] = tree[d] /\ snapshot'[d] = snapshot[d]
      BY <1>2, <1>4, <1>6, <2>3
    <3> HIDE DEF Told
    <3> QED BY <2>1, <2>2, <2>3, <3>1, <3>2
  <2>4. CASE d = c /\ s.created
    <3>1. Told(d)' = Told(d) \cup {Len(events) + 1} /\ Len(events) + 1 \notin Told(d)
      BY <1>9, <2>4
    <3>2. Cardinality(Told(d)) = 0
      BY <1>3, <2>1, <2>4
    <3>3. Cardinality(Told(d)') = 1
      <4> HIDE DEF Told
      <4>1. Cardinality(Told(d) \cup {Len(events) + 1}) = Cardinality(Told(d)) + 1
        BY <1>9, <3>1, FS_AddElement
      <4> QED BY <3>1, <3>2, <4>1
    <3>4. tree'[d] = s.row /\ snapshot'[d] # None /\ snapshot'[d].by = s.row
      BY <1>1, <1>2, <1>4, <1>7, <2>4
    <3>5. {a \in audits' : a[1] = d} = {<<d, s.row>>}
      BY <1>3, <2>1, <2>2, <2>4
    <3> QED BY <3>3, <3>4, <3>5
  <2>5. CASE d = c /\ ~s.created
    <3>1. Told(d)' = Told(d) /\ snapshot'[d] = snapshot[d]
      BY <1>6, <1>9, <2>5
    <3>2. snapshot[d] # None /\ tree'[d] = s.row /\ s.row = snapshot[d].by
      BY <1>1, <1>2, <1>3, <1>4, <2>5
    <3>3. {a \in audits' : a[1] = d} = {<<d, s.row>>}
      BY <2>1, <2>2, <2>5, <3>2
    <3> HIDE DEF Told
    <3> QED BY <2>1, <3>1, <3>2, <3>3
  <2> QED BY <1>1, <2>3, <2>4, <2>5
<1>11. ASSUME NEW q \in Clients, q # p
       PROVE  SnapshotValid(session[q])'
  <2>1. session'[q] = session[q] /\ SnapshotValid(session[q])
    BY <1>2, <1>11 DEF IInv, Types
  <2>2. CASE session[q].pc = "finish"
    <3> DEFINE u == session[q]
    <3>1. u.commit \in Commits /\ u.created \in BOOLEAN
      BY <2>2, SessionKinds DEF IInv, Snapshotting, Snapshots
    <3>2. ~(u.commit = c /\ s.created)
      <4>1. SUFFICES ASSUME u.commit = c, s.created
                     PROVE  FALSE
        OBVIOUS
      <4>2. u.created /\ c \in u.held
        BY <1>3, <2>1, <2>2, <4>1 DEF SnapshotValid
      <4>3. c \in s.held
        BY <1>3, <4>1
      <4> QED BY <1>11, <4>2, <4>3 DEF IInv, HeldApart
    <3>3. snapshot'[u.commit] = snapshot[u.commit]
      BY <1>6, <3>1, <3>2
    <3> QED BY <2>1, <2>2, <3>3 DEF SnapshotValid
  <2>3. CASE session[q].pc # "finish"
    BY <2>1, <2>3 DEF SnapshotValid
  <2> QED BY <2>2, <2>3
<1> QED BY <1>2, <1>8, <1>10, <1>11, RequestEnds

--------------------------------------------------------------------------------
(* Theorems *)

LEMMA InitIInv == Init => IInv
<1> SUFFICES ASSUME Init
             PROVE  IInv
  OBVIOUS
<1>1. /\ table = [k \in Keys |-> NoRow] /\ commits = {} /\ audits = {} /\ events = <<>> /\ log = <<>>
      /\ snapshot = [c \in Commits |-> None] /\ tree = [c \in Commits |-> 0]
      /\ session = [p \in Clients |-> Idle] /\ asked = 0
  BY DEF Init
<1>2. None.by = 0
  BY DEF None
<1>3. Types
  BY <1>1, <1>2 DEF Types, Session, Held
<1>4. HeldApart
  BY <1>1 DEF HeldApart, Idle
<1>5. AnsweredRowsKept
  BY <1>1 DEF AnsweredRowsKept
<1>6. SnapshotToldOnce
  <2>1. \A c : {i \in 1 .. Len(events) : events[i] = c} = {}
    BY <1>1
  <2>2. Cardinality({}) = 0
    BY FS_EmptySet
  <2> QED BY <1>1, <1>2, <2>1, <2>2 DEF SnapshotToldOnce
<1>7. \A p \in Clients : UpsertValid(session[p]) /\ SnapshotValid(session[p])
  BY <1>1 DEF UpsertValid, SnapshotValid, Idle, Upserting
<1> QED BY <1>3, <1>4, <1>5, <1>6, <1>7 DEF IInv

LEMMA NextIInv == IInv /\ [Next]_vars => IInv'
<1> SUFFICES ASSUME IInv, [Next]_vars
             PROVE  IInv'
  OBVIOUS
<1>1. CASE UNCHANGED vars
  <2>1. /\ UNCHANGED <<table, commits, snapshot, tree, audits, events, session, asked, log>>
    BY <1>1 DEF vars
  <2>4. Types' /\ HeldApart' /\ SnapshotToldOnce'
    <3>1. Types'
      BY <2>1 DEF IInv, Types
    <3>2. HeldApart'
      BY <2>1 DEF IInv, HeldApart
    <3>3. SnapshotToldOnce'
      BY <2>1 DEF IInv, SnapshotToldOnce
    <3> QED BY <3>1, <3>2, <3>3
  <2>5. AnsweredRowsKept'
    BY <2>1, AnswersUnchanged DEF IInv
  <2>6. ASSUME NEW p \in Clients
        PROVE  UpsertValid(session[p])' /\ SnapshotValid(session[p])'
    <3>1. PICK u : u = session[p]
      OBVIOUS
    <3>2. UpsertValid(u) /\ session'[p] = u
      BY <2>1, <3>1 DEF IInv
    <3>3. UpsertValid(session[p])'
      BY <2>1, <3>2, ValidUnchanged
    <3>4. SnapshotValid(session[p])'
      BY <2>1 DEF IInv, SnapshotValid
    <3> QED BY <3>3, <3>4
  <2> QED BY <2>4, <2>5, <2>6 DEF IInv
<1>2. ASSUME NEW p \in Clients,
             Step(p) \/ Crash(p) \/ BeginUpsert(p) \/ BeginSnapshot(p) \/ BeginCommit(p)
      PROVE  IInv'
  <2>1. CASE SelectRow(p) \/ Write(p) \/ Collide(p) \/ CommitUpsert(p) \/ BeginUpsert(p)
    BY <2>1, SelectRowIInv, WriteIInv, CollideIInv, CommitUpsertIInv, BeginUpsertIInv
  <2>2. CASE \/ BeginSnapshot(p) \/ BeginCommit(p) \/ CheckSnapshot(p) \/ ReadNodes(p)
             \/ ReadEdges(p) \/ StoreSnapshot(p) \/ FinishSnapshot(p) \/ FinishPlainCommit(p)
    BY <2>2, BeginSnapshotIInv, BeginCommitIInv, CheckSnapshotIInv, ReadNodesIInv,
       ReadEdgesIInv, StoreSnapshotIInv, FinishSnapshotIInv, FinishPlainCommitIInv
  <2>3. CASE Deadlock(p) \/ Crash(p)
    BY <2>3, FailStep DEF Deadlock, Crash
  <2> QED BY <1>2, <2>1, <2>2, <2>3 DEF Step
<1> QED BY <1>1, <1>2 DEF Next

LEMMA Invariance == Spec => []IInv
<1> QED BY InitIInv, NextIInv, PTL DEF Spec

\* Every table holds what its type says, and a request in flight has the
\* fields of its kind.
THEOREM TypeCorrect == Spec => []Types
<1>1. IInv => Types
  BY DEF IInv
<1> QED BY <1>1, Invariance, PTL

\* A row that upserts were answered for is there, and each of its columns holds
\* what one of them asked for that no upsert that read the row after its answer
\* has followed;
\* an upsert loses the rows of its batch before one that it lost an insertion of
\* to a request that committed meanwhile, and no others (upsert_nodes,
\* upsert_edges, create_component_identity, upsert_document).
THEOREM AnswersAreKept == Spec => []AnsweredRowsKept
<1>1. IInv => AnsweredRowsKept
  BY DEF IInv
<1> QED BY <1>1, Invariance, PTL

\* However many ask for the snapshot of a commit, it gets one and it is told
\* once; commit.tree and the audit log name that one (create_snapshot).
THEOREM OneSnapshotIsTold == Spec => []SnapshotToldOnce
<1>1. IInv => SnapshotToldOnce
  BY DEF IInv
<1> QED BY <1>1, Invariance, PTL

================================================================================
