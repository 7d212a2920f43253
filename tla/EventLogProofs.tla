----------------------------- MODULE EventLogProofs -----------------------------
(***************************************************************************)
(* Proofs about EventLog for any writers, pollers, keys, event_ids, page   *)
(* size and length of the sequence: a key is logged once, and whoever lets *)
(* event_ids be derived finds it there; an event is handed to a            *)
(* client once at most, and a poll passes over nothing it does not hand    *)
(* out.  That an event is handed out at all is a liveness property and     *)
(* left to TLC.                                                            *)
(***************************************************************************)
EXTENDS EventLog, Integers, FiniteSetTheorems, WellFoundedInduction, TLAPS

LEMMA Bounds == Limit \in Nat \ {0} /\ MaxSeq \in Nat
BY EventLogConstants

USE Bounds

--------------------------------------------------------------------------------
(* Least and greatest numbers *)

LEMMA LeastNumber ==
    ASSUME NEW T, T \subseteq Nat, T # {}
    PROVE  \E n \in T : \A m \in T : n <= m
<1>1. PICK n \in T : \A m \in T : ~ (<<m, n>> \in OpToRel(<, Nat))
  BY WFMin, NatLessThanWellFounded
<1>2. \A m \in T : ~ (m < n)
  BY <1>1 DEF OpToRel
<1>3. \A m \in T : n <= m
  BY <1>2
<1> QED BY <1>3

LEMMA GreatestNumber ==
    ASSUME NEW N \in Nat, NEW T, T \subseteq 1 .. N, T # {}
    PROVE  \E n \in T : \A m \in T : m <= n
<1> DEFINE Below == {N - n : n \in T}
<1>1. Below # {}
  OBVIOUS
<1>2. \A n \in T : N - n \in Nat
  OBVIOUS
<1>3. Below \subseteq Nat
  BY <1>2
<1>4. PICK b \in Below : \A c \in Below : b <= c
  BY <1>1, <1>3, LeastNumber
<1>5. PICK n \in T : b = N - n
  OBVIOUS
<1>6. \A m \in T : N - m \in Below
  OBVIOUS
<1>7. \A m \in T : N - n <= N - m
  BY <1>4, <1>5, <1>6
<1>8. \A m \in T : m <= n
  BY <1>7
<1> QED BY <1>8

--------------------------------------------------------------------------------
(* A page *)

\* What a poll makes of the rows after the cursor: the cursor moves forward, to
\* the last row of the page, and every row it moves over is in the page.
LEMMA PageCovers ==
    ASSUME TypeOK, NEW q \in Poller, After(q) # {}
    PROVE  LET last_row == CHOOSE n \in Page(q) : \A m \in Page(q) : m <= n
           IN  /\ last_row \in Page(q)
               /\ \A m \in Page(q) : m <= last_row
               /\ \A n \in After(q) : n <= last_row => n \in Page(q)
<1> DEFINE upto(n) == {m \in After(q) : m <= n}
           last_row == CHOOSE n \in Page(q) : \A m \in Page(q) : m <= n
<1>1. After(q) \subseteq 1 .. MaxSeq
  BY DEF After, Committed, Number
<1>2. IsFiniteSet(After(q))
  BY <1>1, FS_Interval, FS_Subset
<1>3. \A n : upto(n) \subseteq After(q) /\ IsFiniteSet(upto(n)) /\ Cardinality(upto(n)) \in Nat
  BY <1>2, FS_Subset, FS_CardinalityType
<1>4. PICK n0 \in After(q) : \A m \in After(q) : n0 <= m
  BY <1>1, LeastNumber
<1>5. upto(n0) = {n0}
  BY <1>1, <1>4
<1>6. Cardinality(upto(n0)) = 1
  BY <1>5, FS_Singleton
<1>7. n0 \in Page(q)
  BY <1>6 DEF Page
<1>8. Page(q) \subseteq 1 .. MaxSeq
  BY <1>1 DEF Page
<1>9. \E n \in Page(q) : \A m \in Page(q) : m <= n
  BY <1>7, <1>8, GreatestNumber
<1>10. last_row \in Page(q) /\ \A m \in Page(q) : m <= last_row
  BY <1>9
<1> HIDE DEF last_row
<1>11. ASSUME NEW n \in After(q), n <= last_row
       PROVE  n \in Page(q)
  <2>1. last_row \in 1 .. MaxSeq /\ n \in 1 .. MaxSeq
    BY <1>1, <1>8, <1>10
  <2>2. upto(n) \subseteq upto(last_row)
    BY <1>1, <1>11, <2>1
  <2>3. Cardinality(upto(n)) <= Cardinality(upto(last_row))
    BY <1>3, <2>2, FS_Subset
  <2>4. Cardinality(upto(last_row)) <= Limit
    BY <1>10 DEF Page
  <2>5. Cardinality(upto(n)) <= Limit
    BY <1>3, <2>3, <2>4
  <2> QED BY <2>5 DEF Page
<1> QED BY <1>10, <1>11 DEF last_row

--------------------------------------------------------------------------------
(* The inductive invariant *)

\* Open transactions have numbers of their own, taken and still without a row;
\* of the rows they have inserted none collides with one logged or another's.
TxnValid(w) ==
    txn[w] # Idle =>
        /\ txn[w].seq <= last
        /\ rows[txn[w].seq] = NoRow
        /\ \A v \in Writer \ {w} : txn[v] # Idle => txn[v].seq # txn[w].seq
        /\ txn[w].op = "inserted" =>
             /\ ~Logged(txn[w].row)
             /\ \A v \in Writer \ {w} :
                  txn[v].op = "inserted" => ~Collide(txn[v].row, txn[w].row)

TxnsValid == \A w \in Writer : TxnValid(w)

RowsTaken == \A n \in Committed : n <= last

IInv == TypeOK /\ TxnsValid /\ RowsTaken /\ PublishedOnce /\ HandedOnce

LEMMA TxnKinds ==
    ASSUME TypeOK, NEW w \in Writer
    PROVE  /\ txn[w] # Idle <=> txn[w].op \in {"numbered", "inserted"}
           /\ txn[w] # Idle => /\ txn[w] \in Inserting
                               /\ txn[w].row \in Row /\ txn[w].seq \in Number
           /\ Idle.op = "idle"
    BY DEF TypeOK, Idle, Inserting

LEMMA InitIInv == Init => IInv
<1> SUFFICES ASSUME Init PROVE IInv
  OBVIOUS
<1>1. Committed = {}
  BY DEF Init, Committed
<1> QED BY <1>1 DEF Init, IInv, TypeOK, TxnsValid, TxnValid, RowsTaken, PublishedOnce, HandedOnce,
                    Number, Idle

LEMMA TakeNumberIInv ==
    ASSUME IInv, NEW w \in Writer, NEW row \in Row, TakeNumber(w, row)
    PROVE  IInv'
<1> USE DEF IInv
<1> DEFINE t == [op |-> "numbered", row |-> row, seq |-> last + 1]
<1>1. /\ last' = last + 1 /\ last' \in Number /\ last + 1 \notin Committed
      /\ txn' = [txn EXCEPT ![w] = t]
      /\ UNCHANGED <<rows, done, cursor, got>>
  BY DEF TakeNumber, TypeOK, Number, RowsTaken, Committed
<1>2. t \in Inserting /\ t # Idle /\ t.op = "numbered" /\ t.seq = last + 1
  BY <1>1 DEF Inserting, Idle
<1> HIDE DEF t
<1>3. TypeOK'
  BY <1>1, <1>2 DEF TypeOK
<1>4. Committed' = Committed /\ \A x : Logged(x)' <=> Logged(x)
  BY <1>1 DEF Committed, Logged
<1>5. \A v \in Writer \ {w} : txn'[v] = txn[v]
  BY <1>1 DEF TypeOK
<1>6. txn'[w] = t
  BY <1>1 DEF TypeOK
<1>7. \A v \in Writer : txn[v] # Idle => txn[v].seq \in Number /\ txn[v].seq <= last
  BY TxnKinds DEF TxnsValid, TxnValid
<1>8. TxnsValid'
  BY <1>1, <1>2, <1>4, <1>5, <1>6, <1>7 DEF TxnsValid, TxnValid, TypeOK, Number, Committed
<1>9. RowsTaken'
  BY <1>1, <1>4 DEF RowsTaken, TypeOK, Number, Committed
<1>10. PublishedOnce' /\ HandedOnce'
  BY <1>1, <1>4 DEF PublishedOnce, HandedOnce
<1> QED BY <1>3, <1>8, <1>9, <1>10

LEMMA InsertIInv ==
    ASSUME IInv, NEW w \in Writer, Insert(w)
    PROVE  IInv'
<1> USE DEF IInv
<1>1. /\ txn' = [txn EXCEPT ![w].op = "inserted"]
      /\ UNCHANGED <<rows, last, done, cursor, got>>
      /\ txn[w] # Idle /\ ~Logged(txn[w].row)
      /\ \A v \in Writer : txn[v].op = "inserted" => ~Collide(txn[v].row, txn[w].row)
  BY TxnKinds DEF Insert
<1>2. /\ txn'[w] \in Inserting /\ txn'[w] # Idle
      /\ txn'[w].row = txn[w].row /\ txn'[w].seq = txn[w].seq
  BY <1>1, TxnKinds DEF TypeOK, Inserting, Idle
<1>3. \A v \in Writer \ {w} : txn'[v] = txn[v]
  BY <1>1 DEF TypeOK
<1>4. TypeOK'
  BY <1>1, <1>2, <1>3 DEF TypeOK
<1>5. Committed' = Committed /\ \A x : Logged(x)' <=> Logged(x)
  BY <1>1 DEF Committed, Logged
<1>6. TxnsValid'
  <2> SUFFICES ASSUME NEW v \in Writer, (txn[v] # Idle)'
               PROVE  TxnValid(v)'
    BY DEF TxnsValid, TxnValid
  <2>1. \A x, y : Collide(x, y) <=> Collide(y, x)
    BY DEF Collide
  <2>2. txn[v] # Idle /\ txn'[v].seq = txn[v].seq /\ txn'[v].row = txn[v].row
    BY <1>1, <1>2, <1>3
  <2>3. /\ txn[v].seq <= last /\ rows[txn[v].seq] = NoRow
        /\ \A u \in Writer \ {v} : txn[u] # Idle => txn[u].seq # txn[v].seq
    BY <2>2 DEF TxnsValid, TxnValid
  <2>4. \A u \in Writer \ {v} : txn'[u] # Idle => txn[u] # Idle /\ txn'[u].seq = txn[u].seq
    BY <1>1, <1>2, <1>3
  <2>5. CASE v = w
    <3>1. \A u \in Writer \ {v} : txn'[u] = txn[u]
      BY <1>3, <2>5
    <3> QED BY <1>1, <1>5, <2>2, <2>3, <2>4, <2>5, <3>1 DEF TxnValid
  <2>6. CASE v # w
    <3>1. txn'[v] = txn[v]
      BY <1>3, <2>6
    <3>2. txn[v].op = "inserted" =>
            /\ ~Logged(txn[v].row)
            /\ \A u \in Writer \ {v} : txn[u].op = "inserted" => ~Collide(txn[u].row, txn[v].row)
      BY <2>2 DEF TxnsValid, TxnValid
    <3>3. txn[v].op = "inserted" => ~Collide(txn'[w].row, txn[v].row)
      BY <1>1, <1>2, <2>1
    <3>4. \A u \in Writer \ {v, w} : txn'[u] = txn[u]
      BY <1>3
    <3> QED BY <1>1, <1>5, <2>2, <2>3, <2>4, <3>1, <3>2, <3>3, <3>4 DEF TxnValid
  <2> QED BY <2>5, <2>6
<1>7. RowsTaken' /\ PublishedOnce' /\ HandedOnce'
  BY <1>1, <1>5 DEF RowsTaken, PublishedOnce, HandedOnce
<1> QED BY <1>4, <1>6, <1>7

\* A transaction ends without a row; it may be known to collide with a logged one.
LEMMA ForgetIInv ==
    ASSUME IInv, NEW w \in Writer,
           txn' = [txn EXCEPT ![w] = Idle],
           UNCHANGED <<rows, last, cursor, got>>,
           \/ done' = done
           \/ Logged(txn[w].row) /\ txn[w].row \in Row /\ done' = done \cup {txn[w].row}
    PROVE  IInv'
<1> USE DEF IInv
<1>1. txn'[w] = Idle /\ \A v \in Writer \ {w} : txn'[v] = txn[v]
  BY DEF TypeOK
<1>2. TypeOK'
  BY <1>1 DEF TypeOK
<1>3. Committed' = Committed /\ \A x : Logged(x)' <=> Logged(x)
  BY DEF Committed, Logged
<1>4. TxnsValid'
  BY <1>1, <1>3, TxnKinds DEF TxnsValid, TxnValid
<1>5. RowsTaken' /\ PublishedOnce' /\ HandedOnce'
  BY <1>3 DEF RowsTaken, PublishedOnce, HandedOnce
<1> QED BY <1>2, <1>4, <1>5

LEMMA CommitIInv ==
    ASSUME IInv, NEW w \in Writer, Commit(w)
    PROVE  IInv'
<1> USE DEF IInv
<1> DEFINE s == txn[w].seq
           k == txn[w].row
<1>1. /\ rows' = [rows EXCEPT ![s] = k]
      /\ txn' = [txn EXCEPT ![w] = Idle]
      /\ done' = done \cup {k}
      /\ UNCHANGED <<last, cursor, got>>
      /\ txn[w] # Idle /\ txn[w].op = "inserted"
  BY TxnKinds DEF Commit
<1>2. /\ s \in Number /\ k \in Row /\ k # NoRow
      /\ s <= last /\ rows[s] = NoRow /\ ~Logged(k)
      /\ \A v \in Writer \ {w} : txn[v] # Idle => txn[v].seq # s
      /\ \A v \in Writer \ {w} : txn[v].op = "inserted" => ~Collide(txn[v].row, k)
  BY <1>1, TxnKinds, EventLogConstants DEF TxnsValid, TxnValid, Row
<1> HIDE DEF s, k
<1>3. txn'[w] = Idle /\ \A v \in Writer \ {w} : txn'[v] = txn[v]
  BY <1>1 DEF TypeOK
<1>4. rows'[s] = k /\ \A n \in Number \ {s} : rows'[n] = rows[n]
  BY <1>1, <1>2 DEF TypeOK
<1>5. TypeOK'
  BY <1>1, <1>2 DEF TypeOK
<1>6. /\ Committed' = Committed \cup {s} /\ s \notin Committed
      /\ \A x : Logged(x)' <=> Logged(x) \/ Collide(k, x)
  <2>1. Committed' = Committed \cup {s} /\ s \notin Committed
    <3>1. k # NoRow
      BY <1>2
    <3>2. rows'[s] # NoRow /\ rows[s] = NoRow /\ s \in Number
      BY <1>2, <1>4, <3>1
    <3> QED BY <1>4, <3>2 DEF Committed
  <2>2. \A n \in Committed : rows'[n] = rows[n]
    BY <1>4, <2>1 DEF Committed
  <2> QED BY <1>4, <2>1, <2>2 DEF Logged
<1>7. TxnsValid'
  <2> SUFFICES ASSUME NEW v \in Writer, (txn[v] # Idle)'
               PROVE  TxnValid(v)'
    BY DEF TxnsValid, TxnValid
  <2>1. v # w /\ txn'[v] = txn[v] /\ txn[v].seq \in Number
    BY <1>3, TxnKinds
  <2>2. \A u \in Writer \ {v} : txn'[u] # Idle => txn'[u] = txn[u]
    BY <1>3
  <2>3. Idle.op # "inserted"
    BY DEF Idle
  <2>4. txn[v].op = "inserted" => ~Collide(k, txn[v].row)
    BY <1>2, <2>1 DEF Collide
  <2>5. rows'[txn[v].seq] = NoRow
    BY <1>2, <1>4, <2>1 DEF TxnsValid, TxnValid
  <2>6. txn[v].op = "inserted" => ~Logged(txn[v].row)'
    BY <1>6, <2>1, <2>4 DEF TxnsValid, TxnValid
  <2>7. \A u \in Writer \ {v} : txn'[u].op = "inserted" => txn'[u] = txn[u]
    BY <1>3, <2>3
  <2>8. /\ txn[v].seq <= last
        /\ \A u \in Writer \ {v} : txn[u] # Idle => txn[u].seq # txn[v].seq
        /\ \A u \in Writer \ {v} :
             txn[v].op = "inserted" /\ txn[u].op = "inserted" => ~Collide(txn[u].row, txn[v].row)
    BY <2>1 DEF TxnsValid, TxnValid
  <2> QED BY <1>1, <2>1, <2>2, <2>5, <2>6, <2>7, <2>8 DEF TxnValid
<1>8. RowsTaken'
  BY <1>1, <1>2, <1>6 DEF RowsTaken
<1>9. PublishedOnce'
  <2>1. \A n \in Committed : ~Collide(rows[n], k) /\ ~Collide(k, rows[n])
    BY <1>2 DEF Committed, Logged, Collide
  <2>2. \A n, m \in Committed' : Collide(rows'[n], rows'[m]) => n = m
    BY <1>4, <1>6, <2>1 DEF PublishedOnce, Committed
  <2>3. \A x \in done' : Logged(x)'
    BY <1>1, <1>2, <1>6 DEF PublishedOnce, Collide
  <2> QED BY <2>2, <2>3 DEF PublishedOnce
<1>10. HandedOnce'
  <2> SUFFICES ASSUME NEW q \in Poller, NEW n \in Number
               PROVE  got[q][n] <= IF n \in Committed' /\ n <= cursor[q] THEN 1 ELSE 0
    BY <1>1 DEF HandedOnce
  <2>1. got[q][n] <= IF n \in Committed /\ n <= cursor[q] THEN 1 ELSE 0
    BY DEF HandedOnce
  <2>2. got[q][n] \in Nat
    BY DEF TypeOK
  <2> QED BY <1>6, <2>1, <2>2
<1> QED BY <1>5, <1>7, <1>8, <1>9, <1>10

\* What a poll does, apart from how the page is cut.
LEMMA PollCases ==
    ASSUME IInv, NEW q \in Poller, Poll(q)
    PROVE  /\ cursor'[q] \in Page(q) /\ cursor[q] < cursor'[q]
           /\ \A n \in Page(q) : n \in Committed /\ cursor[q] < n /\ n <= cursor'[q]
           /\ \A n \in Committed : cursor[q] < n /\ n <= cursor'[q] => n \in Page(q)
           /\ \A n \in Number : got'[q][n] = IF n \in Page(q) THEN got[q][n] + 1 ELSE got[q][n]
           /\ \A p \in Poller \ {q} : cursor'[p] = cursor[p] /\ got'[p] = got[p]
<1> DEFINE last_row == CHOOSE n \in Page(q) : \A m \in Page(q) : m <= n
<1>1. /\ cursor' = [cursor EXCEPT ![q] = last_row]
      /\ got' = [got EXCEPT ![q] = [n \in Number |->
                                      IF n \in Page(q) THEN @[n] + 1 ELSE @[n]]]
      /\ After(q) # {}
  BY DEF Poll
<1>2. /\ last_row \in Page(q)
      /\ \A m \in Page(q) : m <= last_row
      /\ \A n \in After(q) : n <= last_row => n \in Page(q)
  BY <1>1, PageCovers DEF IInv
<1> HIDE DEF last_row
<1>3. cursor'[q] = last_row
  BY <1>1 DEF IInv, TypeOK
<1>4. \A n \in Page(q) : n \in Committed /\ cursor[q] < n
  BY DEF Page, After
<1>5. \A n \in Number : got'[q][n] = IF n \in Page(q) THEN got[q][n] + 1 ELSE got[q][n]
  BY <1>1 DEF IInv, TypeOK
<1>6. \A p \in Poller \ {q} : cursor'[p] = cursor[p] /\ got'[p] = got[p]
  BY <1>1 DEF IInv, TypeOK
<1>7. \A n \in Committed : cursor[q] < n /\ n <= cursor'[q] => n \in Page(q)
  BY <1>2, <1>3 DEF After
<1> QED BY <1>2, <1>3, <1>4, <1>5, <1>6, <1>7

LEMMA PollIInv ==
    ASSUME IInv, NEW q \in Poller, Poll(q)
    PROVE  IInv'
<1> USE DEF IInv
<1>1. UNCHANGED <<rows, last, txn, done>>
  BY DEF Poll
<1>2. Committed' = Committed /\ (\A x : Logged(x)' <=> Logged(x)) /\ Committed \subseteq Number
  BY <1>1 DEF Committed, Logged
<1>3. TypeOK'
  <2>1. cursor' \in [Poller -> Number \cup {0}]
    <3> DEFINE last_row == CHOOSE n \in Page(q) : \A m \in Page(q) : m <= n
    <3>1. cursor' = [cursor EXCEPT ![q] = last_row]
      BY DEF Poll
    <3> HIDE DEF last_row
    <3>2. cursor'[q] = last_row
      BY <3>1 DEF TypeOK
    <3>3. last_row \in Number
      BY <1>2, <3>2, PollCases
    <3> QED BY <3>1, <3>3 DEF TypeOK
  <2>2. got' \in [Poller -> [Number -> Nat]]
    BY DEF Poll, TypeOK
  <2> QED BY <1>1, <2>1, <2>2 DEF TypeOK
<1>4. TxnsValid' /\ RowsTaken' /\ PublishedOnce'
  BY <1>1, <1>2 DEF TxnsValid, TxnValid, RowsTaken, PublishedOnce
<1>5. HandedOnce'
  <2> SUFFICES ASSUME NEW p \in Poller, NEW n \in Number
               PROVE  got'[p][n] <= IF n \in Committed /\ n <= cursor'[p] THEN 1 ELSE 0
    BY <1>2 DEF HandedOnce
  <2>1. got[p][n] \in Nat /\ got[p][n] <= IF n \in Committed /\ n <= cursor[p] THEN 1 ELSE 0
    BY DEF HandedOnce, TypeOK
  <2>2. n \in Nat /\ cursor[q] \in Nat /\ cursor'[q] \in Nat
    BY <1>3 DEF TypeOK, Number
  <2>3. CASE p # q
    BY <2>1, <2>3, PollCases
  <2>4. CASE p = q /\ n \in Page(q)
    BY <2>1, <2>2, <2>4, PollCases
  <2>5. CASE p = q /\ n \notin Page(q)
    BY <2>1, <2>2, <2>5, PollCases
  <2> QED BY <2>3, <2>4, <2>5
<1> QED BY <1>3, <1>4, <1>5

LEMMA NextIInv == IInv /\ [Next]_vars => IInv'
<1> SUFFICES ASSUME IInv, [Next]_vars PROVE IInv'
  OBVIOUS
<1>1. ASSUME NEW w \in Writer, NEW row \in Row, TakeNumber(w, row) PROVE IInv'
  BY <1>1, TakeNumberIInv
<1>2. ASSUME NEW w \in Writer, Insert(w) PROVE IInv'
  BY <1>2, InsertIInv
<1>3. ASSUME NEW w \in Writer, Dedupe(w) PROVE IInv'
  <2>1. txn[w].row \in Row
    BY <1>3, TxnKinds DEF Dedupe, IInv
  <2> QED BY <1>3, <2>1, ForgetIInv DEF Dedupe
<1>4. ASSUME NEW w \in Writer, Commit(w) PROVE IInv'
  BY <1>4, CommitIInv
<1>5. ASSUME NEW w \in Writer, Abort(w) PROVE IInv'
  BY <1>5, ForgetIInv DEF Abort
<1>6. ASSUME NEW q \in Poller, Poll(q) PROVE IInv'
  BY <1>6, PollIInv
<1>7. CASE UNCHANGED vars
  BY <1>7 DEF vars, IInv, TypeOK, TxnsValid, TxnValid, RowsTaken, PublishedOnce, HandedOnce,
              TxnValid, Committed, Logged
<1> QED BY <1>1, <1>2, <1>3, <1>4, <1>5, <1>6, <1>7 DEF Next

LEMMA Invariant == Spec => []IInv
BY InitIInv, NextIInv, PTL DEF Spec

--------------------------------------------------------------------------------
(* The theorems *)

\* The log, the sequence, open transactions and the clients' cursors have their
\* types (events.py).
THEOREM TypeCorrect == Spec => []TypeOK
<1>1. IInv => TypeOK
  BY DEF IInv
<1> QED BY <1>1, Invariant, PTL

\* Whatever races, a key and an event_id have one row at most, and whoever was told
\* that an event is published finds one of the two in the log (publish, the UNIQUE
\* constraints behind it).
THEOREM KeysPublishedOnce == Spec => []PublishedOnce
<1>1. IInv => PublishedOnce
  BY DEF IInv
<1> QED BY <1>1, Invariant, PTL

\* When no client chooses an event_id, as no publisher of the API itself does
\* (event_emission.py), whoever was told that an event is published finds its key
\* in the log.
THEOREM DerivedKeysLogged ==
    ASSUME Chosen = {}
    PROVE  Spec => []KeysLogged
<1>1. IInv => KeysLogged
  <2> SUFFICES ASSUME IInv, NEW row \in done
               PROVE  \E n \in Committed : rows[n].key = row.key
    BY DEF KeysLogged
  <2>1. PICK n \in Committed : Collide(rows[n], row)
    BY DEF IInv, PublishedOnce, Logged
  <2>2. rows[n] \in Row /\ row \in Row
    BY DEF IInv, TypeOK, Committed
  <2>3. /\ rows[n].key \in Key /\ row.key \in Key
        /\ rows[n].id = IdOf[rows[n].key] /\ row.id = IdOf[row.key]
    BY <2>2 DEF Row
  <2>4. rows[n].key = row.key
    BY <2>1, <2>3, EventLogConstants DEF Collide
  <2> QED BY <2>4
<1> QED BY <1>1, Invariant, PTL

\* Whatever is published while a client polls, it is handed an event once at most
\* (poll_events).
THEOREM EventsHandedOnce == Spec => []HandedOnce
<1>1. IInv => HandedOnce
  BY DEF IInv
<1> QED BY <1>1, Invariant, PTL

\* A poll moves its client's cursor over no committed row that is not in the page
\* it answers, whatever the limit (poll_events).
THEOREM PollsStepOverNothing == Spec => NoneSteppedOver
<1>1. ASSUME IInv, [Next]_vars
      PROVE  [\A q \in Poller, n \in Committed :
                cursor[q] < n /\ n <= cursor'[q] => got'[q][n] = got[q][n] + 1]_vars
  <2> SUFFICES ASSUME NEW q \in Poller, NEW n \in Committed,
                      cursor[q] < n, n <= cursor'[q], Next
               PROVE  got'[q][n] = got[q][n] + 1
    BY <1>1
  <2>1. n \in Number /\ cursor[q] \in Nat /\ n \in Nat
    BY <1>1 DEF IInv, TypeOK, Number, Committed
  <2>2. cursor'[q] # cursor[q]
    BY <2>1
  <2>3. PICK p \in Poller : Poll(p)
    BY <2>2 DEF Next, TakeNumber, Insert, Dedupe, Commit, Abort
  <2>4. p = q
    BY <1>1, <2>2, <2>3, PollCases
  <2>5. n \in Page(q)
    BY <1>1, <2>3, <2>4, PollCases
  <2> QED BY <1>1, <2>1, <2>3, <2>4, <2>5, PollCases
<1> QED BY <1>1, Invariant, PTL DEF Spec, NoneSteppedOver

================================================================================
