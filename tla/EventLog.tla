-------------------------------- MODULE EventLog --------------------------------
(***************************************************************************)
(* The event log of a project: transactions that publish events            *)
(* (api/app/services/events.py) and clients that poll for them with a      *)
(* cursor (api/app/routers/events.py).                                     *)
(*                                                                         *)
(* An INSERT takes the next number of the sequence behind event_log.seq    *)
(* when it runs; its row is seen by others when its transaction commits,   *)
(* in whatever order transactions do.  A row is unique by its key and, in  *)
(* the whole table, by its event_id, which is derived from the key unless  *)
(* a client of POST /v1/events/publish chooses it.  An INSERT that repeats *)
(* the key or the event_id of another open transaction waits for it.       *)
(***************************************************************************)
EXTENDS Naturals, FiniteSets

CONSTANTS
    Writer,  \* requests and parse workers that publish
    Poller,  \* clients that poll
    Key,     \* (event_type, dedupe_key) of the events
    Id,      \* event_id
    IdOf,    \* deterministic_event_id, of each key
    Chosen,  \* the event_ids that clients send along
    NoRow,   \* no row has this number
    Limit,   \* the poll's limit
    MaxSeq   \* bound: the sequence

ASSUME EventLogConstants ==
    /\ IdOf \in [Key -> Id]
    /\ \A j, k \in Key : IdOf[j] = IdOf[k] => j = k
    /\ Chosen \subseteq Id
    /\ NoRow \notin [key : Key, id : Id]
    /\ Limit \in Nat \ {0}
    /\ MaxSeq \in Nat

Number == 1 .. MaxSeq

VARIABLES
    rows,   \* event_log as committed: the row of each number
    last,   \* the last number taken
    txn,    \* each writer's open transaction
    done,   \* the key and event_id of each publish request that succeeded
    cursor, \* each client's next_cursor
    got     \* how often each client has been handed each number

vars == <<rows, last, txn, done, cursor, got>>

\* A row to publish: `event_id or deterministic_event_id(...)`.
Row == {row \in [key : Key, id : Id] : row.id \in Chosen \cup {IdOf[row.key]}}

Idle == [op |-> "idle"]
Inserting == [op : {"numbered", "inserted"}, row : Row, seq : Number]

TypeOK ==
    /\ rows \in [Number -> Row \cup {NoRow}]
    /\ last \in Number \cup {0}
    /\ txn \in [Writer -> {Idle} \cup Inserting]
    /\ done \subseteq Row
    /\ cursor \in [Poller -> Number \cup {0}]
    /\ got \in [Poller -> [Number -> Nat]]

Committed == {n \in Number : rows[n] # NoRow}

\* Either UNIQUE constraint tells the two rows apart no more.
Collide(s, t) == s.key = t.key \/ s.id = t.id

\* A committed row has the key or the event_id of this one.
Logged(row) == \E n \in Committed : Collide(rows[n], row)

--------------------------------------------------------------------------------
\* publish: the INSERT takes its number ...
TakeNumber(w, row) ==
    /\ txn[w] = Idle
    /\ last < MaxSeq
    /\ last' = last + 1
    /\ txn' = [txn EXCEPT ![w] = [op |-> "numbered", row |-> row, seq |-> last + 1]]
    /\ UNCHANGED <<rows, done, cursor, got>>

\* ... and goes through when it collides with no row, committed or not.
Insert(w) ==
    /\ txn[w].op = "numbered"
    /\ ~Logged(txn[w].row)
    /\ \A v \in Writer : txn[v].op = "inserted" => ~Collide(txn[v].row, txn[w].row)
    /\ txn' = [txn EXCEPT ![w].op = "inserted"]
    /\ UNCHANGED <<rows, last, done, cursor, got>>

\* Mutant: the row of a transaction still open counts as logged.
DedupeUncommitted(w) ==
    /\ txn[w].op = "numbered"
    /\ \/ Logged(txn[w].row)
       \/ \E v \in Writer : txn[v].op = "inserted" /\ Collide(txn[v].row, txn[w].row)
    /\ txn' = [txn EXCEPT ![w] = Idle]
    /\ done' = done \cup {txn[w].row}
    /\ UNCHANGED <<rows, last, cursor, got>>

\* A row collides: the transaction is rolled back, and the row, looked for by
\* event_id and then by key, answers the request as a duplicate.
Dedupe(w) ==
    /\ txn[w].op = "numbered"
    /\ Logged(txn[w].row)
    /\ txn' = [txn EXCEPT ![w] = Idle]
    /\ done' = done \cup {txn[w].row}
    /\ UNCHANGED <<rows, last, cursor, got>>

\* The router's db.commit().
Commit(w) ==
    /\ txn[w].op = "inserted"
    /\ rows' = [rows EXCEPT ![txn[w].seq] = txn[w].row]
    /\ txn' = [txn EXCEPT ![w] = Idle]
    /\ done' = done \cup {txn[w].row}
    /\ UNCHANGED <<last, cursor, got>>

\* The transaction is rolled back; its number is not given out again.
Abort(w) ==
    /\ txn[w] # Idle
    /\ txn' = [txn EXCEPT ![w] = Idle]
    /\ UNCHANGED <<rows, last, done, cursor, got>>

--------------------------------------------------------------------------------
\* poll: the first Limit rows after the cursor, by number.
After(q) == {n \in Committed : n > cursor[q]}
Page(q) == {n \in After(q) : Cardinality({m \in After(q) : m <= n}) <= Limit}

\* Mutant: the row fetched only to see whether there are more counts as read.
PollPastPage(q) ==
    /\ After(q) # {}
    /\ cursor' = [cursor EXCEPT ![q] =
           CHOOSE n \in After(q) :
               /\ Cardinality({m \in After(q) : m <= n}) <= Limit + 1
               /\ \A m \in After(q) : m > n => Cardinality({l \in After(q) : l <= m}) > Limit + 1]
    /\ got' = [got EXCEPT ![q] = [n \in Number |-> IF n \in Page(q) THEN @[n] + 1 ELSE @[n]]]
    /\ UNCHANGED <<rows, last, txn, done>>

\* Mutant: the page starts at the cursor, not after it.
PollFromCursor(q) ==
    /\ After(q) # {}
    /\ cursor' = [cursor EXCEPT ![q] = CHOOSE n \in Page(q) : \A m \in Page(q) : m <= n]
    /\ got' = [got EXCEPT ![q] =
           [n \in Number |-> IF n \in Page(q) \cup ({cursor[q]} \cap Committed)
                               THEN @[n] + 1 ELSE @[n]]]
    /\ UNCHANGED <<rows, last, txn, done>>

\* A poll that finds nothing changes nothing.
Poll(q) ==
    /\ After(q) # {}
    /\ cursor' = [cursor EXCEPT ![q] = CHOOSE n \in Page(q) : \A m \in Page(q) : m <= n]
    /\ got' = [got EXCEPT ![q] = [n \in Number |-> IF n \in Page(q) THEN @[n] + 1 ELSE @[n]]]
    /\ UNCHANGED <<rows, last, txn, done>>

--------------------------------------------------------------------------------
\* The log as its migration leaves it, its sequence at the start.
Init ==
    /\ rows = [n \in Number |-> NoRow]
    /\ last = 0
    /\ txn = [w \in Writer |-> Idle]
    /\ done = {}
    /\ cursor = [q \in Poller |-> 0]
    /\ got = [q \in Poller |-> [n \in Number |-> 0]]

Next ==
    \/ \E w \in Writer :
        \/ \E row \in Row : TakeNumber(w, row)
        \/ Insert(w)
        \/ Dedupe(w)
        \/ Commit(w)
        \/ Abort(w)
    \/ \E q \in Poller : Poll(q)

Spec == Init /\ [][Next]_vars

\* An assumption about clients, not about the code: they go on polling.
FairSpec == Spec /\ \A q \in Poller : WF_vars(Poll(q))

--------------------------------------------------------------------------------
\* Whoever publishes concurrently, retries or is rolled back: a key has one row
\* at most, an event_id too, and a publish request that succeeded, even as a
\* duplicate, has its key or its event_id in the log for good.  (The key itself
\* may be missing: a request whose event_id another key's row has is answered
\* with that row, and its own event is not logged.)
PublishedOnce ==
    /\ \A n, m \in Committed : Collide(rows[n], rows[m]) => n = m
    /\ \A row \in done : Logged(row)

\* Every request that succeeded has its key in the log.  So it is where no
\* event_id is chosen that is not derived from its key, and not otherwise.
KeysLogged == \A row \in done : \E n \in Committed : rows[n].key = row.key

\* A client is handed an event once at most, and only events that are logged.
HandedOnce ==
    \A q \in Poller, n \in Number :
        got[q][n] <= IF n \in Committed /\ n <= cursor[q] THEN 1 ELSE 0

\* A poll moves the cursor over no row it does not hand out.
NoneSteppedOver ==
    [][\A q \in Poller, n \in Committed :
         cursor[q] < n /\ n <= cursor'[q] => got'[q][n] = got[q][n] + 1]_vars

\* models/db.py:537, "Monotonic cursor for polling": a client whose cursor is at
\* or beyond an event has been handed it.
NothingMissed ==
    \A q \in Poller, n \in Committed : n <= cursor[q] => got[q][n] = 1

\* An event that becomes visible beyond a client's cursor is handed to it, if it
\* keeps polling, however many others come in before and behind it.
EventuallyHanded ==
    \A q \in Poller, n \in Number :
        n \in Committed /\ n > cursor[q] ~> got[q][n] = 1
================================================================================
