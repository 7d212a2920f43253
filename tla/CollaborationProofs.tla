-------------------------- MODULE CollaborationProofs --------------------------
(***************************************************************************)
(* Proofs about services/collaboration.py.  Presence, for any sessions,    *)
(* buckets, periods and times, and whoever shares a session id: the        *)
(* presence table and the event log tell the same, whatever is rolled      *)
(* back, and an attentive session that shares its id with no other poster  *)
(* is listed.                                                              *)
(* Soft locks, for any users, resources, lifetimes and                     *)
(* times: the lock table and the event log tell the same, and a lock that  *)
(* runs is taken by nobody else.                                           *)
(***************************************************************************)
EXTENDS Presence, SoftLocks, TLAPS

USE PresenceConstants, SoftLockConstants

--------------------------------------------------------------------------------
(* Presence: the inductive invariant *)

\* What a request in flight has read: the time is one the clock has shown, and
\* who leaves has a row.
RequestValid(s) ==
    /\ req[s].op = "heartbeat" => req[s].at # 0
    /\ req[s].op = "leave" => presence[s] # 0

RequestsValid == \A s \in Session : RequestValid(s)

\* Whoever has a row has posted a heartbeat.
RowsPosted == \A s \in Session : presence[s] # 0 => s \in posted

IInv == TypeOK /\ PresenceMatchesLog /\ RequestsValid /\ RowsPosted

\* A request in flight has the fields of its kind.
LEMMA RequestKinds ==
    ASSUME TypeOK, NEW s \in Session
    PROVE  /\ req[s].op = "heartbeat" => req[s] \in Beating
           /\ req[s].op = "leave" => req[s] \in Leaving
    BY DEF TypeOK, Idle, Beating, Leaving

\* The keys of the three kinds of events are told apart, and session ids too.
LEMMA KeysDiffer ==
    ASSUME NEW i \in SessionId, NEW j \in SessionId, NEW time \in Nat
    PROVE  /\ {Joined(i), Left(i), Heartbeat(i, time)} \subseteq Key
           /\ Joined(i) # Left(j)
           /\ Heartbeat(i, time) # Joined(j)
           /\ Heartbeat(i, time) # Left(j)
           /\ Joined(i) = Joined(j) => i = j
           /\ Left(i) = Left(j) => i = j
<1>1. BucketOf(time) \in Nat
  BY DEF BucketOf
<1> QED BY <1>1 DEF Joined, Left, Heartbeat, Key

\* What the table and the log tell of one session: with a row, its id has joined
\* and not left, and nobody else of the id has a row.
LEMMA RowFacts ==
    ASSUME PresenceMatchesLog, NEW s \in Session
    PROVE  /\ IdOf[s] \in SessionId
           /\ presence[s] # 0 => /\ Joined(IdOf[s]) \in log /\ Left(IdOf[s]) \notin log
                                 /\ \A t \in Session : IdOf[t] = IdOf[s] /\ t # s => presence[t] = 0
           /\ Left(IdOf[s]) \in log => Joined(IdOf[s]) \in log
           /\ Joined(IdOf[s]) \notin log =>
                \A t \in Session : IdOf[t] = IdOf[s] => presence[t] = 0
<1>1. IdOf[s] \in SessionId
  OBVIOUS
<1>2. ASSUME NEW t \in Session, IdOf[t] = IdOf[s], presence[t] # 0
      PROVE  t \in Rows(IdOf[s])
  BY <1>2 DEF Rows
<1> QED BY <1>1, <1>2 DEF PresenceMatchesLog

\* Publishing rolls the transaction back or adds the event to it.
LEMMA PublishCases ==
    \A l, kept, events, t, key :
        t = [kept |-> kept, events |-> events] =>
          \/ /\ key \in l \cup events
             /\ Publish(l, t, key).kept = FALSE
             /\ Publish(l, t, key).events = {}
          \/ /\ key \notin events
             /\ Publish(l, t, key).kept = kept
             /\ Publish(l, t, key).events = events \cup {key}
<1> TAKE l, kept, events, t, key
<1> HAVE t = [kept |-> kept, events |-> events]
<1>1. t.events = events
  OBVIOUS
<1>2. /\ [t EXCEPT !.events = @ \cup {key}].kept = kept
      /\ [t EXCEPT !.events = @ \cup {key}].events = events \cup {key}
  OBVIOUS
<1>3. \/ /\ key \in l \cup events
         /\ Publish(l, t, key) = [kept |-> FALSE, events |-> {}]
      \/ /\ key \notin events
         /\ Publish(l, t, key) = [t EXCEPT !.events = @ \cup {key}]
  BY <1>1 DEF Publish
<1> QED BY <1>2, <1>3

\* What a published heartbeat may do to the table and the log: nothing, for one
\* of its keys is known; refresh the row; or insert it.
LEMMA HeartbeatCases ==
    ASSUME IInv, NEW s \in Session, EndHeartbeat(s)
    PROVE  LET at == req[s].at IN
           \/ /\ presence' = presence
              /\ log' = log
              /\ Heartbeat(IdOf[s], at) \in log \cup {Joined(IdOf[s])}
           \/ /\ presence[s] = 0
              /\ Joined(IdOf[s]) \in log
              /\ presence' = presence
              /\ (log' = log \/ log' = log \cup {Heartbeat(IdOf[s], at)})
           \/ /\ presence[s] # 0
              /\ presence' = [presence EXCEPT ![s] = at]
              /\ log' = log \cup {Heartbeat(IdOf[s], at)}
           \/ /\ presence[s] = 0
              /\ Joined(IdOf[s]) \notin log
              /\ presence' = [presence EXCEPT ![s] = at]
              /\ log' = log \cup {Joined(IdOf[s]), Heartbeat(IdOf[s], at)}
<1> DEFINE r == req[s]
           hb == Heartbeat(IdOf[s], r.at)
           announced == IF r.new THEN Publish(log, Writing, Joined(IdOf[s])) ELSE Writing
           txn == Publish(log, announced, hb)
<1>1. /\ r.new <=> presence[s] = 0
      /\ presence' = IF txn.kept THEN [presence EXCEPT ![s] = r.at] ELSE presence
      /\ log' = log \cup txn.events
  BY DEF EndHeartbeat
<1>2. \A kept, events :
        announced = [kept |-> kept, events |-> events] =>
          \/ hb \in log \cup events /\ txn.kept = FALSE /\ txn.events = {}
          \/ txn.kept = kept /\ txn.events = events \cup {hb}
  <2> HIDE DEF hb, announced
  <2> TAKE kept, events
  <2> HAVE announced = [kept |-> kept, events |-> events]
  <2> QED BY PublishCases
<1> HIDE DEF txn
<1>3. CASE r.new /\ Joined(IdOf[s]) \in log
  <2>1. announced = [kept |-> FALSE, events |-> {}]
    BY <1>3 DEF Publish, Writing
  <2> HIDE DEF announced
  <2>2. txn.kept = FALSE /\ txn.events \in {{}, {hb}}
    BY <1>2, <2>1
  <2> QED BY <1>1, <1>3, <2>2
<1>4. CASE r.new /\ Joined(IdOf[s]) \notin log
  <2>1. announced = [kept |-> TRUE, events |-> {Joined(IdOf[s])}]
    BY <1>4 DEF Publish, Writing
  <2> HIDE DEF announced
  <2>2. \/ hb \in log \cup {Joined(IdOf[s])} /\ txn.kept = FALSE /\ txn.events = {}
        \/ txn.kept = TRUE /\ txn.events = {Joined(IdOf[s]), hb}
    BY <1>2, <2>1
  <2> QED BY <1>1, <1>4, <2>2
<1>5. CASE ~r.new
  <2>1. announced = [kept |-> TRUE, events |-> {}]
    BY <1>5 DEF Writing
  <2> HIDE DEF announced
  <2>2. \/ hb \in log /\ txn.kept = FALSE /\ txn.events = {}
        \/ txn.kept = TRUE /\ txn.events = {hb}
    BY <1>2, <2>1
  <2> QED BY <1>1, <1>5, <2>2
<1> QED BY <1>3, <1>4, <1>5

\* Leaving removes the row and is logged, or does nothing.
LEMMA LeaveCases ==
    ASSUME NEW s \in Session, EndLeave(s)
    PROVE  \/ presence' = presence /\ log' = log
           \/ /\ presence' = [presence EXCEPT ![s] = 0]
              /\ log' = log \cup {Left(IdOf[s])}
    BY DEF EndLeave, Publish, Writing

--------------------------------------------------------------------------------
(* Presence: it is inductive *)

LEMMA InitIInv == Init => IInv
    BY DEF Init, IInv, TypeOK, PresenceMatchesLog, Rows, RequestsValid, RequestValid, RowsPosted,
           Idle

\* A heartbeat that is answered keeps the invariant.
LEMMA EndHeartbeatIInv ==
    ASSUME IInv, NEW s \in Session, EndHeartbeat(s)
    PROVE  IInv'
<1> DEFINE at == req[s].at
           i == IdOf[s]
<1>1. at \in Nat \ {0} /\ now \in Nat
  BY RequestKinds DEF IInv, TypeOK, RequestsValid, RequestValid, EndHeartbeat, Beating
<1>2. /\ now' = now
      /\ req' = [req EXCEPT ![s] = Idle]
      /\ beat' = [beat EXCEPT ![s] = now]
      /\ posted' = posted \cup {s}
  BY DEF EndHeartbeat, Finish
<1>3. /\ presence \in [Session -> Nat]
      /\ log \subseteq Key
      /\ PresenceMatchesLog
  BY DEF IInv, TypeOK
<1>4. \/ /\ presence' = presence
         /\ (log' = log \/ log' = log \cup {Heartbeat(i, at)})
      \/ /\ presence[s] # 0
         /\ presence' = [presence EXCEPT ![s] = at]
         /\ log' = log \cup {Heartbeat(i, at)}
      \/ /\ presence[s] = 0
         /\ Joined(i) \notin log
         /\ presence' = [presence EXCEPT ![s] = at]
         /\ log' = log \cup {Joined(i), Heartbeat(i, at)}
  BY HeartbeatCases
<1>5. i \in SessionId
  OBVIOUS
<1> HIDE DEF at, i
<1>6. ASSUME NEW j \in SessionId
       PROVE  /\ Joined(j) \in Key /\ Heartbeat(i, at) \in Key
              /\ Joined(i) # Left(j)
              /\ Heartbeat(i, at) # Joined(j)
              /\ Heartbeat(i, at) # Left(j)
              /\ Joined(i) = Joined(j) => i = j
  BY <1>1, <1>5, KeysDiffer
<1>7. TypeOK'
  <2>1. presence' \in [Session -> Nat]
    BY <1>1, <1>3, <1>4
  <2>2. log' \subseteq Key
    <3>1. Joined(i) \in Key /\ Heartbeat(i, at) \in Key
      BY <1>5, <1>6
    <3> QED BY <1>3, <1>4, <3>1
  <2> QED BY <1>1, <1>2, <2>1, <2>2 DEF IInv, TypeOK
<1>8. PresenceMatchesLog'
  <2> SUFFICES ASSUME NEW j \in SessionId
               PROVE  /\ Rows(j)' # {} <=> Joined(j) \in log' /\ Left(j) \notin log'
                      /\ Left(j) \in log' => Joined(j) \in log'
                      /\ \A t, u \in Rows(j)' : t = u
    BY DEF PresenceMatchesLog, Joined, Left
  <2>1. /\ Rows(j) # {} <=> Joined(j) \in log /\ Left(j) \notin log
        /\ Left(j) \in log => Joined(j) \in log
        /\ \A t, u \in Rows(j) : t = u
    BY <1>3 DEF PresenceMatchesLog
  <2>2. Left(j) \in log' <=> Left(j) \in log
    BY <1>4, <1>6
  <2>3. CASE \/ presence' = presence
             \/ presence[s] # 0 /\ presence' = [presence EXCEPT ![s] = at]
             \/ j # i
    <3>1. Rows(j)' = Rows(j)
      BY <1>1, <1>3, <1>4, <2>3 DEF Rows, i
    <3>2. Joined(j) \in log' <=> Joined(j) \in log
      BY <1>1, <1>3, <1>4, <1>6, <2>3
    <3> QED BY <2>1, <2>2, <3>1, <3>2
  <2>4. CASE /\ j = i /\ presence[s] = 0 /\ Joined(i) \notin log
             /\ presence' = [presence EXCEPT ![s] = at]
             /\ log' = log \cup {Joined(i), Heartbeat(i, at)}
    <3>1. \A t \in Session : IdOf[t] = i => presence[t] = 0
      BY <1>3, <2>4, RowFacts DEF i
    <3>2. Rows(j)' = {s}
      BY <1>1, <1>3, <2>4, <3>1 DEF Rows, i
    <3> QED BY <2>1, <2>2, <2>4, <3>2
  <2> QED BY <1>4, <2>3, <2>4
<1>9. RequestsValid'
  <2> SUFFICES ASSUME NEW t \in Session
               PROVE  /\ req'[t].op = "heartbeat" => req'[t].at # 0
                      /\ req'[t].op = "leave" => presence'[t] # 0
    BY DEF RequestsValid, RequestValid
  <2>1. CASE t = s
    BY <1>2, <2>1 DEF IInv, TypeOK, Idle
  <2>2. CASE t # s
    BY <1>2, <1>3, <1>4, <2>2 DEF IInv, TypeOK, RequestsValid, RequestValid
  <2> QED BY <2>1, <2>2
<1>10. RowsPosted'
  BY <1>2, <1>3, <1>4 DEF IInv, RowsPosted
<1> QED BY <1>7, <1>8, <1>9, <1>10 DEF IInv

\* A session that leaves keeps the invariant.
LEMMA EndLeaveIInv ==
    ASSUME IInv, NEW s \in Session, EndLeave(s)
    PROVE  IInv'
<1> DEFINE i == IdOf[s]
<1>1. /\ now' = now
      /\ beat' = beat
      /\ posted' = posted
      /\ req' = [req EXCEPT ![s] = Idle]
  BY DEF EndLeave, Finish
<1>2. /\ presence \in [Session -> Nat]
      /\ log \subseteq Key
      /\ presence[s] # 0
      /\ PresenceMatchesLog
  BY DEF IInv, TypeOK, RequestsValid, RequestValid, EndLeave
<1>3. \/ presence' = presence /\ log' = log
      \/ presence' = [presence EXCEPT ![s] = 0] /\ log' = log \cup {Left(i)}
  BY LeaveCases
<1>4. i \in SessionId
  OBVIOUS
<1> HIDE DEF i
<1>5. ASSUME NEW j \in SessionId
      PROVE  /\ Left(i) \in Key
             /\ Left(i) # Joined(j)
             /\ Left(i) = Left(j) => i = j
  BY <1>4, KeysDiffer
<1>6. TypeOK'
  BY <1>1, <1>2, <1>3, <1>4, <1>5 DEF IInv, TypeOK
<1>7. PresenceMatchesLog'
  <2> SUFFICES ASSUME NEW j \in SessionId
               PROVE  /\ Rows(j)' # {} <=> Joined(j) \in log' /\ Left(j) \notin log'
                      /\ Left(j) \in log' => Joined(j) \in log'
                      /\ \A t, u \in Rows(j)' : t = u
    BY DEF PresenceMatchesLog, Joined, Left
  <2>1. /\ Rows(j) # {} <=> Joined(j) \in log /\ Left(j) \notin log
        /\ Left(j) \in log => Joined(j) \in log
        /\ \A t, u \in Rows(j) : t = u
    BY <1>2 DEF PresenceMatchesLog
  <2>2. Joined(j) \in log' <=> Joined(j) \in log
    BY <1>3, <1>5
  <2>3. CASE presence' = presence /\ log' = log
    BY <2>1, <2>3 DEF Rows
  <2>4. CASE j # i /\ presence' = [presence EXCEPT ![s] = 0] /\ log' = log \cup {Left(i)}
    <3>1. Rows(j)' = Rows(j)
      BY <1>2, <2>4 DEF Rows, i
    <3> QED BY <1>5, <2>1, <2>2, <2>4, <3>1
  <2>5. CASE j = i /\ presence' = [presence EXCEPT ![s] = 0] /\ log' = log \cup {Left(i)}
    <3>1. /\ \A t \in Session : IdOf[t] = i /\ t # s => presence[t] = 0
          /\ Joined(i) \in log
      BY <1>2, RowFacts DEF i
    <3>2. Rows(j)' = {}
      BY <1>2, <2>5, <3>1 DEF Rows, i
    <3> QED BY <2>2, <2>5, <3>1, <3>2
  <2> QED BY <1>3, <2>3, <2>4, <2>5
<1>8. RequestsValid'
  <2> SUFFICES ASSUME NEW t \in Session
               PROVE  /\ req'[t].op = "heartbeat" => req'[t].at # 0
                      /\ req'[t].op = "leave" => presence'[t] # 0
    BY DEF RequestsValid, RequestValid
  <2> QED BY <1>1, <1>2, <1>3 DEF IInv, TypeOK, RequestsValid, RequestValid, Idle
<1>9. RowsPosted'
  BY <1>1, <1>2, <1>3 DEF IInv, RowsPosted
<1> QED BY <1>6, <1>7, <1>8, <1>9 DEF IInv

\* The steps that write neither the table nor the log.
LEMMA ReadingIInv ==
    ASSUME IInv, NEW s \in Session, BeginHeartbeat(s) \/ BeginLeave(s) \/ Abort(s)
    PROVE  IInv'
<1>1. presence' = presence /\ log' = log /\ posted' = posted
  BY DEF BeginHeartbeat, Begin, BeginLeave, Abort
<1>2. PresenceMatchesLog' /\ RowsPosted'
  BY <1>1 DEF IInv, PresenceMatchesLog, RowsPosted, Rows, Joined, Left
<1>3. CASE BeginHeartbeat(s)
  BY <1>1, <1>2, <1>3 DEF IInv, TypeOK, RequestsValid, RequestValid, BeginHeartbeat, Begin,
                          Beating
<1>4. CASE BeginLeave(s)
  BY <1>1, <1>2, <1>4 DEF IInv, TypeOK, RequestsValid, RequestValid, BeginLeave, Leaving, Idle
<1>5. CASE Abort(s)
  BY <1>1, <1>2, <1>5 DEF IInv, TypeOK, RequestsValid, RequestValid, Abort, Finish, Idle
<1> QED BY <1>3, <1>4, <1>5

\* Every step keeps the invariant.
LEMMA NextIInv == IInv /\ [Next]_vars => IInv'
<1> SUFFICES ASSUME IInv, [Next]_vars
             PROVE  IInv'
  OBVIOUS
<1>1. CASE UNCHANGED vars
  BY <1>1 DEF vars, IInv, TypeOK, PresenceMatchesLog, Rows, RequestsValid, RequestValid,
              RowsPosted, Joined, Left
<1>2. ASSUME NEW s \in Session, BeginHeartbeat(s) \/ BeginLeave(s) \/ Abort(s)
      PROVE  IInv'
  BY <1>2, ReadingIInv
<1>3. ASSUME NEW s \in Session, EndHeartbeat(s)
      PROVE  IInv'
  BY <1>3, EndHeartbeatIInv
<1>4. ASSUME NEW s \in Session, EndLeave(s)
      PROVE  IInv'
  BY <1>4, EndLeaveIInv
<1>5. CASE Tick
  BY <1>5 DEF Tick, IInv, TypeOK, PresenceMatchesLog, Rows, RequestsValid, RequestValid,
              RowsPosted, Joined, Left
<1> QED BY <1>1, <1>2, <1>3, <1>4, <1>5 DEF Next

--------------------------------------------------------------------------------
(* Presence: time *)

\* As long as nobody else posts under the session's id: every published
\* heartbeat that has not been followed by a leave is one the row has recorded,
\* or an earlier one; every answered heartbeat was recorded or fell into the
\* bucket of one that was.
Recorded(s) ==
    /\ \A k \in Nat : <<IdOf[s], "hb", k>> \in log =>
         /\ Joined(IdOf[s]) \in log
         /\ Left(IdOf[s]) \notin log => k <= BucketOf(presence[s])
    /\ beat[s] # 0 /\ Left(IdOf[s]) \notin log =>
         presence[s] # 0 /\ beat[s] <= presence[s] + (Bucket - 1) + Latency

Attended(s) ==
    /\ presence[s] <= now
    /\ beat[s] # 0 => beat[s] <= now /\ now <= beat[s] + Period
    /\ req[s].op = "heartbeat" =>
         presence[s] <= req[s].at /\ req[s].at <= now /\ now <= req[s].at + Latency
    /\ Alone(s) => Recorded(s)

AllAttended == \A s \in Session : Attended(s)

\* A later time is in a later bucket or in the same one, and times of one bucket
\* are less than a bucket apart.
LEMMA Buckets ==
    ASSUME NEW a \in Nat, NEW b \in Nat
    PROVE  /\ BucketOf(a) \in Nat
           /\ a <= b => BucketOf(a) <= BucketOf(b)
           /\ BucketOf(a) <= BucketOf(b) => a <= b + (Bucket - 1)
<1>1. /\ a \div Bucket \in Nat /\ b \div Bucket \in Nat
      /\ (a \div Bucket) * Bucket <= a /\ a < (a \div Bucket + 1) * Bucket
      /\ (b \div Bucket) * Bucket <= b /\ b < (b \div Bucket + 1) * Bucket
  OBVIOUS
<1> QED BY <1>1 DEF BucketOf

\* No one takes part yet.
LEMMA InitAttended == Init => AllAttended
    BY DEF Init, AllAttended, Attended, Recorded, Idle

\* Who shares its id with nobody has a row exactly if the id has joined and not
\* left.
LEMMA AloneRow ==
    ASSUME IInv, NEW s \in Session, Alone(s)
    PROVE  presence[s] # 0 <=> Joined(IdOf[s]) \in log /\ Left(IdOf[s]) \notin log
<1>1. IdOf[s] \in SessionId
  OBVIOUS
<1>2. Rows(IdOf[s]) # {} <=> Joined(IdOf[s]) \in log /\ Left(IdOf[s]) \notin log
  BY <1>1 DEF IInv, PresenceMatchesLog
<1>3. ASSUME NEW t \in Session, t \in Rows(IdOf[s])
      PROVE  t = s
  BY <1>3 DEF IInv, RowsPosted, Alone, Rows
<1> QED BY <1>2, <1>3 DEF Rows

\* An answered heartbeat is recorded, or its bucket is.
LEMMA EndHeartbeatRecorded ==
    ASSUME IInv, AllAttended, NEW s \in Session, EndHeartbeat(s), Alone(s)
    PROVE  Recorded(s)'
<1> DEFINE i == IdOf[s]
<1>1. PICK at \in Nat : at = req[s].at /\ at # 0
  BY RequestKinds DEF IInv, TypeOK, RequestsValid, RequestValid, EndHeartbeat, Beating
<1>2. /\ presence \in [Session -> Nat] /\ beat \in [Session -> Nat] /\ now \in Nat \ {0}
      /\ i \in SessionId
  BY DEF IInv, TypeOK
<1>3. /\ beat' = [beat EXCEPT ![s] = now]
      /\ presence[s] <= at /\ at <= now /\ now <= at + Latency
  BY <1>1 DEF EndHeartbeat, Finish, AllAttended, Attended
<1>4. \/ /\ presence' = presence
         /\ log' = log
         /\ Heartbeat(i, at) \in log \cup {Joined(i)}
      \/ /\ presence[s] = 0
         /\ Joined(i) \in log
         /\ presence' = presence
         /\ (log' = log \/ log' = log \cup {Heartbeat(i, at)})
      \/ /\ presence[s] # 0
         /\ presence' = [presence EXCEPT ![s] = at]
         /\ log' = log \cup {Heartbeat(i, at)}
      \/ /\ presence[s] = 0
         /\ Joined(i) \notin log
         /\ presence' = [presence EXCEPT ![s] = at]
         /\ log' = log \cup {Joined(i), Heartbeat(i, at)}
  BY <1>1, HeartbeatCases
<1>5. Heartbeat(i, at) = <<i, "hb", BucketOf(at)>> /\ BucketOf(at) \in Nat
  BY Buckets DEF Heartbeat
<1>6. /\ Joined(i) # Left(i) /\ Heartbeat(i, at) # Joined(i) /\ Heartbeat(i, at) # Left(i)
      /\ \A k \in Nat : <<i, "hb", k>> # Joined(i)
      /\ \A k \in Nat : <<i, "hb", k>> = Heartbeat(i, at) => k = BucketOf(at)
  BY <1>5 DEF Joined, Left
<1>7. /\ presence[s] # 0 <=> Joined(i) \in log /\ Left(i) \notin log
      /\ \A k \in Nat : <<i, "hb", k>> \in log =>
           /\ Joined(i) \in log
           /\ Left(i) \notin log => k <= BucketOf(presence[s])
  BY AloneRow DEF AllAttended, Attended, Recorded
<1>8. /\ presence'[s] \in Nat /\ presence'[s] <= at
      /\ Left(i) \in log' <=> Left(i) \in log
  BY <1>1, <1>2, <1>3, <1>4, <1>6
<1> HIDE DEF i
<1>9. ASSUME NEW k \in Nat, <<i, "hb", k>> \in log'
      PROVE  Joined(i) \in log' /\ (Left(i) \notin log => k <= BucketOf(presence'[s]))
  <2>1. BucketOf(presence[s]) <= BucketOf(at)
    BY <1>1, <1>2, <1>3, Buckets
  <2>2. BucketOf(presence[s]) \in Nat
    BY <1>2, Buckets
  <2>3. CASE presence' = presence /\ log' = log
    BY <1>7, <1>9, <2>3
  <2>4. CASE presence[s] = 0 /\ Joined(i) \in log
    BY <1>4, <1>7, <2>4
  <2>5. CASE presence'[s] = at /\ presence[s] # 0 /\ log' = log \cup {Heartbeat(i, at)}
    BY <1>5, <1>6, <1>7, <1>9, <2>1, <2>2, <2>5
  <2>6. CASE presence'[s] = at /\ Joined(i) \notin log
               /\ log' = log \cup {Joined(i), Heartbeat(i, at)}
    BY <1>5, <1>6, <1>7, <1>9, <2>6
  <2> QED BY <1>2, <1>4, <2>3, <2>4, <2>5, <2>6
<1>10. Left(i) \notin log => presence'[s] # 0 /\ at <= presence'[s] + (Bucket - 1)
  <2> SUFFICES ASSUME Left(i) \notin log
               PROVE  presence'[s] # 0 /\ at <= presence'[s] + (Bucket - 1)
    OBVIOUS
  <2>1. CASE presence'[s] = at
    BY <1>1, <2>1
  <2>2. CASE presence' = presence /\ Heartbeat(i, at) \in log \cup {Joined(i)}
    <3>1. Joined(i) \in log /\ BucketOf(at) <= BucketOf(presence[s])
      BY <1>5, <1>6, <1>7, <2>2
    <3> QED BY <1>1, <1>2, <1>7, <2>2, <3>1, Buckets
  <2>3. CASE presence[s] = 0 /\ Joined(i) \in log
    BY <1>7, <2>3
  <2> QED BY <1>2, <1>4, <2>1, <2>2, <2>3
<1>11. beat'[s] = now
  BY <1>2, <1>3
<1> USE DEF i
<1> QED BY <1>1, <1>2, <1>3, <1>8, <1>9, <1>10, <1>11 DEF Recorded, Joined, Left

\* Whoever else posts heartbeats under its id is no longer alone.
LEMMA EndHeartbeatAttended ==
    ASSUME IInv, AllAttended, NEW s \in Session, EndHeartbeat(s)
    PROVE  AllAttended'
<1>1. PICK at \in Nat : at = req[s].at /\ at # 0
  BY RequestKinds DEF IInv, TypeOK, RequestsValid, RequestValid, EndHeartbeat, Beating
<1>2. /\ presence \in [Session -> Nat] /\ beat \in [Session -> Nat] /\ now \in Nat \ {0}
      /\ req \in [Session -> {Idle} \cup Beating \cup Leaving]
  BY DEF IInv, TypeOK
<1>3. /\ now' = now
      /\ req' = [req EXCEPT ![s] = Idle]
      /\ beat' = [beat EXCEPT ![s] = now]
      /\ posted' = posted \cup {s}
      /\ presence[s] <= at /\ at <= now /\ now <= at + Latency
  BY <1>1 DEF EndHeartbeat, Finish, AllAttended, Attended
<1>4. /\ presence' = presence \/ presence' = [presence EXCEPT ![s] = at]
      /\ log' \in SUBSET (log \cup {Joined(IdOf[s]), Heartbeat(IdOf[s], at)})
      /\ log \subseteq log'
  BY <1>1, HeartbeatCases
<1>5. Attended(s)'
  <2>1. presence'[s] \in Nat /\ presence'[s] <= now
    BY <1>1, <1>2, <1>3, <1>4
  <2>2. req'[s].op = "idle" /\ beat'[s] = now
    BY <1>2, <1>3 DEF Idle
  <2>3. ASSUME Alone(s)'
        PROVE  Recorded(s)'
    <3>1. Alone(s)
      BY <1>3, <2>3 DEF Alone
    <3> QED BY <3>1, EndHeartbeatRecorded
  <2> QED BY <1>2, <1>3, <2>1, <2>2, <2>3 DEF Attended
<1>6. ASSUME NEW t \in Session, t # s
      PROVE  Attended(t)'
  <2>1. Attended(t)
    BY DEF AllAttended
  <2>2. presence'[t] = presence[t] /\ beat'[t] = beat[t] /\ req'[t] = req[t]
    BY <1>2, <1>3, <1>4, <1>6
  <2>3. ASSUME Alone(t)'
        PROVE  Recorded(t)'
    <3>1. Alone(t) /\ IdOf[t] # IdOf[s]
      BY <1>3, <1>6, <2>3 DEF Alone
    <3>2. /\ Joined(IdOf[t]) \in log' <=> Joined(IdOf[t]) \in log
          /\ Left(IdOf[t]) \in log' <=> Left(IdOf[t]) \in log
          /\ \A k \in Nat : <<IdOf[t], "hb", k>> \in log' <=> <<IdOf[t], "hb", k>> \in log
      BY <1>4, <3>1 DEF Joined, Left, Heartbeat
    <3> QED BY <2>1, <2>2, <3>1, <3>2 DEF Attended, Recorded, Joined, Left
  <2> QED BY <1>3, <2>1, <2>2, <2>3 DEF Attended
<1> QED BY <1>5, <1>6 DEF AllAttended

\* Who leaves is no longer expected to be listed; others are untouched.
LEMMA EndLeaveAttended ==
    ASSUME IInv, AllAttended, NEW s \in Session, EndLeave(s)
    PROVE  AllAttended'
<1>1. /\ now' = now /\ beat' = beat /\ posted' = posted
      /\ req' = [req EXCEPT ![s] = Idle]
  BY DEF EndLeave, Finish
<1>2. /\ presence \in [Session -> Nat] /\ now \in Nat
      /\ req \in [Session -> {Idle} \cup Beating \cup Leaving]
  BY DEF IInv, TypeOK
<1>3. \/ presence' = presence /\ log' = log
      \/ presence' = [presence EXCEPT ![s] = 0] /\ log' = log \cup {Left(IdOf[s])}
  BY LeaveCases
<1>4. ASSUME NEW t \in Session
      PROVE  Attended(t)'
  <2>1. Attended(t)
    BY DEF AllAttended
  <2>2. /\ Joined(IdOf[t]) \in log' <=> Joined(IdOf[t]) \in log
        /\ Left(IdOf[t]) \in log => Left(IdOf[t]) \in log'
        /\ \A k \in Nat : <<IdOf[t], "hb", k>> \in log' <=> <<IdOf[t], "hb", k>> \in log
    BY <1>3 DEF Joined, Left
  <2>3. /\ req'[t].op = "heartbeat" => t # s /\ req'[t] = req[t]
        /\ \/ presence'[t] = presence[t]
           \/ presence'[t] = 0 /\ t = s /\ Left(IdOf[t]) \in log'
    BY <1>1, <1>2, <1>3 DEF Idle
  <2> QED BY <1>1, <1>2, <2>1, <2>2, <2>3 DEF Attended, Recorded, Alone, Joined, Left
<1> QED BY <1>4 DEF AllAttended

\* A request that begins reads the time, and one that fails leaves nothing.
LEMMA ReadingAttended ==
    ASSUME IInv, AllAttended, NEW s \in Session, BeginHeartbeat(s) \/ BeginLeave(s) \/ Abort(s)
    PROVE  AllAttended'
<1>1. presence' = presence /\ log' = log /\ now' = now /\ posted' = posted
  BY DEF BeginHeartbeat, Begin, BeginLeave, Abort
<1>2. /\ presence \in [Session -> Nat] /\ now \in Nat /\ beat \in [Session -> Nat]
      /\ req \in [Session -> {Idle} \cup Beating \cup Leaving]
  BY DEF IInv, TypeOK
<1>3. ASSUME NEW t \in Session
      PROVE  Attended(t)'
  <2>1. Attended(t)
    BY DEF AllAttended
  <2>2. beat'[t] \in {beat[t], 0}
    BY <1>2 DEF BeginHeartbeat, Begin, BeginLeave, Abort
  <2>3. req'[t].op = "heartbeat" =>
          \/ req'[t] = req[t]
          \/ req'[t].at = now
    BY <1>2 DEF BeginHeartbeat, Begin, BeginLeave, Abort, Finish, Idle
  <2> QED BY <1>1, <1>2, <2>1, <2>2, <2>3 DEF Attended, Recorded, Alone, Joined, Left
<1> QED BY <1>3 DEF AllAttended

\* Time passes no further than the pauses clients and requests may take.
LEMMA TickAttended ==
    ASSUME IInv, AllAttended, Tick
    PROVE  AllAttended'
<1>1. /\ now' = now + 1
      /\ UNCHANGED <<presence, log, req, beat, posted>>
  BY DEF Tick
<1>2. /\ presence \in [Session -> Nat] /\ now \in Nat /\ beat \in [Session -> Nat]
      /\ \A t \in Session : req[t].op = "heartbeat" => req[t].at \in Nat
  BY RequestKinds DEF IInv, TypeOK, Beating
<1>3. ASSUME NEW t \in Session
      PROVE  Attended(t)'
  <2>1. Attended(t)
    BY DEF AllAttended
  <2>2. /\ beat[t] # 0 => now + 1 <= beat[t] + Period
        /\ req[t].op = "heartbeat" => now + 1 <= req[t].at + Latency
    BY <1>2 DEF Tick
  <2> QED BY <1>1, <1>2, <2>1, <2>2 DEF Attended, Recorded, Alone, Joined, Left
<1> QED BY <1>3 DEF AllAttended

\* Every step keeps all sessions attended.
LEMMA NextAttended == IInv /\ AllAttended /\ [Next]_vars => AllAttended'
<1> SUFFICES ASSUME IInv, AllAttended, [Next]_vars
             PROVE  AllAttended'
  OBVIOUS
<1>1. CASE UNCHANGED vars
  BY <1>1 DEF vars, AllAttended, Attended, Recorded, Alone, Joined, Left
<1>2. ASSUME NEW s \in Session, BeginHeartbeat(s) \/ BeginLeave(s) \/ Abort(s)
      PROVE  AllAttended'
  BY <1>2, ReadingAttended
<1>3. ASSUME NEW s \in Session, EndHeartbeat(s)
      PROVE  AllAttended'
  BY <1>3, EndHeartbeatAttended
<1>4. ASSUME NEW s \in Session, EndLeave(s)
      PROVE  AllAttended'
  BY <1>4, EndLeaveAttended
<1>5. CASE Tick
  BY <1>5, TickAttended
<1> QED BY <1>1, <1>2, <1>3, <1>4, <1>5 DEF Next

--------------------------------------------------------------------------------
(* Presence: the theorems *)

\* Every reachable state satisfies the inductive invariant.
THEOREM Invariance == Spec => []IInv
    BY InitIInv, NextIInv, PTL DEF Spec

\* Rows, events and requests have their types in every reachable state.
THEOREM TypeCorrect == Spec => []TypeOK
<1>1. IInv => TypeOK
  BY DEF IInv
<1> QED BY <1>1, Invariance, PTL

\* Some session of an id has a row exactly if the id has joined and never left,
\* and at most one has, however requests interleave and whatever the publisher
\* rolls back.
THEOREM TableMatchesLog == Spec => []PresenceMatchesLog
<1>1. IInv => PresenceMatchesLog
  BY DEF IInv
<1> QED BY <1>1, Invariance, PTL

\* A session that keeps its heartbeats, has not left and shares its id with no
\* other poster is listed, although only one heartbeat of a bucket is recorded,
\* if the time to live covers a bucket, the longest request and the longest pause
\* between answers.
THEOREM AttentiveAreListed ==
    ASSUME (Bucket - 1) + Latency + Period <= TTL
    PROVE  Spec => []AttentiveListed
<1>1. IInv /\ AllAttended => AttentiveListed
  <2> SUFFICES ASSUME IInv, AllAttended, NEW s \in Session, beat[s] # 0, Left(IdOf[s]) \notin log, Alone(s)
               PROVE  Listed(s)
    BY DEF AttentiveListed
  <2>1. /\ presence[s] \in Nat /\ beat[s] \in Nat /\ now \in Nat
        /\ presence[s] # 0
        /\ beat[s] <= presence[s] + (Bucket - 1) + Latency
        /\ now <= beat[s] + Period
    BY DEF IInv, TypeOK, AllAttended, Attended, Recorded
  <2> QED BY <2>1 DEF Listed
<1> QED BY <1>1, InitIInv, NextIInv, InitAttended, NextAttended, PTL DEF Spec

--------------------------------------------------------------------------------
(* Soft locks: the inductive invariant *)

\* A row, and a released lock in the log, has an id that was handed out.
IdsKnown ==
    \A p \in Resource :
        /\ locks[p].id <= ids
        /\ \A id \in Nat : Released(p, id) \in lockLog => id <= ids

\* The lock a request to release has looked up is still there, and the user may
\* release it, or it has been released.
ReleaseValid(u) ==
    lockReq[u].op = "release" =>
        LET r == lockReq[u] IN
        /\ r.id <= ids
        /\ locks[r.path].id = r.id \/ Released(r.path, r.id) \in lockLog
        /\ locks[r.path].id = r.id => u \in Admin \/ locks[r.path].holder = u

ReleasesValid == \A u \in User : ReleaseValid(u)

LockInv == LockTypeOK /\ LocksMatchLog /\ IdsKnown /\ ReleasesValid

\* A request in flight has the fields of its kind.
LEMMA LockRequestKinds ==
    ASSUME LockTypeOK, NEW u \in User
    PROVE  /\ lockReq[u].op = "acquire" => lockReq[u] \in Acquiring
           /\ lockReq[u].op = "release" => lockReq[u] \in Releasing
    BY DEF LockTypeOK, LockIdle, Acquiring, Releasing

\* Acquisitions and releases, of which lock and resource, are told apart.
LEMMA LockKeysDiffer ==
    ASSUME NEW p \in Resource, NEW q \in Resource, NEW i \in Nat, NEW j \in Nat
    PROVE  /\ Acquired(p) \in LockKey
           /\ Released(p, i) \in LockKey
           /\ Acquired(p) # Released(q, j)
           /\ Acquired(p) = Acquired(q) => p = q
           /\ Released(p, i) = Released(q, j) => p = q /\ i = j
    BY DEF Acquired, Released, LockKey

\* Ids of rows are numbers.
LEMMA LockIds ==
    ASSUME LockTypeOK, NEW p \in Resource
    PROVE  /\ locks[p] \in Lock \cup {NoLock}
           /\ locks[p].id \in Nat
           /\ locks[p].id # 0 => locks[p] \in Lock
    BY DEF LockTypeOK, Lock, NoLock

\* The lock a request writes is one.
LEMMA TakenLock ==
    ASSUME LockTypeOK, NEW u \in User, lockReq[u].op = "acquire"
    PROVE  /\ Taken(u, lockReq[u]) \in Lock
           /\ Taken(u, lockReq[u]).id = IF lockReq[u].seen.id = 0 THEN ids + 1 ELSE lockReq[u].seen.id
           /\ Taken(u, lockReq[u]).holder = u
<1>1. lockReq[u] \in Acquiring /\ ids \in Nat
  BY LockRequestKinds DEF LockTypeOK
<1>2. /\ lockReq[u].at + LockTTL \in Nat
      /\ lockReq[u].seen.id \in Nat
  BY <1>1 DEF Acquiring, Lock, NoLock
<1> QED BY <1>1, <1>2 DEF Taken, Lock

\* An acquisition is kept only for a resource that was never locked before.
LEMMA AcquireCases ==
    ASSUME LockInv, NEW u \in User, EndAcquire(u)
    PROVE  \/ locks' = locks /\ lockLog' = lockLog /\ ids' \in {ids, ids + 1}
           \/ /\ locks[lockReq[u].path].id = 0
              /\ Acquired(lockReq[u].path) \notin lockLog
              /\ locks' = [locks EXCEPT ![lockReq[u].path] = Taken(u, lockReq[u])]
              /\ Taken(u, lockReq[u]).id = ids + 1
              /\ lockLog' = lockLog \cup {Acquired(lockReq[u].path)}
              /\ ids' = ids + 1
<1> DEFINE r == lockReq[u]
<1>1. r.path \in Resource
  BY LockRequestKinds DEF LockInv, EndAcquire, Acquiring
<1>2. locks[r.path].id # 0 => Acquired(r.path) \in lockLog
  BY <1>1 DEF LockInv, LocksMatchLog
<1>3. locks[r.path].id = r.seen.id
  BY DEF EndAcquire
<1>4. CASE Acquired(r.path) \in lockLog
  BY <1>4 DEF EndAcquire, Publish, Writing
<1>5. CASE Acquired(r.path) \notin lockLog
  <2>1. locks[r.path].id = 0
    BY <1>2, <1>5
  <2>2. Taken(u, r).id = ids + 1
    BY <1>3, <2>1, TakenLock DEF LockInv, EndAcquire
  <2>3. /\ locks' = [locks EXCEPT ![r.path] = Taken(u, r)]
        /\ lockLog' = lockLog \cup {Acquired(r.path)}
        /\ ids' = ids + 1
    BY <1>3, <1>5, <2>1 DEF EndAcquire, Publish, Writing
  <2> QED BY <1>5, <2>1, <2>2, <2>3
<1> QED BY <1>4, <1>5

\* A release that is kept removes the very lock the request has looked up.
LEMMA ReleaseCases ==
    ASSUME LockInv, NEW u \in User, EndRelease(u)
    PROVE  \/ locks' = locks /\ lockLog' = lockLog
           \/ /\ locks[lockReq[u].path].id = lockReq[u].id
              /\ locks' = [locks EXCEPT ![lockReq[u].path] = NoLock]
              /\ lockLog' = lockLog \cup {Released(lockReq[u].path, lockReq[u].id)}
<1> DEFINE r == lockReq[u]
<1>1. locks[r.path].id = r.id \/ Released(r.path, r.id) \in lockLog
  BY DEF LockInv, ReleasesValid, ReleaseValid, EndRelease
<1>2. CASE Released(r.path, r.id) \in lockLog
  BY <1>2 DEF EndRelease, Publish, Writing
<1>3. CASE Released(r.path, r.id) \notin lockLog
  BY <1>1, <1>3 DEF EndRelease, Publish, Writing
<1> QED BY <1>2, <1>3

--------------------------------------------------------------------------------
(* Soft locks: it is inductive *)

LEMMA InitLockInv == LockInit => LockInv
    BY DEF LockInit, LockInv, LockTypeOK, LocksMatchLog, IdsKnown, ReleasesValid, ReleaseValid, LockIdle, NoLock

\* An acquisition that is answered keeps the invariant.
LEMMA EndAcquireLockInv ==
    ASSUME LockInv, NEW u \in User, EndAcquire(u)
    PROVE  LockInv'
<1> DEFINE p == lockReq[u].path
           lock == Taken(u, lockReq[u])
<1>1. /\ p \in Resource
      /\ lock \in Lock
      /\ ids \in Nat
  BY LockRequestKinds, TakenLock DEF LockInv, LockTypeOK, EndAcquire, Acquiring
<1>2. \/ locks' = locks /\ lockLog' = lockLog /\ ids' \in {ids, ids + 1}
      \/ /\ locks[p].id = 0
         /\ Acquired(p) \notin lockLog
         /\ locks' = [locks EXCEPT ![p] = lock]
         /\ lock.id = ids + 1
         /\ lockLog' = lockLog \cup {Acquired(p)}
         /\ ids' = ids + 1
  BY AcquireCases
<1>3. /\ clock' = clock
      /\ lockReq' = [lockReq EXCEPT ![u] = LockIdle]
  BY DEF EndAcquire, FinishRequest
<1>4. \A q \in Resource : \A i \in Nat :
        /\ Acquired(q) \in LockKey
        /\ Acquired(p) # Released(q, i)
        /\ Acquired(p) = Acquired(q) => p = q
  BY <1>1, LockKeysDiffer
<1>5. told' \in [User -> [Resource -> Lock \cup {NoLock}]]
  BY <1>1, LockIds DEF LockInv, LockTypeOK, EndAcquire
<1>6. /\ locks \in [Resource -> Lock \cup {NoLock}]
      /\ lockLog \subseteq LockKey
      /\ LocksMatchLog /\ IdsKnown
      /\ \A q \in Resource : locks[q].id \in Nat
  BY LockIds DEF LockInv, LockTypeOK
<1> HIDE DEF p, lock
<1>7. LockTypeOK'
  <2>1. locks' \in [Resource -> Lock \cup {NoLock}] /\ lockLog' \subseteq LockKey /\ ids' \in Nat
    BY <1>1, <1>2, <1>4, <1>6
  <2> QED BY <1>3, <1>5, <2>1 DEF LockInv, LockTypeOK
<1>8. LocksMatchLog'
  <2> SUFFICES ASSUME NEW q \in Resource
               PROVE  /\ locks'[q].id # 0 <=> /\ Acquired(q) \in lockLog'
                                              /\ \A id \in 0 .. ids' : Released(q, id) \notin lockLog'
                      /\ \A id \in 0 .. ids' : Released(q, id) \in lockLog' => Acquired(q) \in lockLog'
    BY DEF LocksMatchLog, Acquired, Released
  <2>1. /\ locks[q].id # 0 <=> /\ Acquired(q) \in lockLog
                               /\ \A id \in 0 .. ids : Released(q, id) \notin lockLog
        /\ \A id \in 0 .. ids : Released(q, id) \in lockLog => Acquired(q) \in lockLog
        /\ \A id \in Nat : Released(q, id) \in lockLog => id <= ids
    BY <1>6 DEF LocksMatchLog, IdsKnown
  <2>2. \A id \in Nat : Released(q, id) \in lockLog' <=> Released(q, id) \in lockLog /\ id \in 0 .. ids
    BY <1>1, <1>2, <1>4, <2>1
  <2>3. ids' \in Nat /\ ids <= ids'
    BY <1>1, <1>2
  <2>4. CASE q # p
    <3>1. locks'[q] = locks[q] /\ (Acquired(q) \in lockLog' <=> Acquired(q) \in lockLog)
      BY <1>2, <1>4, <1>6, <2>4
    <3> QED BY <1>1, <2>1, <2>2, <2>3, <3>1
  <2>5. CASE q = p /\ Acquired(p) \notin lockLog
    <3>1. \A id \in Nat : Released(q, id) \notin lockLog'
      BY <2>1, <2>2, <2>5
    <3>2. locks'[q].id # 0 <=> Acquired(q) \in lockLog'
      BY <1>1, <1>2, <1>6, <2>1, <2>5
    <3> QED BY <3>1, <3>2
  <2>6. CASE q = p /\ Acquired(p) \in lockLog
    <3>1. locks'[q] = locks[q] /\ lockLog' = lockLog
      BY <1>2, <2>6
    <3> QED BY <1>1, <2>1, <2>2, <2>3, <3>1
  <2> QED BY <2>4, <2>5, <2>6
<1>9. IdsKnown'
  <2> SUFFICES ASSUME NEW q \in Resource
               PROVE  /\ locks'[q].id <= ids'
                      /\ \A id \in Nat : Released(q, id) \in lockLog' => id <= ids'
    BY DEF IdsKnown, Released
  <2>1. locks[q].id \in Nat /\ locks[q].id <= ids
    BY <1>6 DEF IdsKnown
  <2>2. locks'[q].id <= ids'
    BY <1>1, <1>2, <1>6, <2>1
  <2>3. \A id \in Nat : Released(q, id) \in lockLog' => Released(q, id) \in lockLog
    BY <1>2, <1>4
  <2>4. \A id \in Nat : Released(q, id) \in lockLog => id <= ids
    BY <1>6 DEF IdsKnown
  <2> QED BY <1>1, <1>2, <2>2, <2>3, <2>4
<1>10. ReleasesValid'
  <2> SUFFICES ASSUME NEW v \in User, lockReq'[v].op = "release"
               PROVE  /\ lockReq'[v].id <= ids'
                      /\ locks'[lockReq'[v].path].id = lockReq'[v].id
                           \/ Released(lockReq'[v].path, lockReq'[v].id) \in lockLog'
                      /\ locks'[lockReq'[v].path].id = lockReq'[v].id =>
                           v \in Admin \/ locks'[lockReq'[v].path].holder = v
    BY DEF ReleasesValid, ReleaseValid, Released
  <2>1. v # u /\ lockReq'[v] = lockReq[v]
    BY <1>3 DEF LockInv, LockTypeOK, LockIdle
  <2>2. lockReq[v].path \in Resource /\ lockReq[v].id \in Nat \ {0}
    BY <2>1, LockRequestKinds DEF LockInv, Releasing
  <2>3. /\ lockReq[v].id <= ids
        /\ locks[lockReq[v].path].id = lockReq[v].id \/ Released(lockReq[v].path, lockReq[v].id) \in lockLog
        /\ locks[lockReq[v].path].id = lockReq[v].id =>
             v \in Admin \/ locks[lockReq[v].path].holder = v
    BY <2>1 DEF LockInv, ReleasesValid, ReleaseValid
  <2>4. CASE locks'[lockReq[v].path] = locks[lockReq[v].path]
    BY <1>1, <1>2, <2>1, <2>2, <2>3, <2>4
  <2>5. CASE locks'[lockReq[v].path] # locks[lockReq[v].path]
    <3>1. /\ lockReq[v].path = p
          /\ locks[p].id = 0
          /\ locks'[p].id = ids + 1
          /\ lockLog \subseteq lockLog'
          /\ ids' = ids + 1
      BY <1>1, <1>2, <1>6, <2>2, <2>5
    <3> QED BY <1>1, <2>1, <2>2, <2>3, <3>1
  <2> QED BY <2>4, <2>5
<1> QED BY <1>7, <1>8, <1>9, <1>10 DEF LockInv

\* A release that is answered keeps the invariant.
LEMMA EndReleaseLockInv ==
    ASSUME LockInv, NEW u \in User, EndRelease(u)
    PROVE  LockInv'
<1> DEFINE p == lockReq[u].path
           i == lockReq[u].id
<1>1. /\ p \in Resource
      /\ i \in Nat \ {0}
      /\ i <= ids
  BY LockRequestKinds DEF LockInv, EndRelease, Releasing, ReleasesValid, ReleaseValid
<1>2. \/ locks' = locks /\ lockLog' = lockLog
      \/ /\ locks[p].id = i
         /\ locks' = [locks EXCEPT ![p] = NoLock]
         /\ lockLog' = lockLog \cup {Released(p, i)}
  BY ReleaseCases
<1>3. /\ clock' = clock
      /\ ids' = ids
      /\ lockReq' = [lockReq EXCEPT ![u] = LockIdle]
      /\ told' = [told EXCEPT ![u][p] = NoLock]
  BY DEF EndRelease, FinishRequest
<1>4. \A q \in Resource : \A j \in Nat :
        /\ Released(p, i) \in LockKey
        /\ Acquired(q) # Released(p, i)
        /\ Released(p, i) = Released(q, j) => p = q /\ i = j
  BY <1>1, LockKeysDiffer
<1>5. /\ locks \in [Resource -> Lock \cup {NoLock}]
      /\ lockLog \subseteq LockKey
      /\ ids \in Nat
      /\ LocksMatchLog /\ IdsKnown
      /\ \A q \in Resource : locks[q].id \in Nat
  BY LockIds DEF LockInv, LockTypeOK
<1>6. NoLock.id = 0
  BY DEF NoLock
<1> HIDE DEF p, i
<1>7. LockTypeOK'
  <2>1. locks' \in [Resource -> Lock \cup {NoLock}] /\ lockLog' \subseteq LockKey
    BY <1>1, <1>2, <1>4, <1>5
  <2> QED BY <1>1, <1>3, <2>1 DEF LockInv, LockTypeOK
<1>8. LocksMatchLog'
  <2> SUFFICES ASSUME NEW q \in Resource
               PROVE  /\ locks'[q].id # 0 <=> /\ Acquired(q) \in lockLog'
                                              /\ \A id \in 0 .. ids : Released(q, id) \notin lockLog'
                      /\ \A id \in 0 .. ids : Released(q, id) \in lockLog' => Acquired(q) \in lockLog'
    BY <1>3 DEF LocksMatchLog, Acquired, Released
  <2>1. /\ locks[q].id # 0 <=> /\ Acquired(q) \in lockLog
                               /\ \A id \in 0 .. ids : Released(q, id) \notin lockLog
        /\ \A id \in 0 .. ids : Released(q, id) \in lockLog => Acquired(q) \in lockLog
    BY <1>5 DEF LocksMatchLog
  <2>2. Acquired(q) \in lockLog' <=> Acquired(q) \in lockLog
    BY <1>2, <1>4
  <2>3. CASE locks' = locks /\ lockLog' = lockLog
    BY <2>1, <2>3
  <2>4. CASE /\ locks[p].id = i
             /\ locks' = [locks EXCEPT ![p] = NoLock]
             /\ lockLog' = lockLog \cup {Released(p, i)}
    <3>1. CASE q # p
      BY <1>4, <1>5, <2>1, <2>2, <2>4, <3>1
    <3>2. CASE q = p
      <4>1. locks'[q].id = 0 /\ Acquired(q) \in lockLog /\ i \in 0 .. ids /\ Released(q, i) \in lockLog'
        BY <1>1, <1>5, <1>6, <2>1, <2>4, <3>2
      <4> QED BY <2>2, <4>1
    <3> QED BY <3>1, <3>2
  <2> QED BY <1>2, <2>3, <2>4
<1>9. IdsKnown'
  <2> SUFFICES ASSUME NEW q \in Resource
               PROVE  /\ locks'[q].id <= ids
                      /\ \A id \in Nat : Released(q, id) \in lockLog' => id <= ids
    BY <1>3 DEF IdsKnown, Released
  <2>1. /\ locks[q].id <= ids
        /\ \A id \in Nat : Released(q, id) \in lockLog => id <= ids
    BY <1>5 DEF IdsKnown
  <2>2. locks'[q].id <= ids
    BY <1>2, <1>5, <1>6, <2>1
  <2>3. \A id \in Nat : Released(q, id) \in lockLog' => id <= ids
    BY <1>1, <1>2, <1>4, <2>1
  <2> QED BY <2>2, <2>3
<1>10. ReleasesValid'
  <2> SUFFICES ASSUME NEW v \in User, lockReq'[v].op = "release"
               PROVE  /\ lockReq'[v].id <= ids
                      /\ locks'[lockReq'[v].path].id = lockReq'[v].id
                           \/ Released(lockReq'[v].path, lockReq'[v].id) \in lockLog'
                      /\ locks'[lockReq'[v].path].id = lockReq'[v].id =>
                           v \in Admin \/ locks'[lockReq'[v].path].holder = v
    BY <1>3 DEF ReleasesValid, ReleaseValid, Released
  <2>1. v # u /\ lockReq'[v] = lockReq[v]
    BY <1>3 DEF LockInv, LockTypeOK, LockIdle
  <2>2. lockReq[v].path \in Resource /\ lockReq[v].id \in Nat \ {0}
    BY <2>1, LockRequestKinds DEF LockInv, Releasing
  <2>3. /\ lockReq[v].id <= ids
        /\ locks[lockReq[v].path].id = lockReq[v].id \/ Released(lockReq[v].path, lockReq[v].id) \in lockLog
        /\ locks[lockReq[v].path].id = lockReq[v].id =>
             v \in Admin \/ locks[lockReq[v].path].holder = v
    BY <2>1 DEF LockInv, ReleasesValid, ReleaseValid
  <2>4. CASE locks'[lockReq[v].path] = locks[lockReq[v].path]
    BY <1>2, <2>1, <2>2, <2>3, <2>4
  <2>5. CASE locks'[lockReq[v].path] # locks[lockReq[v].path]
    <3>1. /\ lockReq[v].path = p
          /\ locks[p].id = i
          /\ locks'[p].id = 0
          /\ lockLog \subseteq lockLog'
          /\ Released(p, i) \in lockLog'
      BY <1>1, <1>2, <1>5, <1>6, <2>2, <2>5
    <3> QED BY <2>1, <2>2, <2>3, <3>1
  <2> QED BY <2>4, <2>5
<1> QED BY <1>7, <1>8, <1>9, <1>10 DEF LockInv

\* The requests that only read keep it.
LEMMA ReadingLockInv ==
    ASSUME LockInv, NEW u \in User, NEW p \in Resource,
           Refused(u, p) \/ BeginAcquire(u, p) \/ BeginRelease(u, p) \/ ReleaseNotFound(u, p)
    PROVE  LockInv'
<1>1. locks' = locks /\ lockLog' = lockLog /\ ids' = ids /\ clock' = clock
  BY DEF Refused, BeginAcquire, BeginRelease, ReleaseNotFound
<1>2. LocksMatchLog' /\ IdsKnown'
  BY <1>1 DEF LockInv, LocksMatchLog, IdsKnown, Acquired, Released
<1>3. CASE Refused(u, p) \/ ReleaseNotFound(u, p)
  <2>1. lockReq' = lockReq /\ told' = [told EXCEPT ![u][p] = NoLock]
    BY <1>3 DEF Refused, ReleaseNotFound
  <2>2. LockTypeOK'
    BY <1>1, <2>1 DEF LockInv, LockTypeOK
  <2>3. ReleasesValid'
    BY <1>1, <2>1 DEF LockInv, ReleasesValid, ReleaseValid, Released
  <2> QED BY <1>2, <2>2, <2>3 DEF LockInv
<1>4. CASE BeginAcquire(u, p)
  <2>1. /\ lockReq' = [lockReq EXCEPT ![u] =
                      [op |-> "acquire", path |-> p, seen |-> locks[p], at |-> clock]]
        /\ told' = told
    BY <1>4 DEF BeginAcquire, BeginRequest
  <2>2. LockTypeOK'
    BY <1>1, <2>1, LockIds DEF LockInv, LockTypeOK, Acquiring
  <2>3. ReleasesValid'
    BY <1>1, <2>1 DEF LockInv, LockTypeOK, ReleasesValid, ReleaseValid, Released
  <2> QED BY <1>2, <2>2, <2>3 DEF LockInv
<1>5. CASE BeginRelease(u, p)
  <2>1. /\ lockReq' = [lockReq EXCEPT ![u] = [op |-> "release", path |-> p, id |-> locks[p].id]]
        /\ told' = told
        /\ locks[p].id # 0
        /\ u \in Admin \/ locks[p].holder = u
    BY <1>5 DEF BeginRelease, BeginRequest
  <2>2. LockTypeOK'
    BY <1>1, <2>1, LockIds DEF LockInv, LockTypeOK, Releasing
  <2>3. ReleasesValid'
    <3>1. locks[p].id <= ids
      BY DEF LockInv, IdsKnown
    <3> QED BY <1>1, <2>1, <3>1 DEF LockInv, LockTypeOK, ReleasesValid, ReleaseValid, Released
  <2> QED BY <1>2, <2>2, <2>3 DEF LockInv
<1> QED BY <1>3, <1>4, <1>5

\* Every step keeps the invariant.
LEMMA NextLockInv == LockInv /\ [LockNext]_lockVars => LockInv'
<1> SUFFICES ASSUME LockInv, [LockNext]_lockVars
             PROVE  LockInv'
  OBVIOUS
<1>1. CASE UNCHANGED lockVars
  BY <1>1 DEF lockVars, LockInv, LockTypeOK, LocksMatchLog, IdsKnown, ReleasesValid, ReleaseValid,
              Acquired, Released
<1>2. ASSUME NEW u \in User, NEW p \in Resource,
             Refused(u, p) \/ BeginAcquire(u, p) \/ BeginRelease(u, p) \/ ReleaseNotFound(u, p)
      PROVE  LockInv'
  BY <1>2, ReadingLockInv
<1>3. ASSUME NEW u \in User, EndAcquire(u)
      PROVE  LockInv'
  BY <1>3, EndAcquireLockInv
<1>4. ASSUME NEW u \in User, EndRelease(u)
      PROVE  LockInv'
  BY <1>4, EndReleaseLockInv
<1>5. ASSUME NEW u \in User, AbortRequest(u)
      PROVE  LockInv'
  <2>1. /\ UNCHANGED <<clock, locks, ids, lockLog, told>>
        /\ lockReq' = [lockReq EXCEPT ![u] = LockIdle]
    BY <1>5 DEF AbortRequest, FinishRequest
  <2>2. LockTypeOK'
    BY <2>1 DEF LockInv, LockTypeOK
  <2>3. LocksMatchLog' /\ IdsKnown'
    BY <2>1 DEF LockInv, LocksMatchLog, IdsKnown, Acquired, Released
  <2>4. ReleasesValid'
    BY <2>1 DEF LockInv, LockTypeOK, ReleasesValid, ReleaseValid, Released, LockIdle
  <2> QED BY <2>2, <2>3, <2>4 DEF LockInv
<1>6. CASE LockTick
  BY <1>6 DEF LockTick, LockInv, LockTypeOK, LocksMatchLog, IdsKnown, ReleasesValid, ReleaseValid,
              Acquired, Released
<1> QED BY <1>1, <1>2, <1>3, <1>4, <1>5, <1>6 DEF LockNext

--------------------------------------------------------------------------------
(* Soft locks: the theorems *)

\* Every reachable state satisfies the inductive invariant.
THEOREM LockInvariance == LockSpec => []LockInv
    BY InitLockInv, NextLockInv, PTL DEF LockSpec

\* Rows, events, requests and what clients were told have their types in every
\* reachable state.
THEOREM LocksTypeCorrect == LockSpec => []LockTypeOK
<1>1. LockInv => LockTypeOK
  BY DEF LockInv
<1> QED BY <1>1, LockInvariance, PTL

\* A resource is locked exactly if its acquisition is in the log and its lock's
\* release is not, whatever requests race and whatever is rolled back.
THEOREM LockTableMatchesLog == LockSpec => []LocksMatchLog
<1>1. LockInv => LocksMatchLog
  BY DEF LockInv
<1> QED BY <1>1, LockInvariance, PTL

\* A step changes a lock that runs only by renewing it for its holder, or by
\* removing it in its holder's or an admin's request to release it.
LEMMA NoUsurpingStep ==
    ASSUME LockInv, [LockNext]_lockVars, NEW p \in Resource, Live(locks[p], clock), locks'[p] # locks[p]
    PROVE  \/ locks'[p].id # 0 /\ locks'[p].holder = locks[p].holder
           \/ locks'[p].id = 0 /\ \E u \in {locks[p].holder} \cup Admin :
                                     lockReq[u].op = "release" /\ lockReq[u].path = p
<1>1. locks[p].id # 0 /\ locks \in [Resource -> Lock \cup {NoLock}]
  BY DEF Live, LockInv, LockTypeOK
<1>2. (\E u \in User : EndAcquire(u)) \/ (\E u \in User : EndRelease(u))
  BY DEF LockNext, lockVars, Refused, BeginAcquire, BeginRelease, ReleaseNotFound, AbortRequest, LockTick
<1>3. ASSUME NEW u \in User, EndAcquire(u)
      PROVE  FALSE
  <2>1. lockReq[u].path \in Resource
    BY <1>3, LockRequestKinds DEF LockInv, EndAcquire, Acquiring
  <2> QED BY <1>1, <1>3, <2>1, AcquireCases
<1>4. ASSUME NEW u \in User, EndRelease(u)
      PROVE  locks'[p].id = 0 /\ \E v \in {locks[p].holder} \cup Admin :
                                    lockReq[v].op = "release" /\ lockReq[v].path = p
  <2>1. lockReq[u].path \in Resource /\ lockReq[u].op = "release"
    BY <1>4, LockRequestKinds DEF LockInv, EndRelease, Releasing
  <2>2. /\ lockReq[u].path = p
        /\ locks[p].id = lockReq[u].id
        /\ locks'[p] = NoLock
    BY <1>1, <1>4, <2>1, ReleaseCases
  <2>3. u \in Admin \/ locks[p].holder = u
    BY <2>1, <2>2 DEF LockInv, ReleasesValid, ReleaseValid
  <2> QED BY <2>1, <2>2, <2>3 DEF NoLock
<1> QED BY <1>2, <1>3, <1>4

\* While a lock has not expired nobody else takes it.
THEOREM RunningLocksStay == LockSpec => NoUsurper
<1>1. LockInv /\ [LockNext]_lockVars =>
        [\A p \in Resource : Live(locks[p], clock) /\ locks'[p] # locks[p] =>
           \/ locks'[p].id # 0 /\ locks'[p].holder = locks[p].holder
           \/ locks'[p].id = 0 /\ \E u \in {locks[p].holder} \cup Admin :
                                     lockReq[u].op = "release" /\ lockReq[u].path = p]_lockVars
  BY NoUsurpingStep
<1> QED BY <1>1, LockInvariance, PTL DEF LockSpec, NoUsurper
================================================================================
