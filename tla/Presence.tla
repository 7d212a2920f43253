-------------------------------- MODULE Presence --------------------------------
(***************************************************************************)
(* Polling presence in one project (api/app/services/collaboration.py      *)
(* behind routers/collaboration.py): a session posts heartbeats while its  *)
(* user works and leaves when done; others see it listed while its last    *)
(* recorded heartbeat is recent.                                           *)
(*                                                                         *)
(* The table has a row for each user and session id, while the keys of the *)
(* events name the session id alone, which the client chooses: sessions of *)
(* two users that chose one id have rows of their own and share the keys.  *)
(*                                                                         *)
(* A request reads the clock and the session's row in its Begin step and   *)
(* writes, publishes and commits in its End step.  `beat[s]` is the        *)
(* client's side: when its last heartbeat was answered, 0 while it takes   *)
(* no part.  The clock starts at 1.                                        *)
(***************************************************************************)
EXTENDS Naturals, EventTransaction

CONSTANTS
    Session,   \* a user together with the session id the user's client chose
    SessionId,
    IdOf,      \* each session's id
    Bucket,    \* heartbeat_bucket_ts: bucket_seconds, in steps of the clock
    TTL,       \* PRESENCE_TTL_SECONDS
    Period,    \* the longest a taking-part client goes without an answered heartbeat
    Latency,   \* the longest a heartbeat request takes
    MaxTime    \* bound: the clock

ASSUME PresenceConstants ==
    /\ IdOf \in [Session -> SessionId]
    /\ Bucket \in Nat \ {0}
    /\ TTL \in Nat
    /\ Period \in Nat \ {0}
    /\ Latency \in Nat
    /\ MaxTime \in Nat

VARIABLES
    now,      \* the clock of the API
    presence, \* collaboration_presence: a session's last_heartbeat_at, 0 for no row
    log,      \* event_log: the dedupe keys of the presence events
    req,      \* what each session's request in flight has read
    beat,     \* when each session's last heartbeat was answered
    posted    \* the sessions that have ever had one answered

vars == <<now, presence, log, req, beat, posted>>

Idle == [op |-> "idle"]
Beating == [op : {"heartbeat"}, new : BOOLEAN, at : Nat]
Leaving == [op : {"leave"}]

\* Mutant: buckets of two minutes.
TwoMinutesBucket(time) == time \div (4 * Bucket)

BucketOf(time) == time \div Bucket

Joined(id) == <<id, "joined", 0>>
Left(id) == <<id, "left", 0>>

Heartbeat(id, time) == <<id, "hb", BucketOf(time)>>
Key == SessionId \X {"joined", "left", "hb"} \X Nat

TypeOK ==
    /\ now \in Nat \ {0}
    /\ presence \in [Session -> Nat]
    /\ log \subseteq Key
    /\ req \in [Session -> {Idle} \cup Beating \cup Leaving]
    /\ beat \in [Session -> Nat]
    /\ posted \subseteq Session

Begin(s, request) ==
    /\ req[s] = Idle
    /\ req' = [req EXCEPT ![s] = request]
    /\ UNCHANGED <<now, presence, log, beat, posted>>

Finish(s) == req' = [req EXCEPT ![s] = Idle]

--------------------------------------------------------------------------------
BeginHeartbeat(s) == Begin(s, [op |-> "heartbeat", new |-> presence[s] = 0, at |-> now])

\* Mutant: the publisher does not roll back the row when the event is known.
EndHeartbeatKeepingRow(s) ==
    /\ req[s].op = "heartbeat"
    /\ req[s].new <=> presence[s] = 0
    /\ presence' = [presence EXCEPT ![s] = req[s].at]
    /\ log' = log \cup {Joined(IdOf[s]), Heartbeat(IdOf[s], req[s].at)}
    /\ beat' = [beat EXCEPT ![s] = now]
    /\ posted' = posted \cup {s}
    /\ Finish(s)
    /\ UNCHANGED now

\* The row is inserted or updated; a new row is announced as joined, and every
\* heartbeat is published once for each bucket of time.  Each of the two may
\* roll back what was written before it.  The answer is 200 in any case.
EndHeartbeat(s) ==
    /\ req[s].op = "heartbeat"
    /\ LET r == req[s]
           announced == IF r.new THEN Publish(log, Writing, Joined(IdOf[s])) ELSE Writing
           txn == Publish(log, announced, Heartbeat(IdOf[s], r.at))
       IN  /\ r.new <=> presence[s] = 0
           /\ presence' = IF txn.kept THEN [presence EXCEPT ![s] = r.at] ELSE presence
           /\ log' = log \cup txn.events
    /\ beat' = [beat EXCEPT ![s] = now]
    /\ posted' = posted \cup {s}
    /\ Finish(s)
    /\ UNCHANGED now

\* Whether or not the session has a row, the client stops taking part.
BeginLeave(s) ==
    /\ req[s] = Idle
    /\ req' = [req EXCEPT ![s] = IF presence[s] = 0 THEN Idle ELSE [op |-> "leave"]]
    /\ beat' = [beat EXCEPT ![s] = 0]
    /\ UNCHANGED <<now, presence, log, posted>>

EndLeave(s) ==
    /\ req[s].op = "leave"
    /\ LET txn == Publish(log, Writing, Left(IdOf[s])) IN
         /\ presence' = IF txn.kept THEN [presence EXCEPT ![s] = 0] ELSE presence
         /\ log' = log \cup txn.events
    /\ Finish(s)
    /\ UNCHANGED <<now, beat, posted>>

\* A request that fails, or whose server dies, leaves nothing behind; the client
\* may try again.
Abort(s) ==
    /\ req[s] # Idle
    /\ Finish(s)
    /\ UNCHANGED <<now, presence, log, beat, posted>>

\* Clients taking part have a heartbeat answered at least every Period, and no
\* heartbeat request takes longer than Latency.
Tick ==
    /\ now < MaxTime
    /\ \A s \in Session :
         /\ beat[s] # 0 => now + 1 - beat[s] <= Period
         /\ req[s].op = "heartbeat" => now + 1 - req[s].at <= Latency
    /\ now' = now + 1
    /\ UNCHANGED <<presence, log, req, beat, posted>>

\* The presence table as its migration leaves it.
Init ==
    /\ now = 1
    /\ presence = [s \in Session |-> 0]
    /\ log = {}
    /\ req = [s \in Session |-> Idle]
    /\ beat = [s \in Session |-> 0]
    /\ posted = {}

Next ==
    \/ \E s \in Session :
        \/ BeginHeartbeat(s)
        \/ EndHeartbeat(s)
        \/ BeginLeave(s)
        \/ EndLeave(s)
        \/ Abort(s)
    \/ Tick

Spec == Init /\ [][Next]_vars

--------------------------------------------------------------------------------
\* list_presence
Listed(s) == presence[s] # 0 /\ now - presence[s] <= TTL

Rows(id) == {s \in Session : IdOf[s] = id /\ presence[s] # 0}

\* The event log mirrors the table whatever is rolled back: some session of an
\* id has a row exactly if the id has joined and not left.  Nobody else who
\* chose the id ever has a row beside it, and once it has left nobody has one
\* again, for every further row of the id is rolled back with its joining.
PresenceMatchesLog ==
    \A id \in SessionId :
        /\ Rows(id) # {} <=> Joined(id) \in log /\ Left(id) \notin log
        /\ Left(id) \in log => Joined(id) \in log
        /\ \A s, t \in Rows(id) : s = t

\* No other session that chose the id has ever posted a heartbeat.
Alone(s) == \A t \in posted : IdOf[t] = IdOf[s] => t = s

\* A session that keeps posting heartbeats and has never left is listed, though
\* every heartbeat but the first of its bucket is rolled back with its event,
\* unless somebody else posts heartbeats under its id.
AttentiveListed ==
    \A s \in Session :
        beat[s] # 0 /\ Left(IdOf[s]) \notin log /\ Alone(s) => Listed(s)
================================================================================
