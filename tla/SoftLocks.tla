------------------------------- MODULE SoftLocks -------------------------------
(***************************************************************************)
(* Advisory soft locks on the resources of one project                     *)
(* (api/app/services/collaboration.py behind routers/collaboration.py).    *)
(*                                                                         *)
(* A request reads in its Begin step and writes, publishes and commits in  *)
(* its End step; a request whose INSERT finds the row taken, or whose      *)
(* UPDATE finds it gone, fails and can only abort.  `told` is what each    *)
(* client last learned: the lock it was given with acquired = True, until  *)
(* it releases it or is refused.  Names that Presence has too say Lock:    *)
(* CollaborationProofs extends both.                                       *)
(***************************************************************************)
EXTENDS Naturals, EventTransaction

CONSTANTS
    User,        \* members with at least the editor role
    Admin,       \* those who may release any lock
    Resource,    \* resource paths
    LockTTL,     \* ttl_seconds, in steps of the clock
    LockMaxTime, \* bound: the clock
    MaxIds       \* bound: lock ids handed out

ASSUME SoftLockConstants ==
    /\ Admin \subseteq User
    /\ LockTTL \in Nat \ {0}
    /\ LockMaxTime \in Nat
    /\ MaxIds \in Nat

VARIABLES
    clock,   \* the clock of the API
    locks,   \* collaboration_soft_locks, one row at most for each resource
    ids,     \* lock ids handed out so far
    lockLog, \* event_log: the dedupe keys of the lock events
    lockReq, \* what each user's request in flight has read
    told     \* the lock each user was last given for each resource

lockVars == <<clock, locks, ids, lockLog, lockReq, told>>

Lock == [id : Nat \ {0}, holder : User, expires : Nat]
NoLock == [id |-> 0]
LockIdle == [op |-> "idle"]

\* `at` is the time the request read; `seen` the row it found.
Acquiring == [op : {"acquire"}, path : Resource, seen : Lock \cup {NoLock}, at : Nat]
Releasing == [op : {"release"}, path : Resource, id : Nat \ {0}]

Acquired(p) == <<"acquired", p, 0>>
Released(p, id) == <<"released", p, id>>
LockKey == {"acquired", "released"} \X Resource \X Nat

LockTypeOK ==
    /\ clock \in Nat
    /\ locks \in [Resource -> Lock \cup {NoLock}]
    /\ ids \in Nat
    /\ lockLog \subseteq LockKey
    /\ lockReq \in [User -> {LockIdle} \cup Acquiring \cup Releasing]
    /\ told \in [User -> [Resource -> Lock \cup {NoLock}]]

BeginRequest(u, request) ==
    /\ lockReq[u] = LockIdle
    /\ lockReq' = [lockReq EXCEPT ![u] = request]

FinishRequest(u) == lockReq' = [lockReq EXCEPT ![u] = LockIdle]

Live(lock, time) == lock.id # 0 /\ lock.expires > time

\* The lock a request writes: a new row, or the row it found made its own.
Taken(u, r) == [id |-> IF r.seen.id = 0 THEN ids + 1 ELSE r.seen.id,
                holder |-> u, expires |-> r.at + LockTTL]

--------------------------------------------------------------------------------
\* acquire_soft_lock: another user's lock that has not expired is answered with
\* acquired = False.
Refused(u, p) ==
    /\ lockReq[u] = LockIdle
    /\ Live(locks[p], clock) /\ locks[p].holder # u
    /\ told' = [told EXCEPT ![u][p] = NoLock]
    /\ UNCHANGED <<clock, locks, ids, lockLog, lockReq>>

BeginAcquire(u, p) ==
    /\ ids < MaxIds
    /\ ~(Live(locks[p], clock) /\ locks[p].holder # u)
    /\ BeginRequest(u, [op |-> "acquire", path |-> p, seen |-> locks[p], at |-> clock])
    /\ UNCHANGED <<clock, locks, ids, lockLog, told>>

\* Mutant: the event of every acquisition has a key of its own.
EndAcquireFreshKey(u) ==
    /\ lockReq[u].op = "acquire"
    /\ ids < MaxIds
    /\ LET r == lockReq[u] IN
         /\ locks[r.path].id = r.seen.id
         /\ locks' = [locks EXCEPT ![r.path] = Taken(u, r)]
         /\ told' = [told EXCEPT ![u][r.path] = Taken(u, r)]
         /\ lockLog' = lockLog \cup {Acquired(r.path)}
    /\ ids' = ids + 1
    /\ FinishRequest(u)
    /\ UNCHANGED clock

\* The row is written and "lock:{path}:acquired" published.  The key names
\* neither the lock nor the holder: once it is in the log the write is rolled
\* back.  The answer is acquired = True all the same, with the lock as written
\* if it was new, and as it is in the database if it was there.
EndAcquire(u) ==
    /\ lockReq[u].op = "acquire"
    /\ ids < MaxIds
    /\ LET r == lockReq[u]
           lock == Taken(u, r)
           txn == Publish(lockLog, Writing, Acquired(r.path))
       IN  /\ locks[r.path].id = r.seen.id
           /\ locks' = IF txn.kept THEN [locks EXCEPT ![r.path] = lock] ELSE locks
           /\ lockLog' = lockLog \cup txn.events
           /\ ids' = IF r.seen.id = 0 THEN ids + 1 ELSE ids
           /\ told' = [told EXCEPT ![u][r.path] =
                           IF txn.kept \/ r.seen.id = 0 THEN lock ELSE locks[r.path]]
    /\ FinishRequest(u)
    /\ UNCHANGED clock

--------------------------------------------------------------------------------
\* release_soft_lock: the lock is looked up by id; only its holder or an admin
\* may go on.
BeginRelease(u, p) ==
    /\ locks[p].id # 0
    /\ locks[p].holder = u \/ u \in Admin
    /\ BeginRequest(u, [op |-> "release", path |-> p, id |-> locks[p].id])
    /\ UNCHANGED <<clock, locks, ids, lockLog, told>>

\* lock_not_found: the client gives up the lock it thought it had.
ReleaseNotFound(u, p) ==
    /\ lockReq[u] = LockIdle
    /\ told[u][p].id # 0
    /\ \A q \in Resource : locks[q].id # told[u][p].id
    /\ told' = [told EXCEPT ![u][p] = NoLock]
    /\ UNCHANGED <<clock, locks, ids, lockLog, lockReq>>

\* Mutant: the row is deleted without an event.
EndReleaseSilently(u) ==
    /\ lockReq[u].op = "release"
    /\ LET r == lockReq[u] IN
         /\ locks' = IF locks[r.path].id = r.id THEN [locks EXCEPT ![r.path] = NoLock] ELSE locks
         /\ told' = [told EXCEPT ![u][r.path] = NoLock]
    /\ FinishRequest(u)
    /\ UNCHANGED <<clock, ids, lockLog>>

\* Deleting a row that a racing release has deleted is no error.
EndRelease(u) ==
    /\ lockReq[u].op = "release"
    /\ LET r == lockReq[u]
           txn == Publish(lockLog, Writing, Released(r.path, r.id))
       IN  /\ locks' = IF txn.kept /\ locks[r.path].id = r.id
                         THEN [locks EXCEPT ![r.path] = NoLock] ELSE locks
           /\ lockLog' = lockLog \cup txn.events
           /\ told' = [told EXCEPT ![u][r.path] = NoLock]
    /\ FinishRequest(u)
    /\ UNCHANGED <<clock, ids>>

\* A request that fails, or whose server dies, leaves nothing behind.
AbortRequest(u) ==
    /\ lockReq[u] # LockIdle
    /\ FinishRequest(u)
    /\ UNCHANGED <<clock, locks, ids, lockLog, told>>

LockTick ==
    /\ clock < LockMaxTime
    /\ clock' = clock + 1
    /\ UNCHANGED <<locks, ids, lockLog, lockReq, told>>

\* The lock table as its migration leaves it.
LockInit ==
    /\ clock = 0
    /\ locks = [p \in Resource |-> NoLock]
    /\ ids = 0
    /\ lockLog = {}
    /\ lockReq = [u \in User |-> LockIdle]
    /\ told = [u \in User |-> [p \in Resource |-> NoLock]]

LockNext ==
    \/ \E u \in User :
        \/ \E p \in Resource :
             Refused(u, p) \/ BeginAcquire(u, p) \/ BeginRelease(u, p) \/ ReleaseNotFound(u, p)
        \/ EndAcquire(u)
        \/ EndRelease(u)
        \/ AbortRequest(u)
    \/ LockTick

LockSpec == LockInit /\ [][LockNext]_lockVars

--------------------------------------------------------------------------------
\* The event log mirrors the table whatever races, fails or is rolled back: a
\* resource is locked exactly if its acquisition is in the log and the release
\* of that lock is not, and only locks that were held are ever released.
LocksMatchLog ==
    \A p \in Resource :
        /\ locks[p].id # 0 <=> /\ Acquired(p) \in lockLog
                               /\ \A id \in 0 .. ids : Released(p, id) \notin lockLog
        /\ \A id \in 0 .. ids : Released(p, id) \in lockLog => Acquired(p) \in lockLog

\* While a lock has not expired nobody else takes it, not even a request that
\* read it before, and only its holder's or an admin's request removes it.
NoUsurper ==
    [][\A p \in Resource : Live(locks[p], clock) /\ locks'[p] # locks[p] =>
         \/ locks'[p].id # 0 /\ locks'[p].holder = locks[p].holder
         \/ locks'[p].id = 0 /\ \E u \in {locks[p].holder} \cup Admin :
                                   lockReq[u].op = "release" /\ lockReq[u].path = p]_lockVars

\* collaboration.py:168, "acquired=False if another holder is active": two
\* users are not both told that they have acquired a resource while the locks
\* they were given run.
OneHolder ==
    \A p \in Resource, u, v \in User :
        Live(told[u][p], clock) /\ Live(told[v][p], clock) => u = v
================================================================================
