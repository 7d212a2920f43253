-------------------------------- MODULE Lifecycle --------------------------------
(***************************************************************************)
(* The lifecycle of the versions of one object: promotions and the         *)
(* object's deletion (promote and soft_delete of api/app/services/         *)
(* objects.py behind api/app/routers/objects.py).                          *)
(*                                                                         *)
(* A promotion reads the version in its Begin step, and writes its state,  *)
(* an audit row and an event in its End step.  The UPDATE does not look at *)
(* the state it replaces.                                                  *)
(*                                                                         *)
(* audit_log has no order of commits: a row has a random id and, as        *)
(* created_at, the time its transaction began, before it read the version. *)
(* `trail` lists the rows as they were committed, which is not stored, and *)
(* `created` says of each how many rows of its version were committed when *)
(* its transaction began: row j began after row i was committed if         *)
(* created[v][j] >= i, and only then need created_at put it later.         *)
(***************************************************************************)
EXTENDS Naturals, Sequences, Functions, EventTransaction

CONSTANTS
    User,          \* members of the organisation
    RoleOf,        \* the role of each
    ObjectVersion  \* versions of the object

State == {"draft", "in_review", "approved", "released", "obsolete"}

\* role_at_least
Rank == [viewer |-> 0, editor |-> 1, approver |-> 2, admin |-> 3]

ASSUME LifecycleConstants == RoleOf \in [User -> DOMAIN Rank]

\* LIFECYCLE_TRANSITIONS: the role each transition takes.
Transitions ==
    [move \in {<<"draft", "in_review">>, <<"in_review", "draft">>, <<"in_review", "approved">>,
               <<"approved", "released">>, <<"released", "obsolete">>} |->
        CASE move = <<"draft", "in_review">>    -> "editor"
          [] move = <<"released", "obsolete">>  -> "admin"
          [] OTHER                              -> "approver"]

Moves == DOMAIN Transitions
MayMake(u, move) == Rank[RoleOf[u]] >= Rank[Transitions[move]]

VARIABLES
    state,     \* lifecycle_state
    deletions, \* audit_log: object_deleted rows; the object is deleted if there is one
    trail,     \* audit_log: each version's lifecycle_transition rows, as committed
    created,   \* audit_log: when the transaction of each of them began
    log,       \* event_log: the dedupe keys of the lifecycle events
    change,    \* what each user's request in flight has read
    answer     \* the last promotion answered to each user: asked for, and told

lifecycleVars == <<state, deletions, trail, created, log, change, answer>>

NoChange == [op |-> "idle"]
Promoting == [op : {"promote"}, version : ObjectVersion, move : Moves, began : Nat]
Deleting == [op : {"delete"}]
NoAnswer == [asked |-> "draft", told |-> "draft"]

LifecycleTypeOK ==
    /\ state \in [ObjectVersion -> State]
    /\ deletions \in Nat
    /\ trail \in [ObjectVersion -> Seq(Moves)]
    /\ created \in [ObjectVersion -> Seq(Nat)]
    /\ log \subseteq ObjectVersion \X Moves
    /\ change \in [User -> {NoChange} \cup Promoting \cup Deleting]
    /\ answer \in [User -> [asked : State, told : State]]

Deleted == deletions > 0

EventKey(v, move) == <<v, move>>

--------------------------------------------------------------------------------
\* Mutant: the target is not compared with the state the version is in.
BeginPromoteFromAnywhere(u, v, target) ==
    /\ change[u] = NoChange
    /\ ~Deleted
    /\ \E move \in Moves, began \in 0 .. Len(trail[v]) :
         /\ move[2] = target
         /\ MayMake(u, move)
         /\ change' = [change EXCEPT ![u] = [op |-> "promote", version |-> v, move |-> move,
                                            began |-> began]]
    /\ UNCHANGED <<state, deletions, trail, created, log, answer>>

\* The object is not deleted, the transition exists and the user has its role.
\* The transaction began with the request's first query, at any time before.
BeginPromote(u, v, target) ==
    LET move == <<state[v], target>> IN
    /\ change[u] = NoChange
    /\ ~Deleted
    /\ move \in Moves
    /\ MayMake(u, move)
    /\ \E began \in 0 .. Len(trail[v]) :
         change' = [change EXCEPT ![u] = [op |-> "promote", version |-> v, move |-> move,
                                         began |-> began]]
    /\ UNCHANGED <<state, deletions, trail, created, log, answer>>

\* Mutant: the state is set again after the publisher has rolled back.
EndPromoteAnyway(u) ==
    /\ change[u].op = "promote"
    /\ LET v == change[u].version
           move == change[u].move
       IN  /\ state' = [state EXCEPT ![v] = move[2]]
           /\ trail' = IF <<v, move>> \in log THEN trail ELSE [trail EXCEPT ![v] = Append(@, move)]
           /\ created' = IF <<v, move>> \in log THEN created
                         ELSE [created EXCEPT ![v] = Append(@, change[u].began)]
           /\ log' = log \cup {<<v, move>>}
           /\ answer' = [answer EXCEPT ![u] = [asked |-> move[2], told |-> move[2]]]
    /\ change' = [change EXCEPT ![u] = NoChange]
    /\ UNCHANGED deletions

\* The state is set, audited, and published if the object is not deleted by now.
\* The event's key is the version and the transition: a transition made before
\* is rolled back.  The answer is 200, with the version as it now is.
EndPromote(u) ==
    /\ change[u].op = "promote"
    /\ LET v == change[u].version
           move == change[u].move
           txn == IF Deleted THEN Writing ELSE Publish(log, Writing, EventKey(v, move))
       IN  /\ state' = IF txn.kept THEN [state EXCEPT ![v] = move[2]] ELSE state
           /\ trail' = IF txn.kept THEN [trail EXCEPT ![v] = Append(@, move)] ELSE trail
           /\ created' = IF txn.kept THEN [created EXCEPT ![v] = Append(@, change[u].began)]
                         ELSE created
           /\ log' = log \cup txn.events
           /\ answer' = [answer EXCEPT ![u] = [asked |-> move[2], told |-> state'[v]]]
    /\ change' = [change EXCEPT ![u] = NoChange]
    /\ UNCHANGED deletions

--------------------------------------------------------------------------------
\* soft_delete, for an admin and an object not yet deleted.
BeginDelete(u) ==
    /\ change[u] = NoChange
    /\ ~Deleted
    /\ RoleOf[u] = "admin"
    /\ change' = [change EXCEPT ![u] = [op |-> "delete"]]
    /\ UNCHANGED <<state, deletions, trail, created, log, answer>>

EndDelete(u) ==
    /\ change[u].op = "delete"
    /\ deletions' = deletions + 1
    /\ change' = [change EXCEPT ![u] = NoChange]
    /\ UNCHANGED <<state, trail, created, log, answer>>

\* A request that fails, or whose server dies, leaves nothing behind.
AbortChange(u) ==
    /\ change[u] # NoChange
    /\ change' = [change EXCEPT ![u] = NoChange]
    /\ UNCHANGED <<state, deletions, trail, created, log, answer>>

\* A version starts in the column's default, with no row in the audit log.
LifecycleInit ==
    /\ state = [v \in ObjectVersion |-> "draft"]
    /\ deletions = 0
    /\ trail = [v \in ObjectVersion |-> <<>>]
    /\ created = [v \in ObjectVersion |-> <<>>]
    /\ log = {}
    /\ change = [u \in User |-> NoChange]
    /\ answer = [u \in User |-> NoAnswer]

LifecycleNext ==
    \E u \in User :
        \/ \E v \in ObjectVersion, target \in State : BeginPromote(u, v, target)
        \/ EndPromote(u)
        \/ BeginDelete(u)
        \/ EndDelete(u)
        \/ AbortChange(u)

LifecycleSpec == LifecycleInit /\ [][LifecycleNext]_lifecycleVars

--------------------------------------------------------------------------------
\* A version is in the state an audit row tells after whose commit no other row's
\* transaction began, whatever was rolled back and whoever raced for it.  Who
\* reads the table by created_at finds the state in the newest row, or in one
\* whose transaction overlapped that row's.
StateAudited ==
    \A v \in ObjectVersion :
        IF trail[v] = <<>> THEN state[v] = "draft"
        ELSE \E i \in DOMAIN trail[v] :
               /\ state[v] = trail[v][i][2]
               /\ \A j \in DOMAIN created[v] : created[v][j] < i

\* The audit and the event log tell the same transitions, each made once; only
\* of a deleted object may some be missing among the events.
TrailMatchesLog ==
    \A v \in ObjectVersion :
        LET published == {move \in Moves : <<v, move>> \in log} IN
        /\ published \subseteq Range(trail[v])
        /\ ~Deleted => IsInjective(trail[v]) /\ Range(trail[v]) = published

\* Nothing is approved, released or obsolete that has not been through every
\* earlier state, whatever requests overtake each other.
NothingSkipped ==
    \A v \in ObjectVersion :
        /\ state[v] \in {"approved", "released", "obsolete"} =>
             {<<"draft", "in_review">>, <<"in_review", "approved">>} \subseteq Range(trail[v])
        /\ state[v] \in {"released", "obsolete"} => <<"approved", "released">> \in Range(trail[v])

\* api/tests/test_v1_endpoints.py:124, assert promote.status_code == 200 and
\* promote.json()["lifecycle_state"] == "in_review": a promotion that is
\* answered with 200 has put the version into the state asked for.
PromotionTakesEffect == \A u \in User : answer[u].told = answer[u].asked
================================================================================
