---------------------------- MODULE EventTransaction ----------------------------
(***************************************************************************)
(* What EventPublisher.publish (api/app/services/events.py) does to the    *)
(* database transaction it is called in.  An event whose key is already in *)
(* event_log violates UNIQUE (org, project, event_type, dedupe_key); the   *)
(* publisher then rolls back the session it was given, so the caller's     *)
(* own writes are undone too, and goes on in a new transaction.            *)
(***************************************************************************)

\* A transaction: whether the caller's writes are still in it, and the events
\* it will add to the log when it commits.
Writing == [kept |-> TRUE, events |-> {}]

\* Mutant: only the event is rolled back.
PublishKeeping(log, txn, key) ==
    [txn EXCEPT !.events = @ \cup ({key} \ log)]

Publish(log, txn, key) ==
    IF key \in log \cup txn.events
      THEN [kept |-> FALSE, events |-> {}]
      ELSE [txn EXCEPT !.events = @ \cup {key}]
================================================================================
