------------------------------- MODULE ObjectStore -------------------------------
(***************************************************************************)
(* Uploads to the hardware object store (api/app/services/objects.py       *)
(* behind api/app/routers/objects.py): an object's versions are rows that  *)
(* point to blobs in object storage, a content stored already is not       *)
(* stored again.                                                           *)
(*                                                                         *)
(* The rows of an upload become visible together at the router's           *)
(* db.commit(), the blob and the parse task when they are sent.  The       *)
(* steps of an upload are its SELECTs, which may each see something newer, *)
(* the PUT of the blob, the INSERT with what follows it, and the commit.   *)
(***************************************************************************)
EXTENDS Integers, FiniteSets, FiniteSetsExt

CONSTANTS
    Client,  \* connections with at least the editor role
    Object,  \* objects of one organisation
    File,    \* file names
    Content, \* what files contain, and its hash
    NoBlob,  \* nothing is stored under the key
    MaxIds   \* bound: version ids handed out

ASSUME ObjectStoreConstants ==
    /\ NoBlob \notin Content
    /\ IsFiniteSet(Client)
    /\ MaxIds \in Nat

Id == 1 .. MaxIds

Key == Object \X Id \X File

\* Mutant: all versions of a file go under one key.
FirstKey(object, num, file) == <<object, 1, file>>

\* build_storage_key: {org}/{project}/{object}/v{version_num}/raw/{filename}, where
\* clients name the project the object is in.
StorageKey(object, num, file) == <<object, num, file>>

VARIABLES
    versions, \* versions as committed, by id
    blobs,    \* object storage
    tasks,    \* version ids of which a parse has been enqueued
    ids,      \* version ids handed out so far
    req       \* the upload each client has in flight

vars == <<versions, blobs, tasks, ids, req>>

Version == [object : Object, num : Id, file : File, content : Content, key : Key]
NoVersion == [num |-> 0]

Idle == [op |-> "idle"]
Upload == [op : {"begun"}, object : Object, num : Id, file : File, content : Content]
KeyedUpload == [op : {"unmatched", "stored"}, object : Object, num : Id, file : File,
                content : Content, key : Key]
InsertedUpload == [op : {"inserted"}, id : Id, row : Version]

TypeOK ==
    /\ versions \in [Id -> Version \cup {NoVersion}]
    /\ blobs \in [Key -> Content \cup {NoBlob}]
    /\ tasks \subseteq Id
    /\ ids \in Id \cup {0}
    /\ req \in [Client -> {Idle} \cup Upload \cup KeyedUpload \cup InsertedUpload]

Committed == {v \in Id : versions[v] # NoVersion}
VersionsOf(o) == {v \in Committed : versions[v].object = o}
Numbers(o) == {versions[v].num : v \in VersionsOf(o)}

\* The object a request uploads to.
Target(c) == IF req[c].op = "inserted" THEN req[c].row.object ELSE req[c].object

\* The id of an object that is yet to be created.
Fresh(o) ==
    /\ VersionsOf(o) = {}
    /\ \A k \in Key : k[1] = o => blobs[k] = NoBlob
    /\ \A c \in Client : req[c] # Idle => Target(c) # o

--------------------------------------------------------------------------------
\* Without an object_id a new object is created, seen by no one before the
\* commit; with one the version gets the number after the highest.
BeginUpload(c, o, f, x) ==
    /\ req[c] = Idle
    /\ ids + Cardinality({d \in Client : req[d] # Idle /\ req[d].op # "inserted"}) < MaxIds
    /\ Fresh(o) \/ VersionsOf(o) # {}
    /\ req' = [req EXCEPT ![c] = [op |-> "begun", object |-> o, file |-> f, content |-> x,
                                  num |-> IF Fresh(o) THEN 1 ELSE Max(Numbers(o)) + 1]]
    /\ UNCHANGED <<versions, blobs, tasks, ids>>

Keyed(r, op, key) ==
    [op |-> op, object |-> r.object, num |-> r.num, file |-> r.file,
     content |-> r.content, key |-> key]

\* Mutant: a version of the same file name is taken for one of the same content.
MatchFile(c) ==
    /\ req[c].op = "begun"
    /\ \E v \in Committed :
         /\ versions[v].file = req[c].file
         /\ req' = [req EXCEPT ![c] = Keyed(@, "stored", versions[v].key)]
    /\ UNCHANGED <<versions, blobs, tasks, ids>>

\* A version of any object of the organisation has the content: the new one
\* shares its key, and nothing is stored.
MatchContent(c) ==
    /\ req[c].op = "begun"
    /\ \E v \in Committed :
         /\ versions[v].content = req[c].content
         /\ req' = [req EXCEPT ![c] = Keyed(@, "stored", versions[v].key)]
    /\ UNCHANGED <<versions, blobs, tasks, ids>>

\* No version has it: the key is the version's own.
MatchNothing(c) ==
    /\ req[c].op = "begun"
    /\ \A v \in Committed : versions[v].content # req[c].content
    /\ LET r == req[c] IN
         req' = [req EXCEPT ![c] = Keyed(r, "unmatched", StorageKey(r.object, r.num, r.file))]
    /\ UNCHANGED <<versions, blobs, tasks, ids>>

\* Mutant: the row is written first and the blob left for later.
StoreBlobLater(c) ==
    /\ req[c].op = "unmatched"
    /\ req' = [req EXCEPT ![c].op = "stored"]
    /\ UNCHANGED <<versions, blobs, tasks, ids>>

\* The PUT, over whatever is stored under the key.
StoreBlob(c) ==
    /\ req[c].op = "unmatched"
    /\ blobs' = [blobs EXCEPT ![req[c].key] = req[c].content]
    /\ req' = [req EXCEPT ![c].op = "stored"]
    /\ UNCHANGED <<versions, tasks, ids>>

\* Mutant: the table has no UNIQUE (object_id, version_num).
Unguarded(object, num) == TRUE

\* No other row has the number, committed or inserted by an open transaction
\* (which the INSERT waits for; it fails if that one commits).
NumberFree(object, num) ==
    /\ num \notin Numbers(object)
    /\ \A d \in Client : req[d].op = "inserted" =>
         ~(req[d].row.object = object /\ req[d].row.num = num)

\* The version is inserted, audited and published, and its parse enqueued.
Insert(c) ==
    /\ req[c].op = "stored"
    /\ LET r == req[c] IN
         /\ NumberFree(r.object, r.num)
         /\ req' = [req EXCEPT ![c] =
                [op |-> "inserted", id |-> ids + 1,
                 row |-> [object |-> r.object, num |-> r.num, file |-> r.file,
                          content |-> r.content, key |-> r.key]]]
    /\ ids' = ids + 1
    /\ tasks' = tasks \cup {ids + 1}
    /\ UNCHANGED <<versions, blobs>>

Commit(c) ==
    /\ req[c].op = "inserted"
    /\ versions' = [versions EXCEPT ![req[c].id] = req[c].row]
    /\ req' = [req EXCEPT ![c] = Idle]
    /\ UNCHANGED <<blobs, tasks, ids>>

\* An upload that is refused, fails or dies with its server leaves no row, but
\* the blob it has stored and the task it has sent.
Abort(c) ==
    /\ req[c] # Idle
    /\ req' = [req EXCEPT ![c] = Idle]
    /\ UNCHANGED <<versions, blobs, tasks, ids>>

\* The versions table as its migration leaves it.
Init ==
    /\ versions = [v \in Id |-> NoVersion]
    /\ blobs = [k \in Key |-> NoBlob]
    /\ tasks = {}
    /\ ids = 0
    /\ req = [c \in Client |-> Idle]

Next ==
    \E c \in Client :
        \/ \E o \in Object, f \in File, x \in Content : BeginUpload(c, o, f, x)
        \/ MatchContent(c)
        \/ MatchNothing(c)
        \/ StoreBlob(c)
        \/ Insert(c)
        \/ Commit(c)
        \/ Abort(c)

Spec == Init /\ [][Next]_vars

--------------------------------------------------------------------------------
\* The versions of an object are numbered 1, 2, 3, ..., each number once,
\* whichever uploads race for a number and whichever fail.
VersionsNumbered ==
    \A o \in Object :
        /\ Numbers(o) = 1 .. Cardinality(VersionsOf(o))
        /\ \A v, w \in VersionsOf(o) : versions[v].num = versions[w].num => v = w

\* Every version in the table has a blob under its key and a parse on its way,
\* at whatever point a request or a server has died.
VersionsComplete ==
    \A v \in Committed : blobs[versions[v].key] # NoBlob /\ v \in tasks

\* However versions share blobs, the key of each is the own key of a version of
\* that content: two contents never share a key.
OwnKey(v) == StorageKey(versions[v].object, versions[v].num, versions[v].file)

KeysOwned ==
    \A v \in Committed :
        \E w \in Committed :
            versions[v].key = OwnKey(w) /\ versions[w].content = versions[v].content

\* What is stored for a version is stored over only by an upload that read the
\* table before that key's owner was in it, and that will be refused.
OverwritesRefused ==
    [][\A v \in Committed :
         blobs'[versions[v].key] # blobs[versions[v].key] =>
             \E c \in Client :
                 /\ req[c].op = "unmatched"
                 /\ req[c].key = versions[v].key
                 /\ req[c].num \in Numbers(req[c].object)]_vars

\* docs/V1_MVP_SCOPE.md:9, "content-addressed dedup; no in-place overwrite":
\* what is stored for a version is what was uploaded as that version.
BlobsIntact == \A v \in Committed : blobs[versions[v].key] = versions[v].content
================================================================================
