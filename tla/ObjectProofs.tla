----------------------------- MODULE ObjectProofs -----------------------------
(***************************************************************************)
(* Proofs about objects and their versions.  ObjectStore, for any clients, *)
(* objects, files, contents and number of uploads: versions are numbered   *)
(* without gaps or doubles, every version has its blob and its parse task, *)
(* keys are owned by a version of the content, and a stored blob is        *)
(* written over only by an upload that will be refused.  Lifecycle, for    *)
(* any users, roles and versions: the audit trail tells the state and what *)
(* the event log tells, and no version gets ahead of its review.           *)
(***************************************************************************)
EXTENDS ObjectStore, Lifecycle, FiniteSetTheorems, TLAPS

USE ObjectStoreConstants, LifecycleConstants

--------------------------------------------------------------------------------
(* ObjectStore: the inductive invariant *)

Count(o) == Cardinality(VersionsOf(o))

\* Uploads that have still to be given an id, and those that have one.
Pending == {d \in Client : req[d] # Idle /\ req[d].op # "inserted"}
IsInserted(c) == req[c].op = "inserted"

\* Ids are handed out in order, and there is one left for every pending upload.
IdsValid ==
    /\ \A v \in Committed : v <= ids
    /\ ids + Cardinality(Pending) <= MaxIds

\* A key is of an own version of the content, or of a version that is there.
KeyValid(object, num, file, content, key) ==
    \/ key = StorageKey(object, num, file)
    \/ \E w \in Committed : key = OwnKey(w) /\ versions[w].content = content

\* The number an upload has read is of a version that is there by now or the
\* next one; what it is about to insert can rely on blob and key.
PendingFits(c) ==
    /\ req[c].num <= Count(req[c].object) + 1
    /\ req[c].op = "unmatched" =>
         req[c].key = StorageKey(req[c].object, req[c].num, req[c].file)
    /\ req[c].op = "stored" =>
         /\ blobs[req[c].key] # NoBlob
         /\ KeyValid(req[c].object, req[c].num, req[c].file, req[c].content, req[c].key)

PendingValid == \A c \in Pending : PendingFits(c)

\* An inserted row has the next number of its object, and no other open
\* transaction has one for that object.
RowFits(id, r) ==
    /\ id <= ids /\ id \in tasks /\ versions[id] = NoVersion
    /\ r.num = Count(r.object) + 1
    /\ blobs[r.key] # NoBlob
    /\ KeyValid(r.object, r.num, r.file, r.content, r.key)

Apart(c, d) ==
    IsInserted(c) /\ IsInserted(d) =>
        req[c].id # req[d].id /\ req[c].row.object # req[d].row.object

InsertedValid ==
    /\ \A c \in Client : IsInserted(c) => RowFits(req[c].id, req[c].row)
    /\ \A c, d \in Client : c # d => Apart(c, d)

IInv == TypeOK /\ IdsValid /\ PendingValid /\ InsertedValid
          /\ VersionsNumbered /\ VersionsComplete /\ KeysOwned

--------------------------------------------------------------------------------
(* Sets of versions *)

LEMMA GreatestOfInterval ==
    ASSUME NEW n \in Nat \ {0}
    PROVE  Max(1 .. n) = n
<1>1. n \in 1 .. n /\ \A y \in 1 .. n : n >= y
  OBVIOUS
<1>2. \A x \in 1 .. n : (\A y \in 1 .. n : x >= y) => x = n
  BY <1>1
<1> QED BY <1>1, <1>2 DEF Max

LEMMA VersionsFinite ==
    \A o : IsFiniteSet(VersionsOf(o)) /\ Count(o) \in Nat
<1>1. IsFiniteSet(Id)
  BY FS_Interval DEF Id
<1>2. \A o : VersionsOf(o) \subseteq Id
  BY DEF VersionsOf, Committed
<1> QED BY <1>1, <1>2, FS_Subset, FS_CardinalityType DEF Count

LEMMA PendingFinite ==
    IsFiniteSet(Pending) /\ Cardinality(Pending) \in Nat
<1>1. Pending \subseteq Client
  BY DEF Pending
<1> QED BY <1>1, FS_Subset, FS_CardinalityType

LEMMA VersionKinds ==
    ASSUME TypeOK, NEW v \in Committed
    PROVE  versions[v] \in Version /\ v \in Id
  BY DEF TypeOK, Committed

\* The own keys of two versions of an object differ.
LEMMA KeysDistinct ==
    \A o, n, f, p, m, g : StorageKey(o, n, f) = StorageKey(p, m, g) => o = p /\ n = m /\ f = g
  BY DEF StorageKey

\* Ids are handed out in order, so there are as many versions as ids at most.
LEMMA CountBounded ==
    ASSUME TypeOK, IdsValid
    PROVE  \A o : Count(o) <= ids
<1>1. ids \in Nat /\ IsFiniteSet(1 .. ids) /\ Cardinality(1 .. ids) = ids
  <2>1. ids \in Nat
    BY DEF TypeOK, Id
  <2> QED BY <2>1, FS_Interval
<1>2. \A o : VersionsOf(o) \subseteq 1 .. ids
  BY <1>1 DEF VersionsOf, IdsValid, Committed, Id
<1> QED BY <1>1, <1>2, FS_Subset DEF Count

LEMMA RequestKinds ==
    ASSUME TypeOK, NEW c \in Client
    PROVE  /\ Idle.op = "idle"
           /\ req[c] = Idle <=> req[c].op = "idle"
           /\ c \in Pending <=> req[c].op \in {"begun", "unmatched", "stored"}
           /\ c \in Pending => /\ req[c].object \in Object /\ req[c].num \in Id
                               /\ req[c].file \in File /\ req[c].content \in Content
           /\ req[c].op = "begun" => req[c] \in Upload
           /\ req[c].op \in {"unmatched", "stored"} => req[c] \in KeyedUpload
           /\ req[c].op = "inserted" => req[c] \in InsertedUpload
  BY DEF TypeOK, Idle, Upload, KeyedUpload, InsertedUpload, Pending

LEMMA InitIInv == Init => IInv
<1> SUFFICES ASSUME Init PROVE IInv
  OBVIOUS
<1>1. Committed = {} /\ \A o : VersionsOf(o) = {} /\ Numbers(o) = {}
  BY DEF Init, Committed, VersionsOf, Numbers
<1>2. Pending = {} /\ \A c \in Client : ~IsInserted(c)
  BY DEF Init, Pending, IsInserted, Idle
<1>3. TypeOK
  BY DEF Init, TypeOK
<1>4. Cardinality({}) = 0 /\ 1 .. 0 = {}
  BY FS_EmptySet
<1>5. VersionsNumbered
  BY <1>1, <1>4 DEF VersionsNumbered
<1>6. IdsValid
  BY <1>1, <1>2, <1>4 DEF Init, IdsValid
<1>7. PendingValid /\ InsertedValid
  BY <1>2 DEF PendingValid, InsertedValid, Apart
<1> QED BY <1>1, <1>3, <1>5, <1>6, <1>7 DEF IInv, VersionsComplete, KeysOwned

--------------------------------------------------------------------------------
(* Steps that leave the table alone *)

\* What does not depend on requests is kept as long as blobs and tasks are.
LEMMA TableKept ==
    ASSUME IInv, versions' = versions, tasks \subseteq tasks',
           \A k \in Key : blobs[k] # NoBlob => blobs'[k] # NoBlob
    PROVE  /\ Committed' = Committed
           /\ \A o : VersionsOf(o)' = VersionsOf(o) /\ Numbers(o)' = Numbers(o)
                     /\ Count(o)' = Count(o)
           /\ \A o, n, f, x, k : KeyValid(o, n, f, x, k) => KeyValid(o, n, f, x, k)'
           /\ VersionsNumbered' /\ VersionsComplete' /\ KeysOwned'
<1>1. Committed' = Committed
  BY DEF Committed
<1>2. \A o : VersionsOf(o)' = VersionsOf(o)
  BY <1>1 DEF VersionsOf
<1>3. \A o : Numbers(o)' = Numbers(o) /\ Count(o)' = Count(o)
  BY <1>2 DEF Numbers, Count
<1>4. \A v : OwnKey(v)' = OwnKey(v)
  BY DEF OwnKey, StorageKey
<1>5. \A o, n, f, x, k : KeyValid(o, n, f, x, k) => KeyValid(o, n, f, x, k)'
  BY <1>1, <1>4 DEF KeyValid, StorageKey
<1>6. VersionsNumbered'
  BY <1>2, <1>3 DEF IInv, VersionsNumbered
<1>7. \A v \in Committed : versions[v].key \in Key
  BY VersionKinds DEF IInv, Version
<1>8. VersionsComplete'
  BY <1>1, <1>7 DEF IInv, VersionsComplete
<1>9. KeysOwned'
  BY <1>1, <1>4 DEF IInv, KeysOwned
<1> QED BY <1>1, <1>2, <1>3, <1>5, <1>6, <1>8, <1>9

\* A step of one upload before its row is inserted, or its end without one.
LEMMA PendingStep ==
    ASSUME IInv, TypeOK', NEW c \in Client,
           versions' = versions, ids' = ids, tasks' = tasks,
           \A k \in Key : blobs[k] # NoBlob => blobs'[k] # NoBlob,
           \A d \in Client \ {c} : req'[d] = req[d],
           ~IsInserted(c)',
           ids + Cardinality(Pending') <= MaxIds,
           c \in Pending' =>
             /\ req'[c].num <= Count(req'[c].object) + 1
             /\ req'[c].op = "unmatched" =>
                  req'[c].key = StorageKey(req'[c].object, req'[c].num, req'[c].file)
             /\ req'[c].op = "stored" =>
                  /\ blobs'[req'[c].key] # NoBlob
                  /\ KeyValid(req'[c].object, req'[c].num, req'[c].file,
                              req'[c].content, req'[c].key)
    PROVE  IInv'
<1>1. /\ Committed' = Committed
      /\ \A o : Count(o)' = Count(o)
      /\ \A o, n, f, x, k : KeyValid(o, n, f, x, k) => KeyValid(o, n, f, x, k)'
      /\ VersionsNumbered' /\ VersionsComplete' /\ KeysOwned'
  BY TableKept
<1>2. IdsValid'
  BY <1>1 DEF IInv, IdsValid
<1>3. ASSUME NEW d \in Client, d \in Pending'
      PROVE  PendingFits(d)'
  <2> DEFINE o == req'[d].object
             n == req'[d].num
             f == req'[d].file
             x == req'[d].content
             k == req'[d].key
  <2>1. /\ n <= Count(o) + 1
        /\ req'[d].op = "unmatched" => k = StorageKey(o, n, f)
        /\ req'[d].op = "stored" => blobs'[k] # NoBlob /\ KeyValid(o, n, f, x, k)
    <3>1. CASE d = c
      BY <1>3, <3>1
    <3>2. CASE d # c
      <4>1. req'[d] = req[d] /\ d \in Pending
        BY <1>3, <3>2 DEF Pending
      <4>2. req[d].op = "stored" => req[d].key \in Key
        BY <4>1, RequestKinds DEF IInv, KeyedUpload
      <4>3. PendingFits(d)
        BY <4>1 DEF IInv, PendingValid
      <4> QED BY <4>1, <4>2, <4>3 DEF PendingFits
    <3> QED BY <3>1, <3>2
  <2> QED BY <2>1 DEF PendingFits, Count, VersionsOf, Committed, KeyValid, OwnKey,
                      StorageKey
<1>4. PendingValid'
  BY <1>3 DEF PendingValid, Pending
<1>5. ASSUME NEW d \in Client, IsInserted(d)'
      PROVE  /\ d # c /\ req'[d] = req[d] /\ IsInserted(d)
             /\ req[d].row.key \in Key
  <2>1. d # c /\ req'[d] = req[d] /\ IsInserted(d)
    BY <1>5 DEF IsInserted
  <2>2. req[d] \in InsertedUpload
    BY <2>1, RequestKinds DEF IInv, IsInserted
  <2> QED BY <2>1, <2>2 DEF InsertedUpload, Version
<1>6. ASSUME NEW d \in Client, IsInserted(d)'
      PROVE  RowFits(req[d].id, req[d].row)'
  <2> SUFFICES RowFits(req[d].id, req[d].row)'
    OBVIOUS
  <2>1. RowFits(req[d].id, req[d].row)
    BY <1>5, <1>6 DEF IInv, InsertedValid
  <2>2. req'[d] = req[d] /\ req[d].row.key \in Key
    BY <1>5, <1>6
  <2> QED BY <1>1, <2>1, <2>2 DEF RowFits
<1>7. ASSUME NEW d \in Client, NEW e \in Client, d # e
      PROVE  Apart(d, e)'
  <2>1. Apart(d, e)
    BY <1>7 DEF IInv, InsertedValid
  <2> QED BY <1>5, <2>1 DEF Apart
<1>8. InsertedValid'
  BY <1>6, <1>7 DEF InsertedValid
<1> QED BY <1>1, <1>2, <1>4, <1>8 DEF IInv

\* A set of pending uploads that does not grow leaves room.
LEMMA RoomKept ==
    ASSUME IInv, Pending' \subseteq Pending
    PROVE  ids + Cardinality(Pending') <= MaxIds
<1>1. Cardinality(Pending') <= Cardinality(Pending) /\ Cardinality(Pending') \in Nat
      /\ Cardinality(Pending) \in Nat
  <2>1. IsFiniteSet(Pending')
    BY PendingFinite, FS_Subset
  <2> QED BY <2>1, PendingFinite, FS_Subset, FS_CardinalityType
<1>2. ids \in Nat /\ ids + Cardinality(Pending) <= MaxIds
  BY DEF IInv, TypeOK, IdsValid, Id
<1> QED BY <1>1, <1>2

LEMMA NextNumber ==
    ASSUME IInv, NEW o \in Object
    PROVE  /\ VersionsOf(o) = {} => Count(o) = 0
           /\ VersionsOf(o) # {} => Max(Numbers(o)) = Count(o)
<1>1. VersionsOf(o) = {} => Count(o) = 0
  BY FS_EmptySet DEF Count
<1>2. ASSUME VersionsOf(o) # {}
      PROVE  Max(Numbers(o)) = Count(o)
  <2>1. Count(o) \in Nat \ {0}
    BY <1>2, VersionsFinite, FS_EmptySet DEF Count
  <2>2. Numbers(o) = 1 .. Count(o)
    BY DEF IInv, VersionsNumbered, Count
  <2> QED BY <2>1, <2>2, GreatestOfInterval
<1> QED BY <1>1, <1>2

LEMMA BeginUploadIInv ==
    ASSUME IInv, NEW c \in Client, NEW o \in Object, NEW f \in File, NEW x \in Content,
           BeginUpload(c, o, f, x)
    PROVE  IInv'
<1> DEFINE num == IF Fresh(o) THEN 1 ELSE Max(Numbers(o)) + 1
           r == [op |-> "begun", object |-> o, file |-> f, content |-> x, num |-> num]
<1>1. /\ req[c] = Idle /\ req' = [req EXCEPT ![c] = r]
      /\ ids + Cardinality(Pending) < MaxIds
      /\ Fresh(o) \/ VersionsOf(o) # {}
      /\ UNCHANGED <<versions, blobs, tasks, ids>>
  BY DEF BeginUpload, Pending
<1>2. num = Count(o) + 1
  BY <1>1, NextNumber, VersionsFinite DEF Fresh
<1>3. num \in Id
  <2>1. Count(o) <= ids /\ Count(o) \in Nat /\ ids \in Nat /\ Cardinality(Pending) \in Nat
    BY CountBounded, VersionsFinite, PendingFinite DEF IInv, TypeOK, Id
  <2> QED BY <1>1, <1>2, <2>1 DEF Id
<1>4. r \in Upload /\ r # Idle /\ r.op = "begun" /\ r.num = Count(o) + 1 /\ r.object = o
  BY <1>2, <1>3 DEF Upload, Idle
<1> HIDE DEF num, r
<1>5. TypeOK'
  BY <1>1, <1>4 DEF IInv, TypeOK
<1>6. req'[c] = r /\ \A d \in Client \ {c} : req'[d] = req[d]
  BY <1>1 DEF IInv, TypeOK
<1>7. c \notin Pending /\ Pending' = Pending \cup {c}
  BY <1>1, <1>4, <1>6 DEF Pending
<1>8. Cardinality(Pending') = Cardinality(Pending) + 1
  BY <1>7, PendingFinite, FS_AddElement
<1>9. ids + Cardinality(Pending') <= MaxIds
  BY <1>1, <1>8, PendingFinite DEF IInv, TypeOK, Id
<1>10. Count(o) \in Nat
  BY VersionsFinite
<1> QED BY <1>1, <1>4, <1>5, <1>6, <1>9, <1>10, PendingStep DEF IsInserted

LEMMA MatchContentIInv ==
    ASSUME IInv, NEW c \in Client, MatchContent(c)
    PROVE  IInv'
<1>1. PICK v \in Committed : versions[v].content = req[c].content
                             /\ req' = [req EXCEPT ![c] = Keyed(@, "stored", versions[v].key)]
  BY DEF MatchContent
<1> DEFINE r == Keyed(req[c], "stored", versions[v].key)
<1>2. req[c] \in Upload /\ c \in Pending /\ versions[v] \in Version
  BY RequestKinds, VersionKinds DEF IInv, MatchContent
<1>3. req'[c] = r /\ \A d \in Client \ {c} : req'[d] = req[d]
  BY <1>1 DEF IInv, TypeOK
<1>4. /\ r \in KeyedUpload /\ r # Idle /\ r.op = "stored"
      /\ r.object = req[c].object /\ r.num = req[c].num /\ r.file = req[c].file
      /\ r.content = req[c].content /\ r.key = versions[v].key
  BY <1>2 DEF Keyed, KeyedUpload, Upload, Idle, Version
<1>5. req' = [req EXCEPT ![c] = r]
  BY <1>1
<1> HIDE DEF r
<1>6. TypeOK'
  BY <1>4, <1>5 DEF IInv, TypeOK, MatchContent
<1>7. Pending' \subseteq Pending
  BY <1>2, <1>3 DEF Pending
<1>8. blobs[r.key] # NoBlob
  BY <1>1, <1>4 DEF IInv, VersionsComplete
<1>9. KeyValid(r.object, r.num, r.file, r.content, r.key)
  BY <1>1, <1>4 DEF IInv, KeysOwned, KeyValid
<1>10. r.num <= Count(r.object) + 1
  BY <1>2, <1>4 DEF IInv, PendingValid, PendingFits
<1> QED BY <1>3, <1>4, <1>6, <1>7, <1>8, <1>9, <1>10, RoomKept, PendingStep
        DEF MatchContent, IsInserted

LEMMA MatchNothingIInv ==
    ASSUME IInv, NEW c \in Client, MatchNothing(c)
    PROVE  IInv'
<1> DEFINE key == StorageKey(req[c].object, req[c].num, req[c].file)
           r == Keyed(req[c], "unmatched", key)
<1>1. req' = [req EXCEPT ![c] = r]
  BY DEF MatchNothing
<1>2. req[c] \in Upload /\ c \in Pending /\ key \in Key
  <2>1. req[c] \in Upload /\ c \in Pending
    BY RequestKinds DEF IInv, MatchNothing
  <2> QED BY <2>1 DEF Upload, StorageKey, Key
<1>3. req'[c] = r /\ \A d \in Client \ {c} : req'[d] = req[d]
  BY <1>1 DEF IInv, TypeOK
<1>4. /\ r \in KeyedUpload /\ r # Idle /\ r.op = "unmatched"
      /\ r.object = req[c].object /\ r.num = req[c].num /\ r.file = req[c].file
      /\ r.content = req[c].content /\ r.key = key
  BY <1>2 DEF Keyed, KeyedUpload, Upload, Idle
<1> HIDE DEF r
<1>5. r.key = StorageKey(r.object, r.num, r.file)
  BY <1>4
<1>6. TypeOK'
  BY <1>1, <1>4 DEF IInv, TypeOK, MatchNothing
<1>7. Pending' \subseteq Pending
  BY <1>2, <1>3 DEF Pending
<1>8. r.num <= Count(r.object) + 1
  BY <1>2, <1>4 DEF IInv, PendingValid, PendingFits
<1> QED BY <1>3, <1>4, <1>5, <1>6, <1>7, <1>8, RoomKept, PendingStep
        DEF MatchNothing, IsInserted

LEMMA StoreBlobIInv ==
    ASSUME IInv, NEW c \in Client, StoreBlob(c)
    PROVE  IInv'
<1> DEFINE r == [req[c] EXCEPT !.op = "stored"]
<1>1. req' = [req EXCEPT ![c] = r]
  BY DEF StoreBlob
<1>2. req[c] \in KeyedUpload /\ c \in Pending
  BY RequestKinds DEF IInv, StoreBlob
<1>3. req'[c] = r /\ \A d \in Client \ {c} : req'[d] = req[d]
  BY <1>1 DEF IInv, TypeOK
<1>4. /\ r \in KeyedUpload /\ r # Idle /\ r.op = "stored"
      /\ r.object = req[c].object /\ r.num = req[c].num /\ r.file = req[c].file
      /\ r.content = req[c].content /\ r.key = req[c].key
  BY <1>2 DEF KeyedUpload, Idle
<1> HIDE DEF r
<1>5. r.key \in Key /\ r.content \in Content
  BY <1>4 DEF KeyedUpload
<1>6. blobs' = [blobs EXCEPT ![r.key] = r.content]
  BY <1>4 DEF StoreBlob
<1>7. TypeOK'
  BY <1>1, <1>4, <1>5, <1>6 DEF IInv, TypeOK, StoreBlob
<1>8. \A k \in Key : blobs[k] # NoBlob => blobs'[k] # NoBlob
  BY <1>5, <1>6 DEF IInv, TypeOK
<1>9. blobs'[r.key] # NoBlob
  BY <1>5, <1>6 DEF IInv, TypeOK
<1>10. KeyValid(r.object, r.num, r.file, r.content, r.key)
  BY <1>2, <1>4 DEF IInv, PendingValid, PendingFits, KeyValid, StoreBlob
<1>11. r.num <= Count(r.object) + 1
  BY <1>2, <1>4 DEF IInv, PendingValid, PendingFits
<1>12. Pending' \subseteq Pending
  BY <1>2, <1>3 DEF Pending
<1> QED BY <1>3, <1>4, <1>7, <1>8, <1>9, <1>10, <1>11, <1>12, RoomKept, PendingStep
        DEF StoreBlob, IsInserted

LEMMA AbortIInv ==
    ASSUME IInv, NEW c \in Client, Abort(c)
    PROVE  IInv'
<1>1. req'[c] = Idle /\ \A d \in Client \ {c} : req'[d] = req[d]
  BY DEF IInv, TypeOK, Abort
<1>2. TypeOK'
  BY DEF IInv, TypeOK, Abort
<1>3. c \notin Pending' /\ Pending' \subseteq Pending
  BY <1>1 DEF Pending
<1>4. ~IsInserted(c)'
  BY <1>1 DEF IsInserted, Idle
<1> QED BY <1>1, <1>2, <1>3, <1>4, RoomKept, PendingStep DEF Abort

--------------------------------------------------------------------------------
(* The row and its commit *)

\* What other uploads rely on is kept by a step that leaves their requests alone,
\* in which no count shrinks and no valid key becomes invalid.
LEMMA OthersKept ==
    ASSUME IInv, NEW c \in Client, NEW d \in Client \ {c},
           req'[d] = req[d], blobs' = blobs, ids <= ids', ids' \in Nat, tasks \subseteq tasks',
           \A o : Count(o) <= Count(o)' /\ Count(o)' \in Nat,
           \A o, n, f, x, k : KeyValid(o, n, f, x, k) => KeyValid(o, n, f, x, k)',
           IsInserted(d) => versions'[req[d].id] = versions[req[d].id],
           \A o : IsInserted(d) /\ o = req[d].row.object => Count(o)' = Count(o)
    PROVE  /\ d \in Pending => PendingFits(d)'
           /\ IsInserted(d) => RowFits(req[d].id, req[d].row)'
<1> PICK r : r = req[d]
  OBVIOUS
<1>1. ASSUME d \in Pending PROVE PendingFits(d)'
  <2>1. PendingFits(d) /\ req[d].num \in Nat
    BY <1>1, RequestKinds DEF IInv, PendingValid, Id
  <2>2. /\ r.num <= Count(r.object)
           \/ r.num <= Count(r.object) + 1
        /\ Count(r.object) \in Nat
    BY <2>1, VersionsFinite DEF PendingFits
  <2>3. r.num <= Count(r.object)' + 1
    <3>1. Count(r.object) <= Count(r.object)' /\ Count(r.object)' \in Nat
      OBVIOUS
    <3> QED BY <2>1, <2>2, <3>1
  <2>4. r.op = "stored" => KeyValid(r.object, r.num, r.file, r.content, r.key)'
    BY <2>1 DEF PendingFits
  <2> HIDE DEF PendingFits
  <2>5. r.op = "unmatched" => r.key = StorageKey(r.object, r.num, r.file)
    BY <2>1 DEF PendingFits
  <2>6. r.op = "stored" => blobs[r.key] # NoBlob
    BY <2>1 DEF PendingFits
  <2> QED BY <2>3, <2>4, <2>5, <2>6
          DEF PendingFits, Count, VersionsOf, Committed, KeyValid, OwnKey, StorageKey
<1>2. ASSUME IsInserted(d) PROVE RowFits(req[d].id, req[d].row)'
  <2>1. RowFits(r.id, r.row) /\ req[d] \in InsertedUpload
    BY <1>2, RequestKinds DEF IInv, InsertedValid, IsInserted
  <2>2. r.id \in Nat /\ ids \in Nat
    BY <2>1 DEF InsertedUpload, IInv, TypeOK, Id
  <2>3. r.row.num = Count(r.row.object)' + 1
    BY <1>2, <2>1 DEF RowFits
  <2>4. KeyValid(r.row.object, r.row.num, r.row.file, r.row.content, r.row.key)'
    BY <2>1 DEF RowFits
  <2>5. r.id <= ids' /\ r.id \in tasks' /\ versions'[r.id] = NoVersion
        /\ blobs'[r.row.key] # NoBlob
    BY <1>2, <2>1, <2>2 DEF RowFits
  <2> QED BY <2>3, <2>4, <2>5
          DEF RowFits, Count, VersionsOf, Committed, KeyValid, OwnKey, StorageKey
<1> QED BY <1>1, <1>2

LEMMA InsertIInv ==
    ASSUME IInv, NEW c \in Client, Insert(c)
    PROVE  IInv'
<1> PICK row : row = [object |-> req[c].object, num |-> req[c].num, file |-> req[c].file,
                      content |-> req[c].content, key |-> req[c].key]
  OBVIOUS
<1> PICK r : r = [op |-> "inserted", id |-> ids + 1, row |-> row]
  OBVIOUS
<1>1. /\ req[c].op = "stored" /\ NumberFree(req[c].object, req[c].num)
      /\ req' = [req EXCEPT ![c] = r] /\ ids' = ids + 1 /\ tasks' = tasks \cup {ids + 1}
      /\ UNCHANGED <<versions, blobs>>
  BY DEF Insert
<1>2. req[c] \in KeyedUpload /\ c \in Pending /\ PendingFits(c) /\ row \in Version
  <2>1. req[c] \in KeyedUpload /\ c \in Pending
    BY <1>1, RequestKinds DEF IInv
  <2> QED BY <2>1 DEF IInv, PendingValid, KeyedUpload, Version
<1>3. /\ row.object = req[c].object /\ row.num = req[c].num /\ row.file = req[c].file
      /\ row.content = req[c].content /\ row.key = req[c].key
      /\ r.op = "inserted" /\ r.id = ids + 1 /\ r.row = row /\ r # Idle
  BY DEF Idle
<1>4. Pending' = Pending \ {c}
  BY <1>1, <1>2, <1>3 DEF Pending, IInv, TypeOK
<1>5. ids \in Nat /\ Cardinality(Pending') \in Nat
      /\ Cardinality(Pending) = Cardinality(Pending') + 1
  <2>1. Cardinality(Pending') = Cardinality(Pending) - 1 /\ IsFiniteSet(Pending')
    BY <1>2, <1>4, PendingFinite, FS_RemoveElement
  <2> QED BY <2>1, PendingFinite, FS_CardinalityType DEF IInv, TypeOK, Id
<1>6. ids + 1 \in Id /\ ids' + Cardinality(Pending') <= MaxIds
  BY <1>1, <1>5 DEF IInv, IdsValid, Id
<1>7. r \in InsertedUpload
  BY <1>2, <1>6 DEF InsertedUpload
<1>8. req'[c] = r /\ \A d \in Client \ {c} : req'[d] = req[d]
  BY <1>1 DEF IInv, TypeOK
<1>9. TypeOK'
  BY <1>1, <1>6, <1>7 DEF IInv, TypeOK
<1>10. /\ Committed' = Committed
       /\ \A o : VersionsOf(o)' = VersionsOf(o) /\ Count(o)' = Count(o)
       /\ \A o, n, f, x, k : KeyValid(o, n, f, x, k) => KeyValid(o, n, f, x, k)'
       /\ VersionsNumbered' /\ VersionsComplete' /\ KeysOwned'
  BY <1>1, TableKept
<1>11. \A v \in Committed : v \in Nat /\ v <= ids
  BY DEF IInv, IdsValid, Committed, Id
<1>12. IdsValid'
  BY <1>1, <1>5, <1>6, <1>10, <1>11 DEF IdsValid
<1>13. ids + 1 \notin Committed /\ versions[ids + 1] = NoVersion
  BY <1>5, <1>6, <1>11 DEF Committed
<1>14. row.num = Count(row.object) + 1
  <2>1. row.num \in Nat /\ row.num >= 1 /\ row.object \in Object
    BY <1>2 DEF Version, Id
  <2>2. Numbers(row.object) = 1 .. Count(row.object) /\ Count(row.object) \in Nat
    BY <2>1, VersionsFinite DEF IInv, VersionsNumbered, Count
  <2>3. row.num \notin 1 .. Count(row.object) /\ row.num <= Count(row.object) + 1
    BY <1>1, <1>2, <1>3, <2>2 DEF NumberFree, PendingFits
  <2> QED BY <2>1, <2>2, <2>3
<1>15. blobs[row.key] # NoBlob
       /\ KeyValid(row.object, row.num, row.file, row.content, row.key)
  BY <1>1, <1>2, <1>3 DEF PendingFits
<1>16. RowFits(r.id, r.row)'
  <2>1. /\ r.id <= ids' /\ r.id \in tasks' /\ versions'[r.id] = NoVersion
        /\ blobs'[row.key] # NoBlob
    BY <1>1, <1>3, <1>5, <1>13, <1>15
  <2>2. /\ row.num = Count(row.object)' + 1
        /\ KeyValid(row.object, row.num, row.file, row.content, row.key)'
    BY <1>10, <1>14, <1>15
  <2> QED BY <1>3, <2>1, <2>2 DEF RowFits
<1>17. ASSUME NEW d \in Client \ {c}
       PROVE  /\ d \in Pending => PendingFits(d)'
              /\ IsInserted(d) => RowFits(req[d].id, req[d].row)'
  BY <1>1, <1>5, <1>8, <1>10, OthersKept, VersionsFinite
<1>18. PendingValid'
  BY <1>4, <1>17 DEF PendingValid, Pending
<1>19. ASSUME NEW d \in Client, IsInserted(d)'
       PROVE  RowFits(req[d].id, req[d].row)'
  <2>1. CASE d = c
    BY <1>3, <1>8, <1>16, <2>1
       DEF RowFits, Count, VersionsOf, Committed, KeyValid, OwnKey, StorageKey
  <2>2. CASE d # c
    BY <1>8, <1>17, <1>19, <2>2 DEF IsInserted
  <2> QED BY <2>1, <2>2
<1>20. ASSUME NEW d \in Client \ {c}, IsInserted(d)
       PROVE  req[d].id # r.id /\ req[d].row.object # row.object
  <2>1. RowFits(req[d].id, req[d].row) /\ req[d] \in InsertedUpload
    BY <1>20, RequestKinds DEF IInv, InsertedValid, IsInserted
  <2>2. req[d].id # r.id
    BY <1>3, <1>5, <2>1 DEF RowFits, InsertedUpload, Id
  <2>3. req[d].row.object # row.object
    BY <1>1, <1>3, <1>14, <1>20, <2>1 DEF NumberFree, RowFits, IsInserted
  <2> QED BY <2>2, <2>3
<1>21. ASSUME NEW d \in Client, NEW e \in Client, d # e
       PROVE  Apart(d, e)'
  BY <1>3, <1>8, <1>20, <1>21 DEF Apart, IsInserted, IInv, InsertedValid
<1>22. InsertedValid'
  BY <1>19, <1>21 DEF InsertedValid
<1> QED BY <1>9, <1>10, <1>12, <1>18, <1>22 DEF IInv

LEMMA CommitIInv ==
    ASSUME IInv, NEW c \in Client, Commit(c)
    PROVE  IInv'
<1> PICK id, row, o : id = req[c].id /\ row = req[c].row /\ o = row.object
  OBVIOUS
<1>1. /\ IsInserted(c) /\ versions' = [versions EXCEPT ![id] = row]
      /\ req' = [req EXCEPT ![c] = Idle]
      /\ UNCHANGED <<blobs, tasks, ids>>
  BY DEF Commit, IsInserted
<1>2. id \in Id /\ row \in Version /\ RowFits(id, row)
  <2>1. req[c] \in InsertedUpload
    BY <1>1, RequestKinds DEF IInv, IsInserted
  <2> QED BY <1>1, <2>1 DEF InsertedUpload, IInv, InsertedValid
<1>3. \A d \in Client \ {c} : IsInserted(d) => req[d].id # id /\ req[d].row.object # o
  BY <1>1 DEF IInv, InsertedValid, Apart
<1>4. req'[c] = Idle /\ \A d \in Client \ {c} : req'[d] = req[d]
  BY <1>1 DEF IInv, TypeOK
<1>5. TypeOK'
  BY <1>1, <1>2 DEF IInv, TypeOK
<1>6. versions'[id] = row /\ \A v \in Id \ {id} : versions'[v] = versions[v]
  BY <1>1, <1>2 DEF IInv, TypeOK
<1>7. row # NoVersion
  BY <1>2 DEF Version, NoVersion
<1>8. id \notin Committed /\ Committed' = Committed \cup {id}
  BY <1>2, <1>6, <1>7 DEF Committed, RowFits
<1>9. /\ VersionsOf(o)' = VersionsOf(o) \cup {id} /\ id \notin VersionsOf(o)
      /\ \A p : p # o => VersionsOf(p)' = VersionsOf(p)
  BY <1>2, <1>6, <1>8 DEF VersionsOf, Committed
<1>10. /\ Count(o) \in Nat /\ Count(o)' = Count(o) + 1
       /\ \A p : p # o => Count(p)' = Count(p)
  <2>1. PICK S : S = VersionsOf(o) /\ IsFiniteSet(S)
    BY VersionsFinite
  <2>2. VersionsOf(o)' = S \cup {id} /\ Cardinality(S \cup {id}) = Cardinality(S) + 1
    BY <1>9, <2>1, FS_AddElement
  <2> QED BY <1>9, <2>1, <2>2, VersionsFinite DEF Count
<1>11. row.num = Count(o) + 1 /\ o \in Object
  BY <1>2 DEF RowFits, Version
<1>12. ASSUME NEW p \in Object
       PROVE  /\ Numbers(p)' = 1 .. Count(p)'
              /\ \A v, w \in VersionsOf(p)' : versions'[v].num = versions'[w].num => v = w
  <2>1. /\ Numbers(p) = 1 .. Count(p)
        /\ \A v, w \in VersionsOf(p) : versions[v].num = versions[w].num => v = w
    BY DEF IInv, VersionsNumbered, Count
  <2>2. \A v \in VersionsOf(p) : v # id /\ v \in Id /\ versions'[v] = versions[v]
    BY <1>6, <1>8 DEF VersionsOf, Committed
  <2>3. CASE p # o
    <3>1. VersionsOf(p)' = VersionsOf(p) /\ Count(p)' = Count(p)
      BY <1>9, <1>10, <2>3
    <3>2. Numbers(p)' = Numbers(p)
      BY <2>2, <3>1 DEF Numbers
    <3> QED BY <2>1, <2>2, <3>1, <3>2
  <2>4. CASE p = o
    <3>1. Numbers(p)' = Numbers(p) \cup {row.num}
      BY <1>6, <1>9, <2>2, <2>4 DEF Numbers
    <3>2. 1 .. Count(p)' = (1 .. Count(p)) \cup {row.num}
      BY <1>10, <1>11, <2>4
    <3>3. \A v \in VersionsOf(p) : versions[v].num # row.num
      <4>1. \A v \in VersionsOf(p) : versions[v].num \in 1 .. Count(p)
        BY <2>1 DEF Numbers
      <4> QED BY <1>10, <1>11, <2>4, <4>1
    <3>4. \A v \in VersionsOf(p)' : v = id \/ v \in VersionsOf(p)
      BY <1>9, <2>4
    <3>5. \A v, w \in VersionsOf(p)' : versions'[v].num = versions'[w].num => v = w
      BY <1>6, <2>1, <2>2, <3>3, <3>4
    <3> QED BY <2>1, <3>1, <3>2, <3>5
  <2> QED BY <2>3, <2>4
<1>13. VersionsNumbered'
  BY <1>12 DEF VersionsNumbered, Count
<1>14. VersionsComplete'
  <2>1. blobs[row.key] # NoBlob /\ id \in tasks
    BY <1>2 DEF RowFits
  <2>2. \A v \in Committed : blobs[versions[v].key] # NoBlob /\ v \in tasks /\ v \in Id /\ v # id
    BY <1>8 DEF IInv, VersionsComplete, Committed
  <2> QED BY <1>1, <1>6, <1>8, <2>1, <2>2 DEF VersionsComplete
<1>15. \A v \in Committed : v # id /\ versions'[v] = versions[v] /\ OwnKey(v)' = OwnKey(v)
  BY <1>6, <1>8 DEF Committed, OwnKey, StorageKey
<1>16. \A p, n, f, x, k : KeyValid(p, n, f, x, k) => KeyValid(p, n, f, x, k)'
  BY <1>8, <1>15 DEF KeyValid, StorageKey
<1>17. KeysOwned'
  <2>1. KeyValid(row.object, row.num, row.file, row.content, row.key)
    BY <1>2 DEF RowFits
  <2>2. OwnKey(id)' = StorageKey(row.object, row.num, row.file)
    BY <1>6 DEF OwnKey, StorageKey
  <2>3. \E w \in Committed' : versions'[id].key = OwnKey(w)'
                              /\ versions'[w].content = versions'[id].content
    BY <1>6, <1>8, <1>15, <2>1, <2>2 DEF KeyValid
  <2>4. \A v \in Committed : \E w \in Committed :
          versions[v].key = OwnKey(w) /\ versions[w].content = versions[v].content
    BY DEF IInv, KeysOwned
  <2> QED BY <1>8, <1>15, <2>3, <2>4 DEF KeysOwned
<1>18. Pending' = Pending
  BY <1>1, <1>4 DEF Pending, IsInserted
<1>19. IdsValid'
  BY <1>1, <1>2, <1>8, <1>18 DEF IInv, IdsValid, RowFits
<1>20. ASSUME NEW d \in Client \ {c}
       PROVE  /\ d \in Pending => PendingFits(d)'
              /\ IsInserted(d) => RowFits(req[d].id, req[d].row)'
  <2>1. \A p : Count(p) <= Count(p)' /\ Count(p)' \in Nat
    BY <1>10, VersionsFinite
  <2>2. IsInserted(d) => req[d].id \in Id \ {id}
    BY <1>3, RequestKinds DEF IInv, IsInserted, InsertedUpload
  <2>3. /\ IsInserted(d) => versions'[req[d].id] = versions[req[d].id]
        /\ \A p : IsInserted(d) /\ p = req[d].row.object => Count(p)' = Count(p)
    BY <1>3, <1>6, <1>10, <2>2
  <2>4. ids \in Nat
    BY DEF IInv, TypeOK, Id
  <2> QED BY <1>1, <1>4, <1>16, <2>1, <2>3, <2>4, OthersKept
<1>21. PendingValid'
  BY <1>1, <1>18, <1>20 DEF PendingValid, Pending, IsInserted
<1>22. \A d \in Client : IsInserted(d)' => d # c /\ IsInserted(d) /\ req'[d] = req[d]
  BY <1>4 DEF IsInserted, Idle
<1>23. InsertedValid'
  BY <1>20, <1>22 DEF InsertedValid, Apart, IInv
<1> QED BY <1>5, <1>13, <1>14, <1>17, <1>19, <1>21, <1>23 DEF IInv

--------------------------------------------------------------------------------
(* ObjectStore: the theorems *)

LEMMA NextIInv ==
    ASSUME IInv, [Next]_vars
    PROVE  IInv'
<1>1. CASE Next
  BY <1>1, BeginUploadIInv, MatchContentIInv, MatchNothingIInv, StoreBlobIInv, InsertIInv,
     CommitIInv, AbortIInv DEF Next
<1>2. CASE UNCHANGED vars
  <2>1. VersionsNumbered' /\ VersionsComplete' /\ KeysOwned'
    BY <1>2, TableKept DEF vars
  <2>2. TypeOK' /\ IdsValid'
    BY <1>2 DEF vars, IInv, TypeOK, IdsValid, Pending, Committed
  <2>3. PendingValid'
    BY <1>2 DEF vars, IInv, Pending, PendingValid, PendingFits, KeyValid, Count, VersionsOf,
       Committed, OwnKey, StorageKey
  <2>4. InsertedValid'
    BY <1>2 DEF vars, IInv, InsertedValid, RowFits, Apart, IsInserted, KeyValid, Count,
       VersionsOf, Committed, OwnKey, StorageKey
  <2> QED BY <2>1, <2>2, <2>3, <2>4 DEF IInv
<1> QED BY <1>1, <1>2

\* Every reachable state of the uploads satisfies the inductive invariant.
THEOREM Invariance == Spec => []IInv
  BY InitIInv, NextIInv, PTL DEF Spec

\* Rows, blobs, tasks and uploads in flight have their types: no upload reads a
\* number that has no id left for it.
THEOREM TypeCorrect == Spec => []TypeOK
  BY Invariance, PTL DEF IInv

\* An object's versions are numbered 1, 2, 3, ..., each number once, however many
\* uploads read the same highest number and whichever of them fail.
THEOREM VersionsAreNumbered == Spec => []VersionsNumbered
  BY Invariance, PTL DEF IInv

\* A version in the table has its blob stored and its parse sent, wherever an
\* upload was cut off.
THEOREM NothingIncomplete == Spec => []VersionsComplete
  BY Invariance, PTL DEF IInv

\* A version's key is the own key of a version of that content, though keys are
\* copied from versions found by content.
THEOREM KeysAreOwned == Spec => []KeysOwned
  BY Invariance, PTL DEF IInv

\* What is stored for a version is stored over only by an upload whose number has
\* been taken meanwhile, and whose row will be refused.
THEOREM OverwritesAreRefused == Spec => OverwritesRefused
<1> DEFINE Overwrite ==
        \A v \in Committed :
          blobs'[versions[v].key] # blobs[versions[v].key] =>
              \E c \in Client :
                  /\ req[c].op = "unmatched"
                  /\ req[c].key = versions[v].key
                  /\ req[c].num \in Numbers(req[c].object)
<1>1. ASSUME IInv, Next PROVE Overwrite
  <2> SUFFICES ASSUME NEW v \in Committed,
                      blobs'[versions[v].key] # blobs[versions[v].key]
               PROVE  \E c \in Client :
                        /\ req[c].op = "unmatched"
                        /\ req[c].key = versions[v].key
                        /\ req[c].num \in Numbers(req[c].object)
    OBVIOUS
  <2>1. PICK c \in Client : StoreBlob(c)
    BY <1>1 DEF Next, BeginUpload, MatchContent, MatchNothing, Insert, Commit, Abort
  <2>2. req[c].key = versions[v].key
    <3>1. versions[v].key \in Key
      BY <1>1, VersionKinds DEF IInv, Version
    <3> QED BY <1>1, <2>1, <3>1 DEF StoreBlob, IInv, TypeOK
  <2>3. req[c].key = StorageKey(req[c].object, req[c].num, req[c].file)
    BY <1>1, <2>1, RequestKinds DEF StoreBlob, IInv, PendingValid, PendingFits
  <2>4. PICK w \in Committed : versions[v].key = OwnKey(w)
    BY <1>1 DEF IInv, KeysOwned
  <2>5. versions[w].object = req[c].object /\ versions[w].num = req[c].num
    <3>1. StorageKey(req[c].object, req[c].num, req[c].file)
            = StorageKey(versions[w].object, versions[w].num, versions[w].file)
      BY <2>2, <2>3, <2>4 DEF OwnKey
    <3> QED BY <3>1, KeysDistinct
  <2>6. req[c].num \in Numbers(req[c].object)
    BY <2>5 DEF Numbers, VersionsOf
  <2> QED BY <2>1, <2>2, <2>6 DEF StoreBlob
<1>2. IInv /\ [Next]_vars => [Overwrite]_vars
  BY <1>1
<1>3. OverwritesRefused <=> [][Overwrite]_vars
  BY PTL DEF OverwritesRefused
<1> QED BY <1>2, <1>3, Invariance, PTL DEF Spec

--------------------------------------------------------------------------------
(* Lifecycle: the inductive invariant *)


\* What has to be in a version's trail before it is in a state.
Before(s) ==
    (IF s \in {"approved", "released", "obsolete"}
       THEN {<<"draft", "in_review">>, <<"in_review", "approved">>} ELSE {})
    \cup (IF s \in {"released", "obsolete"} THEN {<<"approved", "released">>} ELSE {})
    \cup (IF s = "in_review" THEN {<<"draft", "in_review">>} ELSE {})

Passed(v, s) == Before(s) \subseteq Range(trail[v])

\* A version has passed what comes before its state, and before the state in
\* which a promotion in flight has found it.
Reviewed ==
    /\ \A v \in ObjectVersion : Passed(v, state[v])
    /\ \A u \in User : change[u].op = "promote" => Passed(change[u].version, change[u].move[1])

\* The row committed last tells the state; the j-th row's transaction began when
\* fewer than j rows were committed.
LastRowTells ==
    \A v \in ObjectVersion :
        /\ state[v] = IF trail[v] = <<>> THEN "draft" ELSE trail[v][Len(trail[v])][2]
        /\ Len(created[v]) = Len(trail[v])
        /\ \A j \in 1 .. Len(created[v]) : created[v][j] < Len(trail[v])

\* No request in flight began after more commits than there are.
Begun ==
    \A u \in User : change[u].op = "promote" => change[u].began <= Len(trail[change[u].version])

LifecycleIInv == LifecycleTypeOK /\ LastRowTells /\ Begun /\ Reviewed

LEMMA MovesAreMoves ==
    /\ Moves \subseteq State \X State
    /\ \A move \in Moves : Before(move[2]) \subseteq Before(move[1]) \cup {move}
    BY DEF Moves, Transitions, State, Before

\* A request in flight has the fields of its kind.
LEMMA ChangeKinds ==
    ASSUME LifecycleTypeOK, NEW u \in User, change[u].op = "promote"
    PROVE  /\ change[u].version \in ObjectVersion /\ change[u].move \in Moves
           /\ change[u].began \in Nat
    BY DEF LifecycleTypeOK, NoChange, Promoting, Deleting

\* What an audit row adds to a trail.
LEMMA Appended ==
    ASSUME NEW s \in Seq(Moves), NEW move \in Moves
    PROVE  /\ Append(s, move) \in Seq(Moves)
           /\ Append(s, move) # <<>>
           /\ Append(s, move)[Len(Append(s, move))] = move
           /\ Range(s) \cup {move} \subseteq Range(Append(s, move))
           /\ Len(Append(s, move)) = Len(s) + 1 /\ Len(s) \in Nat
<1>1. /\ Append(s, move) \in Seq(Moves)
      /\ Len(Append(s, move)) = Len(s) + 1
      /\ Append(s, move)[Len(s) + 1] = move
      /\ Len(s) \in Nat
      /\ DOMAIN s = 1 .. Len(s)
      /\ DOMAIN Append(s, move) = 1 .. Len(s) + 1
      /\ \A i \in 1 .. Len(s) : Append(s, move)[i] = s[i]
  OBVIOUS
<1>2. move \in Range(Append(s, move))
  BY <1>1 DEF Range
<1>3. Range(s) \subseteq Range(Append(s, move))
  BY <1>1 DEF Range
<1>4. Append(s, move) # <<>>
  BY <1>1
<1> QED BY <1>1, <1>2, <1>3, <1>4

\* A promotion sets and audits its target, or neither.
LEMMA PromoteCases ==
    ASSUME NEW u \in User, EndPromote(u)
    PROVE  LET v == change[u].version
               move == change[u].move
           IN  \/ state' = state /\ trail' = trail /\ created' = created
               \/ /\ state' = [state EXCEPT ![v] = move[2]]
                  /\ trail' = [trail EXCEPT ![v] = Append(@, move)]
                  /\ created' = [created EXCEPT ![v] = Append(@, change[u].began)]
    BY DEF EndPromote

--------------------------------------------------------------------------------
(* Lifecycle: it is inductive *)

LEMMA LifecycleInitIInv == LifecycleInit => LifecycleIInv
<1> SUFFICES ASSUME LifecycleInit PROVE LifecycleIInv
  OBVIOUS
<1>1. LifecycleTypeOK
  BY DEF LifecycleInit, LifecycleTypeOK, State, NoAnswer
<1>2. LastRowTells /\ Begun
  BY DEF LifecycleInit, LastRowTells, Begun, NoChange
<1>3. Reviewed
  BY DEF LifecycleInit, Reviewed, Passed, Before, NoChange
<1> QED BY <1>1, <1>2, <1>3 DEF LifecycleIInv

\* What an audit row's time adds to a version's times.
LEMMA CreatedAppended ==
    ASSUME NEW s \in Seq(Nat), NEW n \in Nat
    PROVE  /\ Append(s, n) \in Seq(Nat)
           /\ Len(Append(s, n)) = Len(s) + 1
           /\ Append(s, n)[Len(s) + 1] = n
           /\ \A j \in 1 .. Len(s) : Append(s, n)[j] = s[j]
           /\ Len(s) \in Nat
    OBVIOUS

\* A promotion that is answered keeps the invariant.
LEMMA EndPromoteIInv ==
    ASSUME LifecycleIInv, NEW u \in User, EndPromote(u)
    PROVE  LifecycleIInv'
<1> DEFINE v == change[u].version
           move == change[u].move
           began == change[u].began
<1>1. /\ v \in ObjectVersion /\ move \in Moves /\ move[2] \in State
      /\ began \in Nat /\ began <= Len(trail[v])
  BY ChangeKinds, MovesAreMoves DEF LifecycleIInv, Begun, EndPromote
<1>2. \/ state' = state /\ trail' = trail /\ created' = created
      \/ /\ state' = [state EXCEPT ![v] = move[2]]
         /\ trail' = [trail EXCEPT ![v] = Append(trail[v], move)]
         /\ created' = [created EXCEPT ![v] = Append(created[v], began)]
  BY PromoteCases
<1>3. /\ deletions' = deletions
      /\ change' = [change EXCEPT ![u] = NoChange]
      /\ answer' = [answer EXCEPT ![u] = [asked |-> move[2], told |-> state'[v]]]
      /\ log' \subseteq log \cup {<<v, move>>}
  BY DEF EndPromote, Publish, Writing, EventKey
<1>4. /\ state \in [ObjectVersion -> State]
      /\ trail \in [ObjectVersion -> Seq(Moves)]
      /\ created \in [ObjectVersion -> Seq(Nat)]
      /\ log \subseteq ObjectVersion \X Moves
  BY DEF LifecycleIInv, LifecycleTypeOK
<1>5. /\ Append(trail[v], move) \in Seq(Moves)
      /\ Append(trail[v], move) # <<>>
      /\ Append(trail[v], move)[Len(Append(trail[v], move))] = move
      /\ Range(trail[v]) \cup {move} \subseteq Range(Append(trail[v], move))
      /\ Len(Append(trail[v], move)) = Len(trail[v]) + 1 /\ Len(trail[v]) \in Nat
  BY <1>1, <1>4, Appended
<1>6. Passed(v, move[1])
  BY DEF LifecycleIInv, Reviewed, EndPromote
<1> HIDE DEF v, move, began
<1>7. LifecycleTypeOK'
  <2>1. state' \in [ObjectVersion -> State] /\ trail' \in [ObjectVersion -> Seq(Moves)]
    BY <1>1, <1>2, <1>4, <1>5
  <2>2. answer' \in [User -> [asked : State, told : State]]
    BY <1>1, <1>3, <2>1 DEF LifecycleIInv, LifecycleTypeOK
  <2>3. log' \subseteq ObjectVersion \X Moves
    BY <1>1, <1>3, <1>4
  <2>4. created' \in [ObjectVersion -> Seq(Nat)]
    <3>1. Append(created[v], began) \in Seq(Nat)
      BY <1>1, <1>4, CreatedAppended
    <3> QED BY <1>1, <1>2, <1>4, <3>1
  <2> QED BY <1>3, <2>1, <2>2, <2>3, <2>4 DEF LifecycleIInv, LifecycleTypeOK
<1>8. LastRowTells'
  <2> SUFFICES ASSUME NEW w \in ObjectVersion
               PROVE  /\ state'[w] = IF trail'[w] = <<>> THEN "draft"
                                    ELSE trail'[w][Len(trail'[w])][2]
                      /\ Len(created'[w]) = Len(trail'[w])
                      /\ \A j \in 1 .. Len(created'[w]) : created'[w][j] < Len(trail'[w])
    BY DEF LastRowTells
  <2>1. /\ state[w] = IF trail[w] = <<>> THEN "draft" ELSE trail[w][Len(trail[w])][2]
        /\ Len(created[w]) = Len(trail[w])
        /\ \A j \in 1 .. Len(created[w]) : created[w][j] < Len(trail[w])
    BY DEF LifecycleIInv, LastRowTells
  <2>2. state'[w] = IF trail'[w] = <<>> THEN "draft" ELSE trail'[w][Len(trail'[w])][2]
    <3>1. \/ state'[w] = state[w] /\ trail'[w] = trail[w]
          \/ state'[w] = move[2] /\ trail'[w] = Append(trail[v], move)
      BY <1>1, <1>2, <1>4
    <3>2. CASE state'[w] = state[w] /\ trail'[w] = trail[w]
      BY <2>1, <3>2
    <3>3. CASE state'[w] = move[2] /\ trail'[w] = Append(trail[v], move)
      BY <1>5, <3>3
    <3> QED BY <3>1, <3>2, <3>3
  <2>3. CASE trail'[w] = trail[w] /\ created'[w] = created[w]
    BY <2>1, <2>2, <2>3
  <2>4. CASE /\ w = v
             /\ trail'[w] = Append(trail[v], move)
             /\ created'[w] = Append(created[v], began)
    <3>1. /\ Len(created'[w]) = Len(created[w]) + 1 /\ Len(created[w]) \in Nat
          /\ created'[w][Len(created[w]) + 1] = began
          /\ \A j \in 1 .. Len(created[w]) : created'[w][j] = created[w][j]
      BY <1>1, <1>4, <2>4, CreatedAppended
    <3>2. \A j \in 1 .. Len(created[w]) : created[w][j] \in Nat
      BY <1>4
    <3>3. Len(trail'[w]) = Len(trail[w]) + 1
      BY <1>5, <2>4
    <3>4. ASSUME NEW j \in 1 .. Len(created'[w])
          PROVE  created'[w][j] < Len(trail'[w])
      <4>1. j \in 1 .. Len(created[w]) \/ j = Len(created[w]) + 1
        BY <3>1
      <4> QED BY <1>1, <2>1, <2>4, <3>1, <3>2, <3>3, <4>1
    <3> QED BY <2>1, <2>2, <3>1, <3>3, <3>4
  <2> QED BY <1>1, <1>2, <1>4, <2>3, <2>4
<1>9. \A w \in ObjectVersion : Range(trail[w]) \subseteq Range(trail'[w])
  BY <1>1, <1>2, <1>4, <1>5
<1>10. Reviewed'
  <2>1. ASSUME NEW w \in ObjectVersion
        PROVE  Before(state'[w]) \subseteq Range(trail'[w])
    <3>1. CASE state'[w] = state[w]
      BY <1>9, <3>1 DEF LifecycleIInv, Reviewed, Passed
    <3>2. CASE state'[w] # state[w]
      <4>1. /\ w = v
            /\ state'[w] = move[2]
            /\ trail'[w] = Append(trail[v], move)
        BY <1>1, <1>2, <1>4, <3>2
      <4>2. Before(move[2]) \subseteq Before(move[1]) \cup {move}
        BY <1>1, MovesAreMoves
      <4> QED BY <1>5, <1>6, <4>1, <4>2 DEF Passed
    <3> QED BY <3>1, <3>2
  <2>2. ASSUME NEW t \in User, change'[t].op = "promote"
        PROVE  Before(change'[t].move[1]) \subseteq Range(trail'[change'[t].version])
    <3>1. t # u /\ change'[t] = change[t]
      BY <1>3, <2>2 DEF LifecycleIInv, LifecycleTypeOK, NoChange
    <3>2. change[t].version \in ObjectVersion
      BY <2>2, <3>1, ChangeKinds DEF LifecycleIInv
    <3> QED BY <1>9, <2>2, <3>1, <3>2 DEF LifecycleIInv, Reviewed, Passed
  <2> QED BY <2>1, <2>2 DEF Reviewed, Passed, Before
<1>11. Begun'
  <2> SUFFICES ASSUME NEW t \in User, change'[t].op = "promote"
               PROVE  change'[t].began <= Len(trail'[change'[t].version])
    BY DEF Begun
  <2>1. t # u /\ change'[t] = change[t]
    BY <1>3 DEF LifecycleIInv, LifecycleTypeOK, NoChange
  <2>2. /\ change[t].version \in ObjectVersion /\ change[t].began \in Nat
        /\ change[t].began <= Len(trail[change[t].version])
    BY <2>1, ChangeKinds DEF LifecycleIInv, Begun
  <2>3. \A w \in ObjectVersion :
           Len(trail[w]) \in Nat /\ Len(trail'[w]) \in {Len(trail[w]), Len(trail[w]) + 1}
    <3> TAKE w \in ObjectVersion
    <3>1. Len(trail[w]) \in Nat
      BY <1>4
    <3>2. trail'[w] = trail[w] \/ (w = v /\ trail'[w] = Append(trail[v], move))
      BY <1>1, <1>2, <1>4
    <3> QED BY <1>5, <3>1, <3>2
  <2> QED BY <2>1, <2>2, <2>3
<1> QED BY <1>7, <1>8, <1>10, <1>11 DEF LifecycleIInv

\* The steps that write neither state nor trail keep it.
LEMMA OtherChangeIInv ==
    ASSUME LifecycleIInv, NEW u \in User,
           (\E v \in ObjectVersion, target \in State : BeginPromote(u, v, target))
             \/ BeginDelete(u) \/ EndDelete(u) \/ AbortChange(u)
    PROVE  LifecycleIInv'
<1>1. state' = state /\ trail' = trail /\ created' = created /\ log' = log /\ answer' = answer
  BY DEF BeginPromote, BeginDelete, EndDelete, AbortChange
<1>2. LastRowTells'
  BY <1>1 DEF LifecycleIInv, LastRowTells
<1>3. ASSUME NEW v \in ObjectVersion, NEW target \in State, BeginPromote(u, v, target)
      PROVE  LifecycleIInv'
  <2> DEFINE move == <<state[v], target>>
  <2>1. PICK began \in 0 .. Len(trail[v]) :
          /\ change' = [change EXCEPT ![u] = [op |-> "promote", version |-> v, move |-> move,
                                             began |-> began]]
          /\ move \in Moves
          /\ deletions' = deletions
    BY <1>3 DEF BeginPromote
  <2>2. LifecycleTypeOK'
    BY <1>1, <2>1 DEF LifecycleIInv, LifecycleTypeOK, Promoting
  <2>3. Reviewed'
    <3>1. Passed(v, move[1])
      BY DEF LifecycleIInv, Reviewed
    <3> QED BY <1>1, <2>1, <3>1 DEF LifecycleIInv, LifecycleTypeOK, Reviewed, Passed, Before
  <2>4. Begun'
    BY <1>1, <2>1 DEF LifecycleIInv, LifecycleTypeOK, Begun
  <2> QED BY <1>2, <2>2, <2>3, <2>4 DEF LifecycleIInv
<1>4. CASE BeginDelete(u) \/ EndDelete(u) \/ AbortChange(u)
  <2>1. /\ change' \in {[change EXCEPT ![u] = NoChange], [change EXCEPT ![u] = [op |-> "delete"]]}
        /\ deletions' \in {deletions, deletions + 1}
    BY <1>4 DEF BeginDelete, EndDelete, AbortChange
  <2>2. LifecycleTypeOK'
    BY <1>1, <2>1 DEF LifecycleIInv, LifecycleTypeOK, Deleting
  <2>3. Reviewed'
    <3>1. \A t \in User : change'[t].op = "promote" => change'[t] = change[t]
      BY <2>1 DEF LifecycleIInv, LifecycleTypeOK, NoChange
    <3> QED BY <1>1, <3>1 DEF LifecycleIInv, Reviewed, Passed, Before
  <2>4. Begun'
    <3>1. \A t \in User : change'[t].op = "promote" => change'[t] = change[t]
      BY <2>1 DEF LifecycleIInv, LifecycleTypeOK, NoChange
    <3> QED BY <1>1, <3>1 DEF LifecycleIInv, Begun
  <2> QED BY <1>2, <2>2, <2>3, <2>4 DEF LifecycleIInv
<1> QED BY <1>3, <1>4

\* Every step keeps the invariant.
LEMMA LifecycleNextIInv == LifecycleIInv /\ [LifecycleNext]_lifecycleVars => LifecycleIInv'
<1> SUFFICES ASSUME LifecycleIInv, [LifecycleNext]_lifecycleVars
             PROVE  LifecycleIInv'
  OBVIOUS
<1>1. CASE UNCHANGED lifecycleVars
  BY <1>1 DEF lifecycleVars, LifecycleIInv, LifecycleTypeOK, LastRowTells, Begun, Reviewed, Passed,
              Before
<1>2. ASSUME NEW u \in User, EndPromote(u)
      PROVE  LifecycleIInv'
  BY <1>2, EndPromoteIInv
<1>3. ASSUME NEW u \in User,
             (\E v \in ObjectVersion, target \in State : BeginPromote(u, v, target))
               \/ BeginDelete(u) \/ EndDelete(u) \/ AbortChange(u)
      PROVE  LifecycleIInv'
  BY <1>3, OtherChangeIInv
<1> QED BY <1>1, <1>2, <1>3 DEF LifecycleNext

--------------------------------------------------------------------------------
(* Lifecycle: the audit and the event log *)

\* The transitions of a version the event log tells.
Told(v) == {move \in Moves : <<v, move>> \in log}

\* What an audit row adds to a trail, exactly; a trail that gains a new
\* transition still has each once.
LEMMA AppendedOnce ==
    ASSUME NEW s \in Seq(Moves), NEW move \in Moves
    PROVE  /\ Range(Append(s, move)) = Range(s) \cup {move}
           /\ (IsInjective(s) /\ move \notin Range(s)) => IsInjective(Append(s, move))
<1> DEFINE t == Append(s, move)
<1>1. /\ Len(s) \in Nat
      /\ DOMAIN s = 1 .. Len(s)
      /\ DOMAIN t = 1 .. Len(s) + 1
      /\ t[Len(s) + 1] = move
      /\ \A i \in 1 .. Len(s) : t[i] = s[i]
  OBVIOUS
<1>2. Range(t) = Range(s) \cup {move}
  BY <1>1 DEF Range
<1>3. ASSUME IsInjective(s), move \notin Range(s)
      PROVE  IsInjective(t)
  <2>1. \A i \in 1 .. Len(s) : t[i] # move
    BY <1>1, <1>3 DEF Range
  <2>2. \A i, j \in 1 .. Len(s) : t[i] = t[j] => i = j
    BY <1>1, <1>3 DEF IsInjective
  <2>3. \A i \in 1 .. Len(s) + 1 : i \in 1 .. Len(s) \/ i = Len(s) + 1
    BY <1>1
  <2> QED BY <1>1, <2>1, <2>2, <2>3 DEF IsInjective
<1> QED BY <1>2, <1>3

\* A promotion adds to the trail what it adds to the log, unless the object is
\* deleted: then it adds to the trail alone.
LEMMA EndPromoteTrail ==
    ASSUME LifecycleTypeOK, TrailMatchesLog, NEW u \in User, EndPromote(u)
    PROVE  TrailMatchesLog'
<1> DEFINE v == change[u].version
           move == change[u].move
<1>1. v \in ObjectVersion /\ move \in Moves
  BY ChangeKinds DEF EndPromote
<1>2. /\ Deleted' <=> Deleted
      /\ \/ trail' = trail /\ log' = log
         \/ /\ trail' = [trail EXCEPT ![v] = Append(trail[v], move)]
            /\ \/ Deleted /\ log' = log
               \/ <<v, move>> \notin log /\ log' = log \cup {<<v, move>>}
  BY DEF EndPromote, Deleted, Publish, Writing, EventKey
<1>3. trail \in [ObjectVersion -> Seq(Moves)]
  BY DEF LifecycleTypeOK
<1>4. /\ Range(Append(trail[v], move)) = Range(trail[v]) \cup {move}
      /\ IsInjective(trail[v]) /\ move \notin Range(trail[v])
           => IsInjective(Append(trail[v], move))
  BY <1>1, <1>3, AppendedOnce
<1> HIDE DEF v, move
<1> SUFFICES ASSUME NEW w \in ObjectVersion
             PROVE  /\ Told(w)' \subseteq Range(trail'[w])
                    /\ ~Deleted => IsInjective(trail'[w]) /\ Range(trail'[w]) = Told(w)'
  BY <1>2 DEF TrailMatchesLog, Told
<1>5. /\ Told(w) \subseteq Range(trail[w])
      /\ ~Deleted => IsInjective(trail[w]) /\ Range(trail[w]) = Told(w)
  BY DEF TrailMatchesLog, Told
<1>6. CASE w # v \/ (trail' = trail /\ log' = log)
  <2>1. trail'[w] = trail[w] /\ Told(w)' = Told(w)
    BY <1>1, <1>2, <1>3, <1>6 DEF Told
  <2> QED BY <1>5, <2>1
<1>7. CASE w = v /\ ~(trail' = trail /\ log' = log)
  <2>1. trail'[w] = Append(trail[v], move)
    BY <1>1, <1>2, <1>3, <1>7
  <2>2. CASE Deleted /\ log' = log
    <3>1. Told(w)' = Told(w)
      BY <2>2 DEF Told
    <3> QED BY <1>4, <1>5, <1>7, <2>1, <2>2, <3>1
  <2>3. CASE <<v, move>> \notin log /\ log' = log \cup {<<v, move>>}
    <3>1. Told(w)' = Told(w) \cup {move} /\ move \notin Told(w)
      BY <1>1, <1>7, <2>3 DEF Told
    <3>2. Told(w) \subseteq Range(trail[v])
      BY <1>5, <1>7
    <3>3. Told(w)' \subseteq Range(trail'[w])
      BY <1>4, <2>1, <3>1, <3>2
    <3>4. ASSUME ~Deleted
          PROVE  IsInjective(trail'[w]) /\ Range(trail'[w]) = Told(w)'
      <4>1. IsInjective(trail[v]) /\ Range(trail[v]) = Told(w)
        BY <1>5, <1>7, <3>4
      <4>2. move \notin Range(trail[v])
        BY <3>1, <4>1
      <4> QED BY <1>4, <2>1, <3>1, <4>1, <4>2
    <3> QED BY <3>3, <3>4
  <2> QED BY <1>2, <1>7, <2>2, <2>3
<1> QED BY <1>6, <1>7

\* Every step keeps the trails and the log in agreement.
LEMMA NextTrail == LifecycleIInv /\ TrailMatchesLog /\ [LifecycleNext]_lifecycleVars => TrailMatchesLog'
<1> SUFFICES ASSUME LifecycleIInv, TrailMatchesLog, [LifecycleNext]_lifecycleVars
             PROVE  TrailMatchesLog'
  OBVIOUS
<1>1. ASSUME NEW u \in User, EndPromote(u)
      PROVE  TrailMatchesLog'
  BY <1>1, EndPromoteTrail DEF LifecycleIInv
<1>2. ASSUME trail' = trail, log' = log, deletions' \in {deletions, deletions + 1}
      PROVE  TrailMatchesLog'
  <2>1. Deleted => Deleted'
    BY <1>2 DEF LifecycleIInv, LifecycleTypeOK, Deleted
  <2> QED BY <1>2, <2>1 DEF TrailMatchesLog
<1>3. \/ \E u \in User : EndPromote(u)
      \/ trail' = trail /\ log' = log /\ deletions' \in {deletions, deletions + 1}
  BY DEF LifecycleNext, lifecycleVars, BeginPromote, BeginDelete, EndDelete, AbortChange
<1> QED BY <1>1, <1>2, <1>3

--------------------------------------------------------------------------------
(* Lifecycle: the theorems *)

\* Every reachable state satisfies the inductive invariant.
THEOREM LifecycleInvariance == LifecycleSpec => []LifecycleIInv
    BY LifecycleInitIInv, LifecycleNextIInv, PTL DEF LifecycleSpec

\* States, trails, events and requests have their types in every reachable state.
THEOREM LifecycleTypeCorrect == LifecycleSpec => []LifecycleTypeOK
<1>1. LifecycleIInv => LifecycleTypeOK
  BY DEF LifecycleIInv
<1> QED BY <1>1, LifecycleInvariance, PTL

\* A version is in the state an audit row tells after whose commit no other row's
\* transaction began, whatever is rolled back and however promotions race.
THEOREM TrailTellsState == LifecycleSpec => []StateAudited
<1>1. LifecycleIInv => StateAudited
  <2> SUFFICES ASSUME LifecycleIInv, NEW v \in ObjectVersion
               PROVE  IF trail[v] = <<>> THEN state[v] = "draft"
                      ELSE \E i \in DOMAIN trail[v] :
                             /\ state[v] = trail[v][i][2]
                             /\ \A j \in DOMAIN created[v] : created[v][j] < i
    BY DEF StateAudited
  <2>1. /\ trail[v] \in Seq(Moves) /\ created[v] \in Seq(Nat)
        /\ state[v] = IF trail[v] = <<>> THEN "draft" ELSE trail[v][Len(trail[v])][2]
        /\ \A j \in 1 .. Len(created[v]) : created[v][j] < Len(trail[v])
    BY DEF LifecycleIInv, LifecycleTypeOK, LastRowTells
  <2>2. CASE trail[v] # <<>>
    <3>1. Len(trail[v]) \in DOMAIN trail[v] /\ DOMAIN created[v] = 1 .. Len(created[v])
      BY <2>1, <2>2
    <3> QED BY <2>1, <2>2, <3>1
  <2> QED BY <2>1, <2>2
<1> QED BY <1>1, LifecycleInvariance, PTL

\* Nothing is approved, released or obsolete that has not been through every
\* earlier state, whatever requests overtake each other.
THEOREM NoStateSkipped == LifecycleSpec => []NothingSkipped
<1>1. LifecycleIInv => NothingSkipped
  BY DEF LifecycleIInv, Reviewed, Passed, Before, NothingSkipped
<1> QED BY <1>1, LifecycleInvariance, PTL

\* The audit and the event log tell the same transitions, each made once; only
\* of a deleted object may some be missing among the events.
THEOREM TrailAgrees == LifecycleSpec => []TrailMatchesLog
<1>1. LifecycleInit => TrailMatchesLog
  BY DEF LifecycleInit, TrailMatchesLog, Range, IsInjective
<1> QED BY <1>1, NextTrail, LifecycleInvariance, PTL DEF LifecycleSpec
================================================================================
