--------------------------- MODULE ParsePipelineProofs ---------------------------
(***************************************************************************)
(* Proofs about ParsePipeline for any objects, versions, parts, processes, *)
(* workers, retries and budgets: a row that says parsed has its output, a  *)
(* search hit has its subgraph, and the pipeline implements                *)
(* ArtifactStages - a version's artifacts come into being in order and     *)
(* stay.                                                                   *)
(***************************************************************************)
EXTENDS ParsePipeline, TLAPS

-----------------------------------------------------------------------------
(* The inductive invariant *)

TaskNames == {"parse", "link", "enrich"}
Tries == 0..MaxRetries
Tasks == [name : TaskNames, version : Versions, form : {"api", "uuid", "plain"}, try : Tries]

ParsePcs == {"start", "parse", "conclude", "announce", "chain", "fail", "retry"}
LinkPcs == {"read", "scaffold", "parts", "derived", "index", "delay", "tell"}
Pcs == ParsePcs \cup LinkPcs \cup {"select", "insert"}
Runs == [pc : Pcs, name : TaskNames, v : Versions, try : Tries, parts : SUBSET Parts]

EdgeTypes == {"HAS_VERSION", "SUPERSEDES", "USES", "DERIVED_FROM"} \cup ObjectRelTypes

(* What a request may still ask the graph for.                              *)
AllLinks ==
  ObjectLinks \cup {Edge(VersionNode(v), "DERIVED_FROM", VersionNode(w)) : v, w \in Versions}

Requests == [kind : {"upload", "bundle", "import"}, by : Processes,
             left : SUBSET Versions, made : SUBSET Versions, rels : SUBSET AllLinks]

RequestFits ==
  \/ request = NoRequest
  \/ request \in Requests /\ \A v \in request.left \cup request.made : ~Committed(v)

Events == {"parse_complete", "auto_link_complete"} \X Versions

Typed ==
  /\ rows \in [Versions -> Statuses]
  /\ runs \in [Workers -> Runs \cup {Idle}]
  /\ BagToSet(queue) \subseteq Tasks
  /\ neo = [up |-> neo.up, nodes |-> neo.nodes, edges |-> neo.edges]
  /\ index \subseteq Versions /\ stored \subseteq Versions /\ keyed \subseteq Versions
  /\ neo.nodes \subseteq Nodes /\ published \subseteq Events
  /\ \A relationship \in told : relationship[2] \in ObjectLinks

(* What a worker's run has seen to by the step it is at.                    *)
RunFits(r) ==
  r # Idle =>
    /\ r.pc \in ParsePcs \ {"start", "fail", "retry"} => Committed(r.v)
    /\ r.pc = "conclude" => r.v \in stored
    /\ r.pc \in {"announce", "chain"} => r.v \in keyed
    /\ r.pc \in LinkPcs \ {"read"} => r.v \in keyed
    /\ r.pc = "scaffold" => r.parts = PartsOf[r.v]
    /\ r.pc \in {"parts", "derived"} =>
         /\ ObjectNode(ObjectOf[r.v]) \in neo.nodes /\ VersionNode(r.v) \in neo.nodes
         /\ \A p \in PartsOf[r.v] \ r.parts :
              Uses(r.v, p) \in Made
    /\ r.pc \in {"derived", "index"} => LinkedFully(r.v)
    /\ r.pc \in {"delay", "tell"} => r.v \in index

(* An edge that was made joins nodes that are there.                        *)
EdgeFits(e) ==
  /\ {e.from, e.to} \subseteq neo.nodes
  /\ e.type = "HAS_VERSION" => \E v \in Versions : e = HasVersion(v) /\ v \in stored

(* Each artifact of a version rests on the one before.                      *)
VersionFits(v) ==
  /\ v \in stored => Committed(v)
  /\ v \in keyed => v \in stored
  /\ rows[v] \in {"complete", "skipped"} => v \in keyed
  /\ <<"parse_complete", v>> \in published => v \in keyed
  /\ v \in index => LinkedFully(v)
  /\ <<"auto_link_complete", v>> \in published => v \in index

IInv ==
  /\ Typed /\ RequestFits
  /\ \A w \in Workers : RunFits(runs[w])
  /\ \A e \in Made : EdgeFits(e)
  /\ \A v \in Versions : VersionFits(v)

-----------------------------------------------------------------------------
(* Bags of tasks, nodes and edges *)

LEMMA BagSets ==
  /\ \A S : BagToSet(SetToBag(S)) = S
  /\ BagToSet(EmptyBag) = {}
  /\ \A B, C : BagToSet(B (+) C) = BagToSet(B) \cup BagToSet(C)
  /\ \A B, C : BagToSet(B (-) C) \subseteq BagToSet(B)
  BY DEF BagToSet, SetToBag, EmptyBag, (+), (-)

LEMMA Sending ==
  ASSUME NEW S, Send(S)
  PROVE  BagToSet(queue') = BagToSet(queue) \cup S
  BY BagSets DEF Send

LEMMA FirstTry == 0 \in Tries
  BY PipelineAssumption DEF Tries

LEMMA NodeKinds ==
  /\ \A a, b : ObjectNode(a) # VersionNode(b) /\ ObjectNode(a) # PartNode(b)
               /\ VersionNode(a) # PartNode(b)
  /\ \A a, b : ObjectNode(a) = ObjectNode(b) => a = b
  /\ \A a, b : VersionNode(a) = VersionNode(b) => a = b
  /\ \A a, b : PartNode(a) = PartNode(b) => a = b
  BY DEF ObjectNode, VersionNode, PartNode

LEMMA EdgeParts ==
  \A a, t, b : LET e == Edge(a, t, b) IN e.from = a /\ e.type = t /\ e.to = b
  BY DEF Edge

(* Links of requests and users are none of the edges that link a version.   *)
LEMMA LinksApart ==
  ASSUME NEW l \in AllLinks
  PROVE  /\ l.type # "HAS_VERSION"
         /\ \A v : l # HasVersion(v)
         /\ \A v, p : l # Uses(v, p)
<1>1. CASE l \in ObjectLinks
  <2>1. PICK a \in Objects, b \in Objects, t \in LinkTypes : l = Link(a, t, b)
    BY <1>1 DEF ObjectLinks
  <2>2. l.from = ObjectNode(a) /\ l.type = t /\ l.to = ObjectNode(b)
    BY <2>1, EdgeParts DEF Link
  <2>3. t # "HAS_VERSION"
    BY LinkTypesAssumption DEF ObjectRelTypes
  <2> QED BY <2>2, <2>3, EdgeParts, NodeKinds DEF HasVersion, Uses
<1>2. CASE \E v, w \in Versions : l = Edge(VersionNode(v), "DERIVED_FROM", VersionNode(w))
  <2>1. l.type = "DERIVED_FROM"
    BY <1>2, EdgeParts
  <2> QED BY <2>1, EdgeParts DEF HasVersion, Uses
<1> QED BY <1>1, <1>2 DEF AllLinks

-----------------------------------------------------------------------------
(* What steps keep *)

(* What is there stays: rows, outputs, subgraphs, documents.                *)
NothingLost ==
  /\ \A v \in Versions : Committed(v) => Committed(v)'
  /\ stored \subseteq stored' /\ keyed \subseteq keyed' /\ index \subseteq index'
  /\ neo.nodes \subseteq neo'.nodes
  /\ \A v \in Versions :
       /\ HasVersion(v) \in Made => HasVersion(v) \in Made'
       /\ \A p \in Parts : Uses(v, p) \in Made =>
                           Uses(v, p) \in Made'

(* As far as it links versions, the graph is as before.                     *)
SameSubgraphs ==
  /\ neo'.nodes = neo.nodes
  /\ \A v \in Versions :
       /\ HasVersion(v) \in Made' <=> HasVersion(v) \in Made
       /\ \A p \in Parts : Uses(v, p) \in Made' <=>
                           Uses(v, p) \in Made

LEMMA PartsTyped == \A v \in Versions : PartsOf[v] \subseteq Parts
  BY VersionsAssumption

LEMMA LinkedStays ==
  ASSUME NothingLost, NEW v \in Versions, LinkedFully(v)
  PROVE  LinkedFully(v)'
<1>1. \A p \in PartsOf[v] : Uses(v, p) \in Made'
  BY PartsTyped DEF NothingLost, LinkedFully
<1> QED BY <1>1 DEF NothingLost, LinkedFully, HasVersion, Edge, VersionNode, PartNode, ObjectNode

LEMMA LinkedSame ==
  ASSUME SameSubgraphs, NEW v \in Versions
  PROVE  LinkedFully(v)' <=> LinkedFully(v)
<1>1. (\A p \in PartsOf[v] : Uses(v, p) \in Made')
      <=> (\A p \in PartsOf[v] : Uses(v, p) \in Made)
  BY PartsTyped DEF SameSubgraphs
<1> QED BY <1>1 DEF SameSubgraphs, LinkedFully, HasVersion, Edge, VersionNode, PartNode,
                    ObjectNode

LEMMA RunFields ==
  ASSUME NEW r \in Runs \cup {Idle}
  PROVE  /\ r # Idle => /\ r.v \in Versions /\ r.pc \in Pcs /\ r.parts \subseteq Parts
                        /\ r.name \in TaskNames /\ r.try \in Tries
         /\ r = Idle <=> r.pc = "idle"
         /\ RunFits(Idle)
  BY DEF Runs, Idle, Pcs, ParsePcs, LinkPcs, RunFits

LEMMA RunKept ==
  ASSUME NothingLost, NEW r \in Runs \cup {Idle}, RunFits(r)
  PROVE  RunFits(r)'
<1>1. CASE r = Idle
  BY <1>1 DEF RunFits
<1>2. CASE r # Idle
  <2>1. r.v \in Versions /\ PartsOf[r.v] \subseteq Parts
    BY <1>2, RunFields, PartsTyped
  <2>2. r.pc \in {"derived", "index"} => LinkedFully(r.v)'
    BY <1>2, <2>1, LinkedStays DEF RunFits
  <2>3. r.pc \in {"parts", "derived"} =>
          /\ ObjectNode(ObjectOf[r.v]) \in neo'.nodes /\ VersionNode(r.v) \in neo'.nodes
          /\ \A p \in PartsOf[r.v] \ r.parts :
               Uses(r.v, p) \in Made'
    BY <1>2, <2>1 DEF RunFits, NothingLost
  <2>4. r.pc \in ParsePcs \ {"start", "fail", "retry"} => Committed(r.v)'
    BY <1>2, <2>1 DEF RunFits, NothingLost
  <2>5. /\ r.pc = "conclude" => r.v \in stored'
        /\ r.pc \in {"announce", "chain"} => r.v \in keyed'
        /\ r.pc \in LinkPcs \ {"read"} => r.v \in keyed'
        /\ r.pc = "scaffold" => r.parts = PartsOf[r.v]
        /\ r.pc \in {"delay", "tell"} => r.v \in index'
    BY <1>2 DEF RunFits, NothingLost
  <2> QED BY <2>2, <2>3, <2>4, <2>5 DEF RunFits, ObjectNode, VersionNode, PartNode, Edge
<1> QED BY <1>1, <1>2

(* So a step has to account for the run it moves only.                      *)
LEMMA RunMoves ==
  ASSUME IInv, NothingLost, NEW w \in Workers, NEW r \in Runs \cup {Idle},
         runs' = [runs EXCEPT ![w] = r], RunFits(r)'
  PROVE  (\A x \in Workers : RunFits(runs[x])') /\ runs' \in [Workers -> Runs \cup {Idle}]
<1>1. ASSUME NEW x \in Workers PROVE RunFits(runs[x])'
  <2>1. CASE x = w
    <3>1. runs'[x] = r
      BY <2>1 DEF IInv, Typed
    <3> QED BY <3>1 DEF RunFits
  <2>2. CASE x # w
    <3>1. PICK s \in Runs \cup {Idle} : s = runs[x] /\ RunFits(s)
      BY DEF IInv, Typed
    <3>2. runs'[x] = s
      BY <2>2, <3>1 DEF IInv, Typed
    <3>3. RunFits(s)'
      BY <3>1, RunKept
    <3> QED BY <3>2, <3>3 DEF RunFits
  <2> QED BY <2>1, <2>2
<1> QED BY <1>1 DEF IInv, Typed

LEMMA RunsKept ==
  ASSUME IInv, NothingLost, runs' = runs
  PROVE  \A x \in Workers : RunFits(runs[x])'
<1> SUFFICES ASSUME NEW x \in Workers PROVE RunFits(runs[x])'
  OBVIOUS
<1>1. PICK s \in Runs \cup {Idle} : s = runs[x] /\ RunFits(s)
  BY DEF IInv, Typed
<1>2. runs'[x] = s /\ RunFits(s)'
  BY <1>1, RunKept
<1> QED BY <1>2 DEF RunFits

(* Steps of requests, users and the database that may add or take links of  *)
(* objects.                                                                 *)
LEMMA OutsideStep ==
  ASSUME IInv, Typed', RequestFits', SameSubgraphs, \A e \in Made' : EdgeFits(e)',
         UNCHANGED <<rows, keyed, stored, index, published, runs>>
  PROVE  IInv' /\ stages' = stages
<1>1. \A v \in Versions : Committed(v)' <=> Committed(v)
  BY DEF Committed
<1>2. NothingLost
  BY <1>1 DEF NothingLost, SameSubgraphs
<1>3. \A x \in Workers : RunFits(runs[x])'
  BY <1>2, RunsKept
<1>4. \A v \in Versions : LinkedFully(v)' <=> LinkedFully(v)
  BY LinkedSame
<1>5. \A v \in Versions : VersionFits(v)'
  BY <1>1, <1>4 DEF IInv, VersionFits
<1>6. \A v \in Versions : StageOf(v)' = StageOf(v)
  BY <1>1, <1>4 DEF StageOf
<1> QED BY <1>3, <1>5, <1>6 DEF IInv, stages

(* What is made or deleted changes what was made as one expects.            *)
LEMMA MadeOnly ==
  /\ UNCHANGED <<neo, unlinked>> => Made' = Made
  /\ \A S : neo'.edges = neo.edges \cup S /\ Remake => Made' = Made \cup S
  BY DEF Made, Remake

LEMMA SameGraph ==
  ASSUME IInv, UNCHANGED <<neo, unlinked>>, stored \subseteq stored'
  PROVE  SameSubgraphs /\ \A e \in Made' : EdgeFits(e)'
<1>1. \A e \in Made : EdgeFits(e)'
  BY DEF IInv, EdgeFits, HasVersion
<1> QED BY <1>1, MadeOnly DEF SameSubgraphs

(* Steps of a worker that write nothing but its run and the queue.          *)
LEMMA QuietRun ==
  ASSUME IInv, NEW w \in Workers, NEW r \in Runs \cup {Idle},
         runs' = [runs EXCEPT ![w] = r], RunFits(r), BagToSet(queue') \subseteq Tasks,
         UNCHANGED <<neo, unlinked, told, rows, keyed, stored, index, published, request>>
  PROVE  IInv' /\ stages' = stages
<1>1. \A v : Committed(v)' <=> Committed(v)
  BY DEF Committed
<1>2. SameSubgraphs /\ \A e \in Made' : EdgeFits(e)'
  BY SameGraph
<1>3. NothingLost
  BY <1>1, MadeOnly DEF NothingLost
<1>4. (\A x \in Workers : RunFits(runs[x])') /\ runs' \in [Workers -> Runs \cup {Idle}]
  BY <1>3, RunKept, RunMoves
<1>5. \A v \in Versions : LinkedFully(v)' <=> LinkedFully(v)
  BY <1>2, LinkedSame
<1>6. \A v \in Versions : VersionFits(v)'
  BY <1>1, <1>5 DEF IInv, VersionFits
<1>7. \A v \in Versions : StageOf(v)' = StageOf(v)
  BY <1>1, <1>5 DEF StageOf
<1>8. Typed'
  BY <1>4 DEF IInv, Typed
<1>9. RequestFits'
  BY <1>1 DEF IInv, RequestFits
<1> QED BY <1>2, <1>4, <1>6, <1>7, <1>8, <1>9 DEF IInv, stages

LEMMA InitIInv == Init => IInv /\ Stages!Init
<1> SUFFICES ASSUME Init PROVE IInv /\ Stages!Init
  OBVIOUS
<1>1. neo = [up |-> TRUE, nodes |-> {}, edges |-> {}] /\ told = {} /\ Made = {}
  BY DEF Init, GraphInit, Made
<1>2. \A v \in Versions : ~Committed(v) /\ ~LinkedFully(v)
  BY <1>1 DEF Init, Committed, LinkedFully
<1>3. Typed
  BY <1>1, BagSets DEF Init, Typed, Statuses
<1>4. \A w \in Workers : RunFits(runs[w])
  BY DEF Init, RunFits
<1>5. \A v \in Versions : VersionFits(v)
  BY DEF Init, VersionFits
<1>6. RequestFits /\ \A e \in Made : EdgeFits(e)
  BY <1>1 DEF Init, RequestFits
<1>7. \A v \in Versions : StageOf(v) = 0
  BY <1>2 DEF StageOf, Init
<1>8. Stages!Init
  BY <1>7 DEF Stages!Init, stages
<1> QED BY <1>3, <1>4, <1>5, <1>6, <1>8 DEF IInv

-----------------------------------------------------------------------------
(* Requests *)

LEMMA BeginRequestStep ==
  ASSUME IInv, NEW p \in Processes, BeginRequest(p)
  PROVE  IInv' /\ stages' = stages
<1>1. /\ UNCHANGED <<neo, unlinked, told, rows, keyed, stored, index, published, runs, queue>>
      /\ Typed'
  BY DEF BeginRequest, taskVars, graphVars, IInv, Typed
<1>2. CASE \E v \in Versions : NextNumber(v) /\
        request' = [kind |-> "upload", by |-> p, left |-> {v}, made |-> {}, rels |-> {}]
  <2>1. RequestFits'
    BY <1>1, <1>2 DEF RequestFits, Requests, NextNumber, Committed
  <2> QED BY <1>1, <2>1, SameGraph, OutsideStep
<1>3. ASSUME NEW vs \in SUBSET {v \in Versions : FirstOf(v)}, NEW kind \in {"bundle", "import"},
             NEW rels \in {{}} \cup
                 IF kind = "bundle" THEN {{l} : l \in Relationships(vs)} ELSE {},
             request' = [kind |-> kind, by |-> p, left |-> vs, made |-> {}, rels |-> rels]
      PROVE  IInv' /\ stages' = stages
  <2>1. \A v \in vs : v \in Versions /\ ~Committed(v)
    BY DEF FirstOf
  <2>2. Relationships(vs) \subseteq AllLinks
    BY <2>1 DEF Relationships, AllLinks
  <2>3. rels \subseteq AllLinks
    BY <2>2
  <2>4. request' \in Requests /\ request'.left = vs /\ request'.made = {}
    BY <1>3, <2>1, <2>3 DEF Requests
  <2>5. RequestFits'
    BY <1>1, <2>1, <2>4 DEF RequestFits, Committed
  <2> QED BY <1>1, <2>5, SameGraph, OutsideStep
<1> QED BY <1>2, <1>3 DEF BeginRequest

LEMMA UploadOneStep ==
  ASSUME IInv, UploadOne
  PROVE  IInv' /\ stages' = stages
<1>1. PICK v \in request.left :
        /\ request' = [request EXCEPT !.left = @ \ {v}, !.made = @ \cup {v}]
        /\ Send({Task("parse", v, "api", 0)} \cup
                IF request.kind = "import" THEN {Task("parse", v, "uuid", 0)} ELSE {})
  BY DEF UploadOne
<1>2. /\ request \in Requests /\ v \in Versions
      /\ \A u \in request.left \cup request.made : ~Committed(u)
  BY DEF UploadOne, IInv, RequestFits, Requests
<1>3. UNCHANGED <<neo, unlinked, told, rows, keyed, stored, index, published, runs>>
  BY DEF UploadOne, graphVars
<1>4. Task("parse", v, "api", 0) \in Tasks /\ Task("parse", v, "uuid", 0) \in Tasks
  BY <1>2, FirstTry DEF Task, Tasks, TaskNames
<1>5. BagToSet(queue') \subseteq Tasks
  BY <1>1, <1>4, Sending DEF IInv, Typed
<1>6. Typed'
  BY <1>3, <1>5 DEF IInv, Typed
<1>7. /\ request' \in Requests /\ request'.left = request.left \ {v}
      /\ request'.made = request.made \cup {v}
  BY <1>1, <1>2 DEF Requests
<1>8. RequestFits'
  BY <1>2, <1>3, <1>7 DEF RequestFits, Committed
<1> QED BY <1>3, <1>6, <1>8, SameGraph, OutsideStep

(* A link that is made joins nodes that are there.                          *)
LEMMA LinkMade ==
  ASSUME IInv, NEW p \in Processes, NEW l \in AllLinks, MakeLink(p, l), stored' = stored
  PROVE  /\ SameSubgraphs /\ \A e \in Made' : EdgeFits(e)'
         /\ neo' = [up |-> neo'.up, nodes |-> neo'.nodes, edges |-> neo'.edges]
<1>1. CASE neo' = neo
  <2>1. neo'.edges = neo.edges \cup {} /\ Remake
    BY <1>1 DEF MakeLink
  <2>2. Made' = Made
    BY <2>1, MadeOnly
  <2>3. \A e \in Made : EdgeFits(e)'
    BY <1>1 DEF IInv, EdgeFits, HasVersion
  <2> QED BY <1>1, <2>2, <2>3 DEF IInv, Typed, SameSubgraphs
<1>2. CASE Matched({l}) # {} /\ neo' = [neo EXCEPT !.edges = @ \cup {l}]
  <2>1. /\ neo'.nodes = neo.nodes /\ neo'.edges = neo.edges \cup {l}
        /\ neo' = [up |-> neo'.up, nodes |-> neo'.nodes, edges |-> neo'.edges]
    BY <1>2 DEF IInv, Typed
  <2>2. l.from \in neo.nodes /\ l.to \in neo.nodes
    BY <1>2 DEF Matched
  <2>3. Made' = Made \cup {l}
    BY <2>1, MadeOnly DEF MakeLink
  <2>4. SameSubgraphs
    BY <2>1, <2>3, LinksApart DEF SameSubgraphs, Uses
  <2>5. EdgeFits(l)'
    BY <2>1, <2>2, LinksApart DEF EdgeFits
  <2>6. ASSUME NEW e \in Made PROVE EdgeFits(e)'
    BY <2>1 DEF IInv, EdgeFits, HasVersion
  <2> QED BY <2>1, <2>3, <2>4, <2>5, <2>6
<1> QED BY <1>1, <1>2 DEF MakeLink

LEMMA ApplyRelationshipStep ==
  ASSUME IInv, ApplyRelationship
  PROVE  IInv' /\ stages' = stages
<1>1. PICK l \in request.rels : /\ MakeLink(request.by, l)
                                /\ request' = [request EXCEPT !.rels = @ \ {l}]
  BY DEF ApplyRelationship
<1>2. /\ request \in Requests /\ l \in AllLinks /\ request.by \in Processes
      /\ \A u \in request.left \cup request.made : ~Committed(u)
      /\ UNCHANGED <<told, rows, keyed, stored, index, published, runs, queue>>
  BY DEF ApplyRelationship, taskVars, IInv, RequestFits, Requests
<1>3. /\ SameSubgraphs /\ \A e \in Made' : EdgeFits(e)'
      /\ neo' = [up |-> neo'.up, nodes |-> neo'.nodes, edges |-> neo'.edges]
  BY <1>1, <1>2, LinkMade
<1>4. Typed'
  BY <1>2, <1>3 DEF IInv, Typed, SameSubgraphs
<1>5. /\ request' \in Requests /\ request'.left = request.left /\ request'.made = request.made
  BY <1>1, <1>2 DEF Requests
<1>6. RequestFits'
  BY <1>2, <1>5 DEF RequestFits, Committed
<1> QED BY <1>2, <1>3, <1>4, <1>6, OutsideStep

(* The versions a request commits had none of their artifacts.              *)
LEMMA CommitRequestStep ==
  ASSUME IInv, CommitRequest
  PROVE  IInv' /\ Stages!Upload
<1>1. /\ request \in Requests /\ request.made \subseteq Versions
      /\ \A v \in request.made : ~Committed(v)
      /\ rows' = [v \in Versions |-> IF v \in request.made THEN "pending" ELSE rows[v]]
      /\ request' = NoRequest
      /\ UNCHANGED <<neo, unlinked, told, keyed, queue, runs, stored, index, published>>
  BY DEF CommitRequest, graphVars, IInv, RequestFits, Requests
<1>2. \A v \in Versions : Committed(v)' <=> Committed(v) \/ v \in request.made
  BY <1>1 DEF Committed
<1>3. SameSubgraphs /\ \A e \in Made' : EdgeFits(e)'
  BY <1>1, SameGraph
<1>4. NothingLost
  BY <1>1, <1>2, MadeOnly DEF NothingLost
<1>5. \A x \in Workers : RunFits(runs[x])'
  BY <1>1, <1>4, RunsKept
<1>6. \A v \in Versions : LinkedFully(v)' <=> LinkedFully(v)
  BY <1>3, LinkedSame
<1>7. \A v \in Versions : VersionFits(v)'
  BY <1>1, <1>2, <1>6 DEF IInv, VersionFits, Committed
<1>8. Typed' /\ RequestFits'
  BY <1>1 DEF IInv, Typed, Statuses, RequestFits
<1>9. ASSUME NEW v \in Versions, LinkedFully(v) PROVE v \in stored
  BY <1>9, EdgeParts DEF LinkedFully, IInv, EdgeFits, HasVersion, Edge, VersionNode
<1>10. \A v \in request.made : StageOf(v) = 0
  BY <1>1, <1>9 DEF StageOf, IInv, VersionFits
<1>11. ASSUME NEW v \in Versions
       PROVE  StageOf(v)' = IF v \in request.made THEN 1 ELSE StageOf(v)
  BY <1>1, <1>2, <1>6, <1>9 DEF StageOf, IInv, VersionFits
<1>12. Stages!Upload
  <2>1. \A v \in Versions : StageOf(v) \in 0..4
    BY DEF StageOf
  <2>2. \A v \in Versions : stages[v] = StageOf(v) /\ stages'[v] = StageOf(v)'
    BY DEF stages
  <2>3. stages' \in [Versions -> 0..4]
    <3>1. \A v \in Versions : StageOf(v)' \in 0..4
      BY <1>11, <2>1
    <3> QED BY <3>1 DEF stages
  <2> QED BY <1>10, <1>11, <2>2, <2>3 DEF Stages!Upload
<1> QED BY <1>1, <1>3, <1>5, <1>7, <1>8, <1>12 DEF IInv

LEMMA AbortRequestStep ==
  ASSUME IInv, AbortRequest
  PROVE  IInv' /\ stages' = stages
<1>1. /\ UNCHANGED <<neo, unlinked, told, rows, keyed, stored, index, published, runs, queue>>
      /\ request' = NoRequest
  BY DEF AbortRequest, taskVars, graphVars
<1>2. Typed' /\ RequestFits'
  BY <1>1 DEF IInv, Typed, RequestFits
<1> QED BY <1>1, <1>2, SameGraph, OutsideStep

(* Tasks that are refused, or sent by hand.                                 *)
LEMMA QueueStep ==
  ASSUME IInv, RefuseTask \/ Redrive
  PROVE  IInv' /\ stages' = stages
<1>1. UNCHANGED <<neo, unlinked, told, rows, keyed, stored, index, published, runs, request>>
  BY DEF RefuseTask, Redrive, graphVars
<1>2. BagToSet(queue') \subseteq Tasks
  <2>1. CASE RefuseTask
    BY <2>1, BagSets DEF RefuseTask, IInv, Typed
  <2>2. CASE Redrive
    <3>1. PICK v \in Versions : Send({Task("parse", v, "plain", 0)})
      BY <2>2 DEF Redrive
    <3>2. Task("parse", v, "plain", 0) \in Tasks
      BY FirstTry DEF Task, Tasks, TaskNames
    <3> QED BY <3>1, <3>2, Sending DEF IInv, Typed
  <2> QED BY <2>1, <2>2
<1>3. Typed' /\ RequestFits'
  BY <1>1, <1>2 DEF IInv, Typed, RequestFits, Committed
<1> QED BY <1>1, <1>3, SameGraph, OutsideStep

-----------------------------------------------------------------------------
(* Users of the graph, and the database *)

LEMMA UserLinksStep ==
  ASSUME IInv, NEW p \in Processes, UserLinks(p)
  PROVE  IInv' /\ stages' = stages
<1>1. PICK l \in ObjectLinks : CreateLink(p, l)
  BY DEF UserLinks
<1>2. UNCHANGED <<rows, keyed, stored, index, published, runs, queue, request>>
  BY DEF UserLinks, taskVars
<1>3. /\ SameSubgraphs /\ \A e \in Made' : EdgeFits(e)'
      /\ neo' = [up |-> neo'.up, nodes |-> neo'.nodes, edges |-> neo'.edges]
  BY <1>1, <1>2, LinkMade DEF CreateLink, AllLinks
<1>4. \A relationship \in told' : relationship[2] \in ObjectLinks
  BY <1>1 DEF CreateLink, IInv, Typed
<1>5. Typed' /\ RequestFits'
  BY <1>2, <1>3, <1>4 DEF IInv, Typed, SameSubgraphs, RequestFits, Committed
<1> QED BY <1>2, <1>3, <1>5, OutsideStep

(* An edge that is deleted was made all the same.                           *)
LEMMA UserUnlinksStep ==
  ASSUME IInv, NEW p \in Processes, UserUnlinks(p)
  PROVE  IInv' /\ stages' = stages
<1>1. PICK relationship \in Deletable(p) : DeleteLink(p, relationship)
  BY DEF UserUnlinks
<1> PICK l : l = relationship[2]
  OBVIOUS
<1>2. /\ UNCHANGED <<rows, keyed, stored, index, published, runs, queue, request>>
      /\ told' \subseteq told
  BY <1>1 DEF UserUnlinks, taskVars, DeleteLink
<1>3. /\ Made' = Made /\ neo'.nodes = neo.nodes
      /\ neo' = [up |-> neo'.up, nodes |-> neo'.nodes, edges |-> neo'.edges]
  <2>1. CASE UNCHANGED <<neo, unlinked>>
    BY <2>1, MadeOnly DEF IInv, Typed
  <2>2. CASE /\ l \in neo.edges /\ neo' = [neo EXCEPT !.edges = @ \ {l}]
             /\ unlinked' = unlinked \cup {l}
    <3>1. /\ neo'.nodes = neo.nodes /\ neo'.edges = neo.edges \ {l}
          /\ neo' = [up |-> neo'.up, nodes |-> neo'.nodes, edges |-> neo'.edges]
      BY <2>2 DEF IInv, Typed
    <3> QED BY <2>2, <3>1 DEF Made
  <2> QED BY <1>1, <2>1, <2>2 DEF DeleteLink
<1>4. SameSubgraphs
  BY <1>3 DEF SameSubgraphs
<1>5. \A e \in Made' : EdgeFits(e)'
  BY <1>2, <1>3 DEF IInv, EdgeFits, HasVersion
<1>6. Typed' /\ RequestFits'
  BY <1>2, <1>3 DEF IInv, Typed, RequestFits, Committed
<1> QED BY <1>2, <1>4, <1>5, <1>6, OutsideStep

LEMMA DatabaseStep ==
  ASSUME IInv, (\E p \in Processes : Restart(p)) \/ Outage \/ Recovery
  PROVE  IInv' /\ stages' = stages
<1>1. /\ UNCHANGED <<told, rows, keyed, stored, index, published, runs, queue, request>>
      /\ neo'.nodes = neo.nodes /\ neo'.edges = neo.edges /\ unlinked' = unlinked
      /\ neo' = [up |-> neo'.up, nodes |-> neo'.nodes, edges |-> neo'.edges]
  BY DEF Restart, RestartProcess, Outage, DatabaseStops, Recovery, DatabaseStarts, taskVars,
         IInv, Typed
<1>2. SameSubgraphs /\ Made' = Made
  BY <1>1 DEF SameSubgraphs, Made
<1>3. ASSUME NEW e \in Made PROVE EdgeFits(e)'
  BY <1>1 DEF IInv, EdgeFits, HasVersion
<1>4. Typed' /\ RequestFits'
  BY <1>1 DEF IInv, Typed, RequestFits, Committed
<1> QED BY <1>1, <1>2, <1>3, <1>4, OutsideStep

-----------------------------------------------------------------------------
(* Steps of a worker that write nothing outside its run and the queue *)

LEMMA RunAt ==
  ASSUME IInv, NEW w \in Workers
  PROVE  /\ runs[w] \in Runs \cup {Idle} /\ RunFits(runs[w])
         /\ runs[w] # Idle => runs[w] \in Runs
         /\ runs[w].pc # "idle" => runs[w] \in Runs /\ runs[w] # Idle
  BY RunFields DEF IInv, Typed

LEMMA GotoRun ==
  ASSUME IInv, NEW w \in Workers, NEW pc \in Pcs, Goto(w, pc), runs[w].pc # "idle"
  PROVE  \E r \in Runs \cup {Idle} :
           /\ runs' = [runs EXCEPT ![w] = r]
           /\ r # Idle /\ r.pc = pc /\ r.v = runs[w].v /\ r.parts = runs[w].parts
           /\ r.name = runs[w].name /\ r.try = runs[w].try
<1> PICK r : r = [runs[w] EXCEPT !.pc = pc]
  OBVIOUS
<1>1. runs[w] \in Runs
  BY RunAt
<1>2. /\ r \in Runs /\ r.pc = pc /\ r.v = runs[w].v /\ r.parts = runs[w].parts
      /\ r.name = runs[w].name /\ r.try = runs[w].try
  BY <1>1 DEF Runs
<1>3. r # Idle
  BY <1>2 DEF Idle, Pcs, ParsePcs, LinkPcs
<1> QED BY <1>2, <1>3 DEF Goto

LEMMA TakeTaskStep ==
  ASSUME IInv, NEW w \in Workers, TakeTask(w)
  PROVE  IInv' /\ stages' = stages
<1>1. PICK t \in BagToSet(queue) :
        /\ queue' = queue (-) SetToBag({t})
        /\ runs' = [runs EXCEPT ![w] =
             [pc |-> First[t.name], name |-> t.name, v |-> t.version, try |-> t.try,
              parts |-> {}]]
  BY DEF TakeTask
<1> PICK r : r = [pc |-> First[t.name], name |-> t.name, v |-> t.version, try |-> t.try,
                  parts |-> {}]
  OBVIOUS
<1>2. t.name \in TaskNames /\ t.version \in Versions /\ t.try \in Tries
  BY DEF IInv, Typed, Tasks
<1>3. First[t.name] \in {"start", "read", "select"}
  BY <1>2 DEF First, TaskNames
<1>4. r \in Runs /\ r.pc \in {"start", "read", "select"}
  BY <1>2, <1>3 DEF Runs, Pcs, ParsePcs, LinkPcs
<1>5. RunFits(r)
  BY <1>4 DEF RunFits, ParsePcs, LinkPcs
<1>6. BagToSet(queue') \subseteq Tasks
  BY <1>1, BagSets DEF IInv, Typed
<1> QED BY <1>1, <1>4, <1>5, <1>6, QuietRun DEF TakeTask, graphVars

(* A task that is sent again.                                               *)
LEMMA RetrySent ==
  ASSUME IInv, NEW w \in Workers, runs[w] \in Runs, Retry(w)
  PROVE  BagToSet(queue') \subseteq Tasks
<1>1. ASSUME runs[w].try < MaxRetries
      PROVE  Task(runs[w].name, runs[w].v, "plain", runs[w].try + 1) \in Tasks
  BY <1>1, PipelineAssumption DEF Task, Tasks, Runs, Tries
<1> QED BY <1>1, Sending DEF Retry, IInv, Typed

(* Runs that end.                                                           *)
LEMMA EndRunStep ==
  ASSUME IInv, NEW w \in Workers, EndRun(w), BagToSet(queue') \subseteq Tasks,
         UNCHANGED <<neo, unlinked, told, rows, keyed, stored, index, published, request>>
  PROVE  IInv' /\ stages' = stages
  BY RunFields, QuietRun DEF EndRun

LEMMA EndingStep ==
  ASSUME IInv, NEW w \in Workers,
         EnqueueAutoLink(w) \/ RetryParse(w) \/ LinkRaises(w) \/ InsertParts(w) \/ Crash(w)
  PROVE  IInv' /\ stages' = stages
<1>1. EndRun(w) /\ UNCHANGED <<neo, unlinked, told, rows, keyed, stored, index, published, request>>
  BY DEF EnqueueAutoLink, RetryParse, LinkRaises, InsertParts, Crash, graphVars
<1>2. runs[w] \in Runs
  BY RunAt DEF EnqueueAutoLink, RetryParse, LinkRaises, InsertParts, Crash, At
<1>3. BagToSet(queue') \subseteq Tasks
  <2>1. CASE EnqueueAutoLink(w)
    <3>1. Task("link", runs[w].v, "plain", 0) \in Tasks
      BY <1>2, FirstTry DEF Task, Tasks, TaskNames, Runs
    <3> QED BY <2>1, <3>1, Sending DEF EnqueueAutoLink, IInv, Typed
  <2>2. CASE RetryParse(w) \/ LinkRaises(w)
    BY <1>2, <2>2, RetrySent DEF RetryParse, LinkRaises
  <2>3. CASE InsertParts(w) \/ Crash(w)
    BY <2>3 DEF InsertParts, Crash, IInv, Typed
  <2> QED BY <2>1, <2>2, <2>3
<1> QED BY <1>1, <1>3, EndRunStep

LEMMA ParseRaisesStep ==
  ASSUME IInv, NEW w \in Workers, ParseRaises(w)
  PROVE  IInv' /\ stages' = stages
<1>1. runs[w].pc \in {"start", "parse", "conclude"} /\ Goto(w, "fail") /\ runs[w] # Idle
      /\ RunFits(runs[w])
  BY RunAt DEF ParseRaises, At
<1>2. PICK r \in Runs \cup {Idle} :
        runs' = [runs EXCEPT ![w] = r] /\ r # Idle /\ r.pc = "fail" /\ r.v = runs[w].v
  BY <1>1, GotoRun DEF Pcs, ParsePcs
<1>3. RunFits(r)
  BY <1>1, <1>2 DEF RunFits, ParsePcs, LinkPcs
<1>4. BagToSet(queue') \subseteq Tasks
  BY DEF ParseRaises, IInv, Typed
<1> QED BY <1>2, <1>3, <1>4, QuietRun DEF ParseRaises, graphVars

LEMMA ReadVersionStep ==
  ASSUME IInv, NEW w \in Workers, ReadVersion(w)
  PROVE  IInv' /\ stages' = stages
<1>1. /\ runs[w] \in Runs /\ runs[w].pc = "read" /\ BagToSet(queue') \subseteq Tasks
      /\ UNCHANGED <<neo, unlinked, told, rows, keyed, stored, index, published, request>>
  BY RunAt DEF ReadVersion, At, graphVars, IInv, Typed
<1>2. CASE EndRun(w)
  BY <1>1, <1>2, EndRunStep
<1>3. CASE /\ rows[runs[w].v] \in {"complete", "skipped"}
           /\ runs' = [runs EXCEPT ![w].pc = "scaffold", ![w].parts = PartsOf[runs[w].v]]
  <2> PICK r : r = [runs[w] EXCEPT !.pc = "scaffold", !.parts = PartsOf[runs[w].v]]
    OBVIOUS
  <2>1. runs' = [runs EXCEPT ![w] = r]
    BY <1>3 DEF IInv, Typed
  <2>2. runs[w].v \in Versions /\ PartsOf[runs[w].v] \subseteq Parts
    BY <1>1, PartsTyped DEF Runs
  <2>3. /\ r \in Runs /\ r.pc = "scaffold" /\ r.v = runs[w].v /\ r.parts = PartsOf[r.v]
    BY <1>1, <2>2 DEF Runs, Pcs, LinkPcs
  <2>4. r.v \in keyed
    BY <1>3, <2>2, <2>3 DEF IInv, VersionFits
  <2>5. RunFits(r)
    BY <2>3, <2>4 DEF RunFits, ParsePcs, LinkPcs
  <2> QED BY <1>1, <2>1, <2>3, <2>5, QuietRun
<1> QED BY <1>2, <1>3 DEF ReadVersion

LEMMA EnqueueEnrichStep ==
  ASSUME IInv, NEW w \in Workers, EnqueueEnrich(w)
  PROVE  IInv' /\ stages' = stages
<1>1. /\ runs[w] \in Runs /\ runs[w] # Idle /\ runs[w].pc = "delay" /\ RunFits(runs[w])
      /\ Goto(w, "tell")
  BY RunAt DEF EnqueueEnrich, At
<1>2. PICK r \in Runs \cup {Idle} :
        runs' = [runs EXCEPT ![w] = r] /\ r # Idle /\ r.pc = "tell" /\ r.v = runs[w].v
  BY <1>1, GotoRun DEF Pcs, LinkPcs
<1>3. RunFits(r)
  BY <1>1, <1>2 DEF RunFits, ParsePcs, LinkPcs
<1>4. BagToSet(queue') \subseteq Tasks
  <2>1. Task("enrich", runs[w].v, "plain", 0) \in Tasks
    BY <1>1, FirstTry DEF Task, Tasks, TaskNames, Runs
  <2> QED BY <2>1, Sending DEF EnqueueEnrich, IInv, Typed
<1> QED BY <1>2, <1>3, <1>4, QuietRun DEF EnqueueEnrich, graphVars

LEMMA SelectPartsStep ==
  ASSUME IInv, NEW w \in Workers, SelectParts(w)
  PROVE  IInv' /\ stages' = stages
<1>1. /\ runs[w] \in Runs /\ runs[w].pc = "select" /\ BagToSet(queue') \subseteq Tasks
      /\ UNCHANGED <<neo, unlinked, told, rows, keyed, stored, index, published, request>>
  BY RunAt DEF SelectParts, At, graphVars, IInv, Typed
<1>2. CASE EndRun(w)
  BY <1>1, <1>2, EndRunStep
<1>3. CASE runs' = [runs EXCEPT ![w].pc = "insert", ![w].parts = PartsOf[runs[w].v] \ enriched]
  <2> PICK r : r = [runs[w] EXCEPT !.pc = "insert", !.parts = PartsOf[runs[w].v] \ enriched]
    OBVIOUS
  <2>1. runs' = [runs EXCEPT ![w] = r]
    BY <1>3 DEF IInv, Typed
  <2>2. PartsOf[runs[w].v] \subseteq Parts
    BY <1>1, PartsTyped DEF Runs
  <2>3. r \in Runs /\ r.pc = "insert"
    BY <1>1, <2>2 DEF Runs, Pcs
  <2>4. RunFits(r)
    BY <2>3 DEF RunFits, ParsePcs, LinkPcs
  <2> QED BY <1>1, <2>1, <2>3, <2>4, QuietRun
<1> QED BY <1>2, <1>3 DEF SelectParts

-----------------------------------------------------------------------------
(* Steps of a worker that write rows, outputs, events and documents *)

(* The graph is as it was.                                                  *)
LEMMA WritingStep ==
  ASSUME IInv, NEW w \in Workers, NEW r \in Runs \cup {Idle}, runs' = [runs EXCEPT ![w] = r],
         UNCHANGED <<neo, unlinked, told, request, queue>>,
         rows' \in [Versions -> Statuses],
         published' \subseteq Events, \A v \in Versions : Committed(v)' <=> Committed(v),
         stored \subseteq stored', keyed \subseteq keyed', index \subseteq index',
         stored' \subseteq Versions, keyed' \subseteq Versions, index' \subseteq Versions,
         RunFits(r)', \A v \in Versions : VersionFits(v)'
  PROVE  IInv' /\ \A v \in Versions : LinkedFully(v)' <=> LinkedFully(v)
<1>1. SameSubgraphs /\ \A e \in Made' : EdgeFits(e)'
  BY SameGraph
<1>2. NothingLost
  BY MadeOnly DEF NothingLost
<1>3. (\A x \in Workers : RunFits(runs[x])') /\ runs' \in [Workers -> Runs \cup {Idle}]
  BY <1>2, RunMoves
<1>4. Typed'
  BY <1>3 DEF IInv, Typed
<1>5. RequestFits'
  BY DEF IInv, RequestFits, Requests
<1> QED BY <1>1, <1>3, <1>4, <1>5, LinkedSame DEF IInv

(* A row's status is written over; a version that is said to be parsed is.  *)
LEMMA StatusStep ==
  ASSUME IInv, NEW w \in Workers, NEW r \in Runs \cup {Idle}, NEW v \in Versions,
         NEW status \in Statuses \ {"absent"},
         runs' = [runs EXCEPT ![w] = r], rows' = [rows EXCEPT ![v] = status],
         Committed(v), keyed' \in {keyed, keyed \cup {v}},
         v \in keyed' => v \in stored,
         status \in {"complete", "skipped"} => v \in keyed',
         UNCHANGED <<neo, unlinked, told, request, queue, stored, index, published>>,
         RunFits(r)'
  PROVE  IInv' /\ stages' = stages
<1>1. rows' \in [Versions -> Statuses] /\ keyed \subseteq keyed' /\ keyed' \subseteq Versions
  BY DEF IInv, Typed
<1>2. rows'[v] = status /\ \A u \in Versions \ {v} : rows'[u] = rows[u]
  BY DEF IInv, Typed
<1>3. \A u \in Versions : Committed(u)' <=> Committed(u)
  BY <1>2 DEF Committed
<1>4. \A u \in Versions : LinkedFully(u)' <=> LinkedFully(u)
  BY SameGraph, LinkedSame
<1>5. ASSUME NEW u \in Versions PROVE VersionFits(u)'
  <2>1. VersionFits(u)
    BY DEF IInv
  <2>2. CASE u = v
    BY <1>1, <1>2, <1>3, <1>4, <2>1, <2>2 DEF VersionFits
  <2>3. CASE u # v
    BY <1>1, <1>2, <1>3, <1>4, <2>1, <2>3 DEF VersionFits
  <2> QED BY <2>2, <2>3
<1>6. IInv'
  BY <1>1, <1>3, <1>5, WritingStep DEF IInv, Typed
<1>7. \A u \in Versions : StageOf(u)' = StageOf(u)
  BY <1>3, <1>4 DEF StageOf
<1> QED BY <1>6, <1>7 DEF stages

LEMMA SetProcessingStep ==
  ASSUME IInv, NEW w \in Workers, SetProcessing(w)
  PROVE  IInv' /\ stages' = stages
<1>1. /\ runs[w] \in Runs /\ runs[w].pc = "start" /\ runs[w].v \in Versions
      /\ UNCHANGED <<neo, unlinked, told, keyed, stored, index, published, request, queue>>
  BY RunAt DEF SetProcessing, At, graphVars, Runs
<1>2. CASE UNCHANGED rows /\ EndRun(w)
  BY <1>1, <1>2, EndRunStep DEF IInv, Typed
<1>3. CASE /\ Committed(runs[w].v)
           /\ rows' = [rows EXCEPT ![runs[w].v] = "processing"] /\ Goto(w, "parse")
  <2>1. PICK r \in Runs \cup {Idle} :
          runs' = [runs EXCEPT ![w] = r] /\ r # Idle /\ r.pc = "parse" /\ r.v = runs[w].v
    BY <1>1, <1>3, GotoRun DEF Pcs, ParsePcs
  <2>2. RunFits(r)'
    <3>1. Committed(r.v)'
      BY <1>1, <1>3, <2>1 DEF Committed, IInv, Typed
    <3> QED BY <2>1, <3>1 DEF RunFits, ParsePcs, LinkPcs
  <2>3. runs[w].v \in keyed => runs[w].v \in stored
    BY <1>1 DEF IInv, VersionFits
  <2> QED BY <1>1, <1>3, <2>1, <2>2, <2>3, StatusStep DEF Statuses
<1> QED BY <1>2, <1>3 DEF SetProcessing

LEMMA ConcludeParseStep ==
  ASSUME IInv, NEW w \in Workers, ConcludeParse(w)
  PROVE  IInv' /\ stages' = stages
<1> PICK v : v = runs[w].v
  OBVIOUS
<1>1. /\ runs[w] \in Runs /\ runs[w].pc = "conclude" /\ v \in Versions
      /\ Committed(v) /\ v \in stored
      /\ UNCHANGED <<neo, unlinked, told, stored, index, published, request, queue>>
      /\ keyed' = keyed \cup {v}
  BY RunAt DEF ConcludeParse, At, graphVars, Runs, RunFits, ParsePcs
<1>2. PICK status \in {"skipped", "complete"} : rows' = [rows EXCEPT ![v] = status]
  BY DEF ConcludeParse
<1>3. PICK r \in Runs \cup {Idle} : /\ runs' = [runs EXCEPT ![w] = r]
                                    /\ r # Idle => r.pc = "announce" /\ r.v = v
  <2>1. CASE EndRun(w)
    BY <2>1 DEF EndRun
  <2>2. CASE Goto(w, "announce")
    BY <1>1, <2>2, GotoRun DEF Pcs, ParsePcs
  <2> QED BY <2>1, <2>2 DEF ConcludeParse
<1>4. RunFits(r)'
  <2>1. Committed(v)'
    BY <1>1, <1>2 DEF Committed, IInv, Typed
  <2> QED BY <1>1, <1>3, <2>1 DEF RunFits, ParsePcs, LinkPcs
<1> QED BY <1>1, <1>2, <1>3, <1>4, StatusStep DEF Statuses

LEMMA SetFailedStep ==
  ASSUME IInv, NEW w \in Workers, SetFailed(w)
  PROVE  IInv' /\ stages' = stages
<1>1. /\ runs[w] \in Runs /\ runs[w].pc = "fail" /\ runs[w].v \in Versions
      /\ UNCHANGED <<neo, unlinked, told, keyed, stored, index, published, request, queue>>
      /\ BagToSet(queue') \subseteq Tasks
  BY RunAt DEF SetFailed, At, graphVars, Runs, IInv, Typed
<1>2. CASE EndRun(w) /\ UNCHANGED rows
  BY <1>1, <1>2, EndRunStep
<1>3. CASE /\ rows' = IF Committed(runs[w].v) THEN [rows EXCEPT ![runs[w].v] = "failed"] ELSE rows
           /\ Goto(w, "retry")
  <2>1. PICK r \in Runs \cup {Idle} :
          runs' = [runs EXCEPT ![w] = r] /\ r # Idle /\ r.pc = "retry" /\ r.v = runs[w].v
    BY <1>1, <1>3, GotoRun DEF Pcs, ParsePcs
  <2>2. RunFits(r) /\ RunFits(r)'
    BY <2>1 DEF RunFits, ParsePcs, LinkPcs
  <2>3. runs[w].v \in keyed => runs[w].v \in stored
    BY <1>1 DEF IInv, VersionFits
  <2>4. CASE Committed(runs[w].v)
    BY <1>1, <1>3, <2>1, <2>2, <2>3, <2>4, StatusStep DEF Statuses
  <2>5. CASE ~Committed(runs[w].v)
    BY <1>1, <1>3, <2>1, <2>2, <2>5, QuietRun
  <2> QED BY <2>4, <2>5
<1> QED BY <1>2, <1>3 DEF SetFailed

LEMMA LinkedIsStored ==
  ASSUME IInv, NEW v \in Versions, LinkedFully(v)
  PROVE  v \in stored /\ Committed(v)
<1>1. v \in stored
  BY EdgeParts DEF LinkedFully, IInv, EdgeFits, HasVersion, Edge, VersionNode
<1> QED BY <1>1 DEF IInv, VersionFits

(* A stage that is reached is the next one.                                 *)
LEMMA OneAdvances ==
  ASSUME NEW v \in Versions, StageOf(v)' = StageOf(v) \/ StageOf(v)' = StageOf(v) + 1,
         StageOf(v) \in 1..3 \/ StageOf(v)' = StageOf(v),
         \A u \in Versions \ {v} : StageOf(u)' = StageOf(u)
  PROVE  stages' = stages \/ Stages!Advance(v)
<1>1. CASE StageOf(v)' = StageOf(v)
  BY <1>1 DEF stages
<1>2. CASE StageOf(v)' = StageOf(v) + 1 /\ StageOf(v) \in 1..3
  <2>1. stages[v] = StageOf(v)
    BY DEF stages
  <2>2. \A u \in Versions : stages'[u] = IF u = v THEN stages[v] + 1 ELSE stages[u]
    BY <1>2 DEF stages
  <2>3. stages' = [stages EXCEPT ![v] = @ + 1]
    BY <2>2 DEF stages
  <2> QED BY <1>2, <2>1, <2>3 DEF Stages!Advance
<1> QED BY <1>1, <1>2

LEMMA StoreParsedStep ==
  ASSUME IInv, NEW w \in Workers, StoreParsed(w)
  PROVE  IInv' /\ (stages' = stages \/ Stages!Next)
<1> PICK v : v = runs[w].v
  OBVIOUS
<1>1. /\ runs[w] \in Runs /\ runs[w].pc = "parse" /\ v \in Versions
      /\ Committed(v) /\ stored' = stored \cup {v} /\ Goto(w, "conclude")
      /\ UNCHANGED <<neo, unlinked, told, rows, keyed, index, published, request, queue>>
  BY RunAt DEF StoreParsed, At, graphVars, Runs, RunFits, ParsePcs
<1>2. PICK r \in Runs \cup {Idle} :
        runs' = [runs EXCEPT ![w] = r] /\ r # Idle /\ r.pc = "conclude" /\ r.v = v
  BY <1>1, GotoRun DEF Pcs, ParsePcs
<1>3. \A u \in Versions : Committed(u)' <=> Committed(u)
  BY <1>1 DEF Committed
<1>4. RunFits(r)'
  BY <1>1, <1>2, <1>3 DEF RunFits, ParsePcs, LinkPcs
<1>5. \A u \in Versions : LinkedFully(u)' <=> LinkedFully(u)
  BY <1>1, SameGraph, LinkedSame
<1>6. \A u \in Versions : VersionFits(u)'
  BY <1>1, <1>3, <1>5 DEF IInv, VersionFits
<1>7. IInv'
  BY <1>1, <1>2, <1>3, <1>4, <1>6, WritingStep DEF IInv, Typed
<1>8. \A u \in Versions \ {v} : StageOf(u)' = StageOf(u)
  BY <1>1, <1>3, <1>5 DEF StageOf
<1>9. /\ StageOf(v)' = StageOf(v) \/ (StageOf(v) = 1 /\ StageOf(v)' = 2)
  BY <1>1, <1>3, <1>5 DEF StageOf
<1> QED BY <1>1, <1>7, <1>8, <1>9, OneAdvances DEF Stages!Next

LEMMA IndexVersionStep ==
  ASSUME IInv, NEW w \in Workers, IndexVersion(w)
  PROVE  IInv' /\ (stages' = stages \/ Stages!Next)
<1> PICK v : v = runs[w].v
  OBVIOUS
<1>1. /\ runs[w] \in Runs /\ runs[w].pc = "index" /\ v \in Versions
      /\ LinkedFully(v) /\ v \in keyed /\ index' = index \cup {v} /\ Goto(w, "delay")
      /\ UNCHANGED <<neo, unlinked, told, rows, keyed, stored, published, request, queue>>
  BY RunAt DEF IndexVersion, At, graphVars, Runs, RunFits, LinkPcs
<1>2. PICK r \in Runs \cup {Idle} :
        runs' = [runs EXCEPT ![w] = r] /\ r # Idle /\ r.pc = "delay" /\ r.v = v
  BY <1>1, GotoRun DEF Pcs, LinkPcs
<1>3. \A u \in Versions : Committed(u)' <=> Committed(u)
  BY <1>1 DEF Committed
<1>4. RunFits(r)'
  BY <1>1, <1>2 DEF RunFits, ParsePcs, LinkPcs
<1>5. \A u \in Versions : LinkedFully(u)' <=> LinkedFully(u)
  BY <1>1, SameGraph, LinkedSame
<1>6. \A u \in Versions : VersionFits(u)'
  BY <1>1, <1>3, <1>5 DEF IInv, VersionFits
<1>7. IInv'
  BY <1>1, <1>2, <1>3, <1>4, <1>6, WritingStep DEF IInv, Typed
<1>8. \A u \in Versions \ {v} : StageOf(u)' = StageOf(u)
  BY <1>1, <1>3, <1>5 DEF StageOf
<1>9. StageOf(v)' = StageOf(v) \/ (StageOf(v) = 3 /\ StageOf(v)' = 4)
  BY <1>1, <1>5 DEF StageOf
<1> QED BY <1>1, <1>7, <1>8, <1>9, OneAdvances DEF Stages!Next

(* An announcement, of what is so, or none.                                 *)
LEMMA AnnouncingStep ==
  ASSUME IInv, NEW w \in Workers, AnnounceParse(w) \/ AnnounceLink(w)
  PROVE  IInv' /\ stages' = stages
<1> PICK v : v = runs[w].v
  OBVIOUS
<1>1. /\ runs[w] \in Runs /\ v \in Versions /\ RunFits(runs[w]) /\ runs[w] # Idle
      /\ runs[w].pc \in {"announce", "tell"}
      /\ UNCHANGED <<neo, unlinked, told, rows, keyed, stored, index, request, queue>>
  BY RunAt DEF AnnounceParse, AnnounceLink, At, graphVars, Runs
<1>2. PICK r \in Runs \cup {Idle} : /\ runs' = [runs EXCEPT ![w] = r]
                                    /\ r # Idle => r.pc = "chain" /\ r.v = v
                                                   /\ runs[w].pc = "announce"
  <2>1. CASE AnnounceParse(w)
    BY <1>1, <2>1, GotoRun DEF AnnounceParse, At, Pcs, ParsePcs
  <2>2. CASE AnnounceLink(w)
    BY <2>2 DEF AnnounceLink, EndRun
  <2> QED BY <2>1, <2>2
<1>3. \/ published' = published
      \/ v \in keyed /\ published' = published \cup {<<"parse_complete", v>>}
      \/ v \in index /\ published' = published \cup {<<"auto_link_complete", v>>}
  BY <1>1 DEF AnnounceParse, AnnounceLink, At, RunFits
<1>4. \A u \in Versions : Committed(u)' <=> Committed(u)
  BY <1>1 DEF Committed
<1>5. RunFits(r)'
  BY <1>1, <1>2, <1>4 DEF RunFits, ParsePcs, LinkPcs
<1>6. \A u \in Versions : LinkedFully(u)' <=> LinkedFully(u)
  BY <1>1, SameGraph, LinkedSame
<1>7. ASSUME NEW u \in Versions PROVE VersionFits(u)'
  <2>1. VersionFits(u)
    BY DEF IInv
  <2>2. /\ <<"parse_complete", u>> \in published' => u \in keyed
        /\ <<"auto_link_complete", u>> \in published' => u \in index
    BY <1>3, <2>1 DEF VersionFits
  <2> QED BY <1>1, <1>4, <1>6, <2>1, <2>2 DEF VersionFits
<1>8. published' \subseteq Events
  BY <1>1, <1>3 DEF IInv, Typed, Events
<1>9. IInv'
  BY <1>8, <1>1, <1>2, <1>4, <1>5, <1>7, WritingStep DEF IInv, Typed
<1>10. \A u \in Versions : StageOf(u)' = StageOf(u)
  BY <1>1, <1>4, <1>6 DEF StageOf
<1> QED BY <1>9, <1>10 DEF stages

-----------------------------------------------------------------------------
(* The queries of the auto-linker *)

(* A query about v adds nodes and edges, none of which links another        *)
(* version.                                                                 *)
LEMMA QueryStep ==
  ASSUME IInv, NEW w \in Workers, NEW r \in Runs \cup {Idle}, NEW v \in Versions,
         NEW nodes \in SUBSET Nodes, NEW edges,
         neo' = [up |-> neo.up, nodes |-> neo.nodes \cup nodes, edges |-> neo.edges \cup edges],
         Remake, runs' = [runs EXCEPT ![w] = r], RunFits(r)', v \in stored,
         \A e \in edges : EdgeFits(e)',
         \A u \in Versions \ {v} :
           /\ HasVersion(u) \notin edges
           /\ \A p \in Parts : Uses(u, p) \notin edges,
         UNCHANGED <<told, rows, keyed, stored, index, published, request, queue>>
  PROVE  IInv' /\ (stages' = stages \/ Stages!Next)
<1>1. neo'.nodes = neo.nodes \cup nodes /\ Made' = Made \cup edges
      /\ neo' = [up |-> neo'.up, nodes |-> neo'.nodes, edges |-> neo'.edges]
  BY MadeOnly
<1>2. \A u \in Versions : Committed(u)' <=> Committed(u)
  BY DEF Committed
<1>3. NothingLost
  BY <1>1, <1>2 DEF NothingLost
<1>4. (\A x \in Workers : RunFits(runs[x])') /\ runs' \in [Workers -> Runs \cup {Idle}]
  BY <1>3, RunMoves
<1>5. \A e \in Made' : EdgeFits(e)'
  BY <1>1 DEF IInv, EdgeFits, HasVersion
<1>6. \A u \in Versions : LinkedFully(u) => LinkedFully(u)'
  BY <1>3, LinkedStays
<1>7. ASSUME NEW u \in Versions \ {v}, LinkedFully(u)' PROVE LinkedFully(u)
  <2>1. HasVersion(u) \in Made
    BY <1>1, <1>7 DEF LinkedFully, HasVersion, Edge, ObjectNode, VersionNode
  <2>2. \A p \in PartsOf[u] : Uses(u, p) \in Made
    BY <1>1, <1>7, PartsTyped DEF LinkedFully, Edge, VersionNode, PartNode
  <2>3. {ObjectNode(ObjectOf[u]), VersionNode(u)} \subseteq neo.nodes
    BY <2>1, EdgeParts DEF IInv, EdgeFits, HasVersion
  <2> QED BY <2>1, <2>2, <2>3 DEF LinkedFully
<1>8. \A u \in Versions : VersionFits(u)'
  BY <1>2, <1>6 DEF IInv, VersionFits
<1>9. Typed' /\ RequestFits'
  BY <1>1, <1>2, <1>4 DEF IInv, Typed, RequestFits, Requests
<1>10. IInv'
  BY <1>4, <1>5, <1>8, <1>9 DEF IInv
<1>11. \A u \in Versions \ {v} : StageOf(u)' = StageOf(u)
  BY <1>2, <1>6, <1>7 DEF StageOf
<1>12. StageOf(v)' = StageOf(v) \/ (StageOf(v) = 2 /\ StageOf(v)' = 3)
  BY <1>2, <1>6 DEF StageOf
<1> QED BY <1>10, <1>11, <1>12, OneAdvances DEF Stages!Next

LEMMA ScaffoldStep ==
  ASSUME IInv, NEW w \in Workers, RunQuery(w), At(w, "scaffold")
  PROVE  IInv' /\ (stages' = stages \/ Stages!Next)
<1> PICK v : v = runs[w].v
  OBVIOUS
<1> PICK nodes, edges : nodes = {ObjectNode(ObjectOf[v]), VersionNode(v)} /\ edges = {}
  OBVIOUS
<1>1. /\ runs[w] \in Runs /\ v \in Versions /\ RunFits(runs[w]) /\ runs[w] # Idle
      /\ runs[w].pc = "scaffold"
      /\ neo' = Scaffold(v) /\ Goto(w, "parts")
      /\ Remake /\ UNCHANGED <<told, rows, keyed, stored, index, published, request, queue>>
  BY RunAt DEF RunQuery, At, Runs
<1>2. runs[w].parts = PartsOf[v] /\ v \in keyed /\ v \in stored
  BY <1>1 DEF RunFits, LinkPcs, IInv, VersionFits
<1>3. PICK r \in Runs \cup {Idle} : /\ runs' = [runs EXCEPT ![w] = r]
                                    /\ r # Idle /\ r.pc = "parts" /\ r.v = v
                                    /\ r.parts = PartsOf[v]
  BY <1>1, <1>2, GotoRun DEF Pcs, LinkPcs
<1>4. neo' = [up |-> neo.up, nodes |-> neo.nodes \cup nodes, edges |-> neo.edges \cup edges]
  BY <1>1 DEF Scaffold, IInv, Typed
<1>5. nodes \subseteq Nodes
  BY <1>1, VersionsAssumption DEF Nodes
<1>6. RunFits(r)'
  <2>1. ObjectNode(ObjectOf[v]) \in neo'.nodes /\ VersionNode(v) \in neo'.nodes
    BY <1>4
  <2>2. PartsOf[v] \ r.parts = {} /\ v \in keyed'
    BY <1>1, <1>2, <1>3
  <2> QED BY <1>3, <2>1, <2>2 DEF RunFits, ParsePcs, LinkPcs, ObjectNode, VersionNode
<1>7. \A e \in edges : EdgeFits(e)'
  OBVIOUS
<1> QED BY <1>1, <1>2, <1>3, <1>4, <1>5, <1>6, <1>7, QueryStep

LEMMA LinkPartStep ==
  ASSUME IInv, NEW w \in Workers, RunQuery(w), At(w, "parts"), runs[w].parts # {}
  PROVE  IInv' /\ (stages' = stages \/ Stages!Next)
<1> PICK v : v = runs[w].v
  OBVIOUS
<1>1. PICK p \in runs[w].parts :
        neo' = LinkPart(v, p) /\ runs' = [runs EXCEPT ![w].parts = @ \ {p}]
  BY DEF RunQuery, At
<1>2. /\ runs[w] \in Runs /\ v \in Versions /\ RunFits(runs[w]) /\ runs[w] # Idle
      /\ runs[w].pc = "parts"
      /\ Remake /\ UNCHANGED <<told, rows, keyed, stored, index, published, request, queue>>
  BY RunAt DEF RunQuery, At, Runs
<1>3. /\ ObjectNode(ObjectOf[v]) \in neo.nodes /\ VersionNode(v) \in neo.nodes
      /\ \A q \in PartsOf[v] \ runs[w].parts :
           Uses(v, q) \in Made
      /\ v \in keyed /\ v \in stored
  BY <1>2 DEF RunFits, LinkPcs, IInv, VersionFits
<1> PICK e : e = Uses(v, p)
  OBVIOUS
<1>4. neo' = [up |-> neo.up, nodes |-> neo.nodes \cup {PartNode(p)},
              edges |-> neo.edges \cup {e}]
  BY <1>1, <1>3 DEF LinkPart, IInv, Typed
<1> PICK r : r = [runs[w] EXCEPT !.parts = @ \ {p}]
  OBVIOUS
<1>5. runs' = [runs EXCEPT ![w] = r]
  BY <1>1 DEF IInv, Typed
<1>6. r \in Runs /\ r.pc = "parts" /\ r.v = v /\ r.parts = runs[w].parts \ {p}
  BY <1>2 DEF Runs
<1>7. RunFits(r)'
  <2>1. \A q \in PartsOf[v] \ r.parts : Uses(v, q) \in Made'
    BY <1>2, <1>3, <1>4, <1>6, MadeOnly
  <2>2. ObjectNode(ObjectOf[v]) \in neo'.nodes /\ VersionNode(v) \in neo'.nodes
    BY <1>3, <1>4
  <2> QED BY <1>2, <1>3, <1>6, <2>1, <2>2
          DEF RunFits, ParsePcs, LinkPcs, ObjectNode, VersionNode, PartNode, Edge, Uses
<1>8. \A f \in {e} : EdgeFits(f)'
  BY <1>3, <1>4, EdgeParts DEF EdgeFits, Uses
<1>9. \A u \in Versions \ {v} :
        /\ HasVersion(u) \notin {e}
        /\ \A q \in Parts : Uses(u, q) \notin {e}
  BY EdgeParts, NodeKinds DEF HasVersion, Uses
<1>10. {PartNode(p)} \subseteq Nodes
  BY <1>1, <1>2 DEF Runs, Nodes
<1> QED BY <1>2, <1>3, <1>4, <1>5, <1>6, <1>7, <1>8, <1>9, <1>10, QueryStep

LEMMA VersionEdgesStep ==
  ASSUME IInv, NEW w \in Workers, RunQuery(w), At(w, "parts"), runs[w].parts = {}
  PROVE  IInv' /\ (stages' = stages \/ Stages!Next)
<1> PICK v : v = runs[w].v
  OBVIOUS
<1> PICK edges : edges = Matched({HasVersion(v)} \cup Supersedes(v))
  OBVIOUS
<1>1. /\ runs[w] \in Runs /\ v \in Versions /\ RunFits(runs[w]) /\ runs[w] # Idle
      /\ runs[w].pc = "parts"
      /\ neo' = LinkVersionEdges(v) /\ Goto(w, "derived")
      /\ Remake /\ UNCHANGED <<told, rows, keyed, stored, index, published, request, queue>>
  BY RunAt DEF RunQuery, At, Runs
<1>2. /\ ObjectNode(ObjectOf[v]) \in neo.nodes /\ VersionNode(v) \in neo.nodes
      /\ \A q \in PartsOf[v] : Uses(v, q) \in Made
      /\ v \in keyed /\ v \in stored
  BY <1>1 DEF RunFits, LinkPcs, IInv, VersionFits
<1>3. PICK r \in Runs \cup {Idle} : /\ runs' = [runs EXCEPT ![w] = r]
                                    /\ r # Idle /\ r.pc = "derived" /\ r.v = v
  BY <1>1, GotoRun DEF Pcs, LinkPcs
<1>4. neo' = [up |-> neo.up, nodes |-> neo.nodes \cup {}, edges |-> neo.edges \cup edges]
  BY <1>1 DEF LinkVersionEdges, IInv, Typed
<1>5. HasVersion(v) \in edges
  BY <1>2, EdgeParts DEF Matched, HasVersion
<1>6. LinkedFully(v)'
  <2>1. Made' = Made \cup edges
    BY <1>1, <1>4, MadeOnly
  <2>2. /\ HasVersion(v) \in Made'
        /\ {ObjectNode(ObjectOf[v]), VersionNode(v)} \subseteq neo'.nodes
    BY <1>2, <1>4, <1>5, <2>1
  <2>3. \A q \in PartsOf[v] : Uses(v, q) \in Made'
    BY <1>2, <2>1
  <2> QED BY <2>2, <2>3
          DEF LinkedFully, HasVersion, Uses, Edge, ObjectNode, VersionNode, PartNode
<1>7. RunFits(r)'
  BY <1>1, <1>2, <1>3, <1>6
     DEF RunFits, ParsePcs, LinkPcs, LinkedFully, ObjectNode, VersionNode, PartNode, Edge, Uses
<1>8. ASSUME NEW e \in edges PROVE EdgeFits(e)'
  <2>1. e = HasVersion(v) \/ e \in Supersedes(v)
    BY DEF Matched
  <2>2. e.from \in neo'.nodes /\ e.to \in neo'.nodes
    BY <1>4 DEF Matched
  <2>3. e = HasVersion(v) => e.type = "HAS_VERSION"
    BY EdgeParts DEF HasVersion
  <2>4. e \in Supersedes(v) => e.type = "SUPERSEDES"
    BY EdgeParts DEF Supersedes
  <2>5. e.type = "HAS_VERSION" => \E u \in Versions : e = HasVersion(u) /\ u \in stored'
    BY <1>1, <1>2, <2>1, <2>3, <2>4
  <2> QED BY <2>2, <2>5 DEF EdgeFits, HasVersion
<1>9. ASSUME NEW u \in Versions \ {v}
      PROVE  /\ HasVersion(u) \notin edges
             /\ \A q \in Parts : Uses(u, q) \notin edges
  BY EdgeParts, NodeKinds DEF Matched, HasVersion, Supersedes, Uses
<1> QED BY <1>1, <1>2, <1>3, <1>4, <1>7, <1>8, <1>9, QueryStep

LEMMA DerivedStep ==
  ASSUME IInv, NEW w \in Workers, RunQuery(w), At(w, "derived")
  PROVE  IInv' /\ (stages' = stages \/ Stages!Next)
<1> PICK v : v = runs[w].v
  OBVIOUS
<1> PICK edges : edges = Matched(DerivedFrom(v))
  OBVIOUS
<1>1. /\ runs[w] \in Runs /\ v \in Versions /\ RunFits(runs[w]) /\ runs[w] # Idle
      /\ runs[w].pc = "derived"
      /\ neo' = LinkDerived(v) /\ Goto(w, "index")
      /\ Remake /\ UNCHANGED <<told, rows, keyed, stored, index, published, request, queue>>
  BY RunAt DEF RunQuery, At, Runs
<1>2. LinkedFully(v) /\ v \in keyed /\ v \in stored
  BY <1>1 DEF RunFits, LinkPcs, IInv, VersionFits
<1>3. PICK r \in Runs \cup {Idle} : /\ runs' = [runs EXCEPT ![w] = r]
                                    /\ r # Idle /\ r.pc = "index" /\ r.v = v
  BY <1>1, GotoRun DEF Pcs, LinkPcs
<1>4. neo' = [up |-> neo.up, nodes |-> neo.nodes \cup {}, edges |-> neo.edges \cup edges]
  BY <1>1 DEF LinkDerived, IInv, Typed
<1>5. LinkedFully(v)'
  <2>1. Made' = Made \cup edges
    BY <1>1, <1>4, MadeOnly
  <2> QED BY <1>2, <1>4, <2>1
          DEF LinkedFully, HasVersion, Uses, Edge, ObjectNode, VersionNode, PartNode
<1>6. RunFits(r)'
  BY <1>1, <1>2, <1>3, <1>5
     DEF RunFits, ParsePcs, LinkPcs
<1>7. \A e \in edges : e.type = "DERIVED_FROM" /\ e.from \in neo'.nodes /\ e.to \in neo'.nodes
  BY <1>4, EdgeParts DEF Matched, DerivedFrom
<1>8. \A e \in edges : EdgeFits(e)'
  BY <1>7 DEF EdgeFits
<1>9. \A u \in Versions \ {v} :
        /\ HasVersion(u) \notin edges
        /\ \A q \in Parts : Uses(u, q) \notin edges
  BY <1>7, EdgeParts DEF HasVersion, Uses
<1> QED BY <1>1, <1>2, <1>3, <1>4, <1>6, <1>8, <1>9, QueryStep

LEMMA RunQueryStep ==
  ASSUME IInv, NEW w \in Workers, RunQuery(w)
  PROVE  IInv' /\ (stages' = stages \/ Stages!Next)
  BY ScaffoldStep, LinkPartStep, VersionEdgesStep, DerivedStep DEF RunQuery, At

-----------------------------------------------------------------------------
(* Every step keeps the invariant and is a step of ArtifactStages, or none. *)

LEMMA WorkerSteps ==
  ASSUME IInv, NEW w \in Workers, WorkerStep(w) \/ ParseRaises(w) \/ Crash(w)
  PROVE  IInv' /\ (stages' = stages \/ Stages!Next)
<1>1. CASE TakeTask(w)
  BY <1>1, TakeTaskStep
<1>2. CASE SetProcessing(w) \/ ConcludeParse(w) \/ SetFailed(w)
  BY <1>2, SetProcessingStep, ConcludeParseStep, SetFailedStep
<1>3. CASE StoreParsed(w) \/ RunQuery(w) \/ IndexVersion(w)
  BY <1>3, StoreParsedStep, RunQueryStep, IndexVersionStep
<1>4. CASE AnnounceParse(w) \/ AnnounceLink(w)
  BY <1>4, AnnouncingStep
<1>5. CASE EnqueueAutoLink(w) \/ RetryParse(w) \/ LinkRaises(w) \/ InsertParts(w) \/ Crash(w)
  BY <1>5, EndingStep
<1>6. CASE ReadVersion(w) \/ EnqueueEnrich(w) \/ SelectParts(w) \/ ParseRaises(w)
  BY <1>6, ReadVersionStep, EnqueueEnrichStep, SelectPartsStep, ParseRaisesStep
<1> QED BY <1>1, <1>2, <1>3, <1>4, <1>5, <1>6 DEF WorkerStep

LEMMA OtherSteps ==
  ASSUME IInv,
         \/ RequestStep \/ RefuseTask \/ Redrive \/ Outage \/ Recovery
         \/ \E p \in Processes : BeginRequest(p) \/ UserLinks(p) \/ UserUnlinks(p) \/ Restart(p)
  PROVE  IInv' /\ (stages' = stages \/ Stages!Next)
<1>1. CASE CommitRequest
  BY <1>1, CommitRequestStep DEF Stages!Next
<1>2. CASE UploadOne \/ ApplyRelationship \/ AbortRequest
  BY <1>2, UploadOneStep, ApplyRelationshipStep, AbortRequestStep
<1>3. CASE RefuseTask \/ Redrive
  BY <1>3, QueueStep
<1>4. CASE Outage \/ Recovery \/ \E p \in Processes : Restart(p)
  BY <1>4, DatabaseStep
<1>5. CASE \E p \in Processes : BeginRequest(p) \/ UserLinks(p) \/ UserUnlinks(p)
  BY <1>5, BeginRequestStep, UserLinksStep, UserUnlinksStep
<1> QED BY <1>1, <1>2, <1>3, <1>4, <1>5 DEF RequestStep

LEMMA StutterStep ==
  ASSUME IInv, UNCHANGED vars
  PROVE  IInv' /\ stages' = stages
<1>1. /\ UNCHANGED <<neo, unlinked, told, rows, keyed, stored, index, published, runs, queue, request>>
      /\ Typed'
  BY DEF vars, IInv, Typed
<1>2. RequestFits'
  BY <1>1 DEF IInv, RequestFits, Committed
<1> QED BY <1>1, <1>2, SameGraph, OutsideStep

LEMMA NextStep == IInv /\ [Next]_vars => IInv' /\ [Stages!Next]_stages
<1> SUFFICES ASSUME IInv, [Next]_vars PROVE IInv' /\ (stages' = stages \/ Stages!Next)
  OBVIOUS
<1>1. CASE UNCHANGED vars
  BY <1>1, StutterStep
<1>2. CASE Next
  BY <1>2, WorkerSteps, OtherSteps DEF Next
<1> QED BY <1>1, <1>2

-----------------------------------------------------------------------------
(* The results *)

LEMMA Invariance == Spec => []IInv
  BY InitIInv, NextStep, PTL DEF Spec

(* Whatever is duplicated, retried or lost, a row that says complete or     *)
(* skipped, or names a parsed output, and a parse_complete event, are about *)
(* an output that is in storage (parse_object stores it before it commits). *)
THEOREM ParsedIsStored == Spec => []ParsedMeansStored
<1>1. IInv => ParsedMeansStored
  BY DEF IInv, VersionFits, ParsedMeansStored
<1> QED BY <1>1, Invariance, PTL

(* What the search index has was put in the graph whole, and but for the    *)
(* edges that users deleted since (delete_relationship) it is in its        *)
(* object's lineage and its parts among the dependencies; what is announced *)
(* as linked is in the index.                                               *)
THEOREM HitsCanBeFollowed == Spec => []IndexedMeansLinked
<1>1. IInv => IndexedMeansLinked
  <2> SUFFICES ASSUME IInv, NEW v \in Versions
      PROVE  /\ <<"auto_link_complete", v>> \in published => v \in index
             /\ v \in index =>
                  /\ LinkedFully(v)
                  /\ neo.up /\ HasVersion(v) \notin unlinked =>
                       /\ v \in Lineage(ObjectOf[v])
                       /\ \A p \in PartsOf[v] :
                            Uses(v, p) \notin unlinked => p \in Dependencies(ObjectOf[v])
    BY DEF IndexedMeansLinked
  <2>1. /\ <<"auto_link_complete", v>> \in published => v \in index
        /\ v \in index => LinkedFully(v)
    BY DEF IInv, VersionFits
  <2>2. ASSUME LinkedFully(v), HasVersion(v) \notin unlinked
        PROVE  v \in VersionsOf(ObjectOf[v])
    BY <2>2 DEF LinkedFully, Made, HasVersion, VersionsOf
  <2>3. ASSUME LinkedFully(v), HasVersion(v) \notin unlinked, neo.up,
               NEW p \in PartsOf[v], Uses(v, p) \notin unlinked
        PROVE  p \in Dependencies(ObjectOf[v])
    BY <2>2, <2>3, PartsTyped DEF LinkedFully, Made, Dependencies
  <2>4. ASSUME LinkedFully(v), HasVersion(v) \notin unlinked, neo.up
        PROVE  v \in Lineage(ObjectOf[v])
    BY <2>2, <2>4 DEF Lineage
  <2> QED BY <2>1, <2>3, <2>4
<1> QED BY <1>1, Invariance, PTL

(* Every version's row, output, subgraph and document come into being in    *)
(* this order, rows of one request together, and but for the edges that     *)
(* users delete none is taken back: each step of the pipeline is one of     *)
(* ArtifactStages or changes no stage.                                      *)
THEOREM ImplementsStages == Spec => ArtifactsInOrder
  BY InitIInv, NextStep, Invariance, PTL DEF Spec, ArtifactsInOrder, Stages!Spec

(* Rows, tasks and runs have their types, and no task is tried more often   *)
(* than it may be.                                                          *)
THEOREM TypeCorrect == Spec => []TypeOK
<1>1. IInv => TypeOK
  <2> SUFFICES ASSUME IInv PROVE TypeOK
    OBVIOUS
  <2>1. /\ neo.nodes \subseteq Nodes
        /\ \A e \in neo.edges : {e.from, e.to} \subseteq Nodes
    BY DEF IInv, Typed, EdgeFits, Made
  <2>2. request = NoRequest \/ request.left \cup request.made \subseteq Versions
    BY DEF IInv, RequestFits, Requests
  <2>3. \A t \in BagToSet(queue) : t.version \in Versions /\ t.try \in 0..MaxRetries
    BY DEF IInv, Typed, Tasks, Tries
  <2>4. \A w \in Workers : runs[w] = Idle \/ runs[w].v \in Versions
    BY DEF IInv, Typed, Runs
  <2> QED BY <2>1, <2>2, <2>3, <2>4 DEF IInv, Typed, Events, TypeOK
<1> QED BY <1>1, Invariance, PTL

-----------------------------------------------------------------------------
(* Links that were answered *)

(* The database or the process that answered has the link, unless that      *)
(* process lost its memory.                                                 *)
LinkFits(relationship) ==
  IF relationship[1] = Database THEN relationship[2] \in neo.edges
  ELSE relationship[1] \in restarted \/ relationship[2] \in links[relationship[1]]

LinksInv ==
  /\ links \in [Processes -> SUBSET AllLinks]
  /\ told \subseteq (Processes \cup {Database}) \X ObjectLinks
  /\ \A relationship \in told : LinkFits(relationship)

LEMMA LinksGrow ==
  ASSUME LinksInv, links' \in [Processes -> SUBSET AllLinks], told' = told,
         neo.edges \subseteq neo'.edges, restarted \subseteq restarted',
         \A p \in Processes : links[p] \subseteq links'[p] \/ p \in restarted'
  PROVE  LinksInv'
<1>1. ASSUME NEW r \in told PROVE LinkFits(r)'
  BY DEF LinksInv, LinkFits
<1> QED BY <1>1 DEF LinksInv

(* A made link is in the database or in the process that made it.           *)
LEMMA MadeLink ==
  ASSUME IInv, LinksInv, NEW p \in Processes, NEW l \in AllLinks, MakeLink(p, l)
  PROVE  /\ links' \in [Processes -> SUBSET AllLinks]
         /\ neo.edges \subseteq neo'.edges /\ \A q \in Processes : links[q] \subseteq links'[q]
         /\ IF neo.up THEN l \in neo'.edges ELSE l \in links'[p]
<1>1. CASE neo.up /\ neo' = [neo EXCEPT !.edges = @ \cup {l}] /\ links' = links
  BY <1>1 DEF LinksInv, IInv, Typed
<1>2. CASE ~neo.up /\ links' = [links EXCEPT ![p] = @ \cup {l}] /\ neo' = neo
  BY <1>2 DEF LinksInv, IInv, Typed
<1> QED BY <1>1, <1>2 DEF MakeLink

LEMMA UserLinksKeep ==
  ASSUME IInv, LinksInv, NEW p \in Processes, UserLinks(p)
  PROVE  LinksInv'
<1>1. PICK l \in ObjectLinks : CreateLink(p, l)
  BY DEF UserLinks
<1> PICK new : new = <<IF neo.up THEN Database ELSE p, l>>
  OBVIOUS
<1>2. /\ links' \in [Processes -> SUBSET AllLinks]
      /\ neo.edges \subseteq neo'.edges /\ \A q \in Processes : links[q] \subseteq links'[q]
      /\ IF neo.up THEN l \in neo'.edges ELSE l \in links'[p]
  BY <1>1, MadeLink DEF CreateLink, AllLinks
<1>3. told' = told \cup {new} /\ restarted' = restarted
  BY <1>1 DEF CreateLink
<1>4. new \in (Processes \cup {Database}) \X ObjectLinks
  OBVIOUS
<1>5. LinkFits(new)'
  BY <1>2, DatabaseAssumption DEF LinkFits, Database
<1>6. ASSUME NEW r \in told PROVE LinkFits(r)'
  BY <1>2, <1>3 DEF LinksInv, LinkFits, Database
<1> QED BY <1>2, <1>3, <1>4, <1>5, <1>6 DEF LinksInv, Database

LEMMA UserUnlinksKeep ==
  ASSUME IInv, LinksInv, NEW p \in Processes, UserUnlinks(p)
  PROVE  LinksInv'
<1>1. PICK gone \in Deletable(p) : DeleteLink(p, gone)
  BY DEF UserUnlinks
<1> PICK from, l : gone = << from, l >>
  BY DEF Deletable, LinksInv
<1>2. /\ told' = told \ {gone} /\ restarted' = restarted
      /\ links' \in [Processes -> SUBSET AllLinks]
  BY <1>1 DEF DeleteLink, LinksInv
<1>3. ASSUME NEW r \in told, r # gone PROVE LinkFits(r)'
  <2>1. /\ r[1] \in Processes \cup {Database}
        /\ r[1] # gone[1] \/ r[2] # gone[2]
    BY <1>1, <1>3 DEF LinksInv
  <2>2. CASE gone[1] = Database /\ neo' = [neo EXCEPT !.edges = @ \ {gone[2]}] /\ links' = links
    BY <1>2, <2>1, <2>2 DEF LinksInv, LinkFits, Database, IInv, Typed
  <2>3. CASE /\ gone[1] = p /\ links' = [links EXCEPT ![p] = @ \ {gone[2]}] /\ neo' = neo
    BY <1>2, <2>1, <2>3 DEF LinksInv, LinkFits, Database
  <2> QED BY <1>1, <2>2, <2>3 DEF DeleteLink
<1> QED BY <1>2, <1>3 DEF LinksInv, Database

(* Queries of the auto-linker only add edges.                               *)
LEMMA QueryGrows ==
  ASSUME IInv, NEW w \in Workers, RunQuery(w)
  PROVE  neo.edges \subseteq neo'.edges
  BY DEF RunQuery, Scaffold, LinkPart, LinkVersionEdges, LinkDerived, IInv, Typed

LEMMA LinksStep == IInv /\ LinksInv /\ [Next]_vars => LinksInv'
<1> SUFFICES ASSUME IInv, LinksInv, [Next]_vars PROVE LinksInv'
  OBVIOUS
<1>1. CASE UNCHANGED graphVars
  BY <1>1, LinksGrow DEF graphVars, LinksInv
<1>2. CASE ApplyRelationship
  <2>1. PICK l \in request.rels : MakeLink(request.by, l)
    BY <1>2 DEF ApplyRelationship
  <2>2. request.by \in Processes /\ l \in AllLinks
    BY <1>2 DEF ApplyRelationship, IInv, RequestFits, Requests
  <2> QED BY <1>2, <2>1, <2>2, MadeLink, LinksGrow DEF ApplyRelationship
<1>3. ASSUME NEW p \in Processes, UserLinks(p) \/ UserUnlinks(p) PROVE LinksInv'
  BY <1>3, UserLinksKeep, UserUnlinksKeep
<1>4. ASSUME NEW p \in Processes, Restart(p) PROVE LinksInv'
  BY <1>4, LinksGrow DEF Restart, RestartProcess, LinksInv
<1>5. CASE Outage \/ Recovery
  BY <1>5, LinksGrow
     DEF Outage, DatabaseStops, Recovery, DatabaseStarts, LinksInv, IInv, Typed
<1>6. ASSUME NEW w \in Workers, RunQuery(w) PROVE LinksInv'
  BY <1>6, QueryGrows, LinksGrow DEF RunQuery, LinksInv
<1>7. CASE UNCHANGED vars
  BY <1>1, <1>7 DEF vars, graphVars
<1>8. ASSUME NEW w \in Workers, WorkerStep(w) \/ ParseRaises(w) \/ Crash(w)
      PROVE  UNCHANGED graphVars \/ RunQuery(w)
  BY <1>8 DEF WorkerStep, TakeTask, SetProcessing, StoreParsed, ConcludeParse, AnnounceParse,
     EnqueueAutoLink, SetFailed, RetryParse, ReadVersion, IndexVersion, EnqueueEnrich,
     AnnounceLink, LinkRaises, SelectParts, InsertParts, ParseRaises, Crash
<1>9. ASSUME UploadOne \/ CommitRequest \/ AbortRequest \/ RefuseTask \/ Redrive
             \/ \E p \in Processes : BeginRequest(p)
      PROVE  UNCHANGED graphVars
  BY <1>9 DEF UploadOne, CommitRequest, AbortRequest, RefuseTask, Redrive, BeginRequest
<1> QED BY <1>1, <1>2, <1>3, <1>4, <1>5, <1>6, <1>7, <1>8, <1>9 DEF Next, RequestStep

(* A link that was answered 201 stays until it is answered 204: in the      *)
(* database, or in the process that made it, which lists it at both ends    *)
(* unless it has restarted or holds a link that no listing can show         *)
(* (graph.py, create_link, delete_link, _edges_for).                        *)
THEOREM AnsweredLinksAreKept == Spec => []LinksKept
<1>1. Init => LinksInv
  BY DEF Init, GraphInit, LinksInv
<1>2. Spec => []LinksInv
  BY <1>1, LinksStep, Invariance, PTL DEF Spec
<1>3. LinksInv => LinksKept
  <2> SUFFICES ASSUME LinksInv, NEW relationship \in told
      PROVE  LET where == relationship[1]
                 l == relationship[2]
             IN IF where = Database THEN l \in neo.edges
                ELSE where \in restarted \/ ListingFails(where) \/ \E a, b \in Objects :
                       /\ l.from = ObjectNode(a) /\ l \in EdgesOut(where, a)
                       /\ l.to = ObjectNode(b) /\ l \in EdgesIn(where, b)
    BY DEF LinksKept
  <2> PICK where, l : where = relationship[1] /\ l = relationship[2]
    OBVIOUS
  <2>1. l \in ObjectLinks /\ LinkFits(relationship)
    BY DEF LinksInv
  <2>2. PICK a, b \in Objects : l.from = ObjectNode(a) /\ l.to = ObjectNode(b)
    BY <2>1, EdgeParts DEF ObjectLinks, Link
  <2>3. CASE where = Database
    BY <2>1, <2>3 DEF LinkFits
  <2>4. CASE where # Database /\ where \notin restarted /\ ~ListingFails(where)
    <3>1. l \in links[where]
      BY <2>1, <2>4 DEF LinkFits
    <3>2. l \in EdgesOut(where, a) /\ l \in EdgesIn(where, b)
      BY <2>2, <2>4, <3>1 DEF EdgesOut, EdgesIn, Listing
    <3> QED BY <2>2, <2>4, <3>2
  <2> QED BY <2>3, <2>4
<1> QED BY <1>2, <1>3, PTL
=============================================================================
