----------------------------- MODULE PartGraph -----------------------------
(***************************************************************************)
(* The part graph: the Neo4j database that the auto-linker merges versions *)
(* into, and the links that API processes make by hand, which go to Neo4j  *)
(* while it answers and otherwise into a dictionary of the process that    *)
(* served the request.  api/app/services/graph.py, graph/linker.py,        *)
(* api/app/services/bom.py and parts.py, api/app/routers/graph.py.         *)
(*                                                                         *)
(* One organisation.  A node is what it stands for, <<kind, value>>, an    *)
(* edge [from, type, to].  MERGE finds or makes, so nodes and edges are    *)
(* sets; relationship ids are left out, an edge is its own.  The Org and   *)
(* Project nodes and a project's CONTAINS edges are not here.              *)
(***************************************************************************)
EXTENDS Integers, FiniteSets

CONSTANTS
  Objects,     \* hardware objects
  Versions,    \* their versions, numbered per object
  ObjectOf,    \* [Versions -> Objects]
  NumberOf,    \* [Versions -> version_num]
  ParentOf,    \* [Versions -> Versions \cup {NoVersion}], derived_from_version_id
  NoVersion,   \* no parent
  Parts,       \* parts (mpn, manufacturer)
  PartsOf,     \* [Versions -> SUBSET Parts], what a parse of the version finds
  Processes,   \* API processes
  LinkTypes    \* relationship types that users ask for

ObjectRelTypes == {"USES", "CONTAINS", "TARGETS", "VALIDATES", "SATISFIES",
                   "SOURCED_FROM", "REPRESENTS"}

ASSUME VersionsAssumption ==
  /\ ObjectOf \in [Versions -> Objects]
  /\ NumberOf \in [Versions -> Nat \ {0}]
  /\ \A v, w \in Versions : ObjectOf[v] = ObjectOf[w] /\ NumberOf[v] = NumberOf[w] => v = w
  /\ NoVersion \notin Versions
  /\ ParentOf \in [Versions -> Versions \cup {NoVersion}]
  /\ PartsOf \in [Versions -> SUBSET Parts]
ASSUME LinkTypesAssumption == LinkTypes \subseteq ObjectRelTypes

(* Where a relationship's id is from: the database, or a process.           *)
Database == "neo4j"
ASSUME DatabaseAssumption == Database \notin Processes

VARIABLES
  neo,     \* [up, nodes, edges]: the database, and whether it answers
  links,   \* GraphService._links: per process, the links kept in its memory
  unlinked, \* edges of neo that a user deleted and nobody made again since (history)
  told,    \* relationships answered 201 and not answered 204 since (history)
  restarted \* processes that lost their memory once (history)

graphVars == <<neo, links, unlinked, told, restarted>>

ObjectNode(o)  == <<"HardwareObject", o>>
VersionNode(v) == <<"Version", v>>
PartNode(p)    == <<"Part", p>>
Edge(a, type, b) == [from |-> a, type |-> type, to |-> b]

Nodes ==
  {ObjectNode(o) : o \in Objects} \cup {VersionNode(v) : v \in Versions}
  \cup {PartNode(p) : p \in Parts}

(* The version numbered one below v in the same object, if there is one.    *)
Previous(v) ==
  {w \in Versions : ObjectOf[w] = ObjectOf[v] /\ NumberOf[w] = NumberOf[v] - 1}

GraphInit ==
  /\ neo = [up |-> TRUE, nodes |-> {}, edges |-> {}]
  /\ links = [p \in Processes |-> {}]
  /\ unlinked = {} /\ told = {} /\ restarted = {}

(* Edges that were made, users' deletions apart.  What is made again is no  *)
(* longer missed.                                                           *)
Made == neo.edges \cup unlinked
Remake == unlinked' = unlinked \ neo'.edges

-----------------------------------------------------------------------------
(* What the auto-linker runs, one query each; edges whose ends MATCH does   *)
(* not find are not made, and that is no error.                             *)

Scaffold(v) ==
  [neo EXCEPT !.nodes = @ \cup {ObjectNode(ObjectOf[v]), VersionNode(v)}]

Uses(v, p) == Edge(VersionNode(v), "USES", PartNode(p))
LinkPart(v, p) ==
  IF VersionNode(v) \notin neo.nodes THEN neo
  ELSE [neo EXCEPT !.nodes = @ \cup {PartNode(p)}, !.edges = @ \cup {Uses(v, p)}]

Matched(edges) == {e \in edges : e.from \in neo.nodes /\ e.to \in neo.nodes}

HasVersion(v) == Edge(ObjectNode(ObjectOf[v]), "HAS_VERSION", VersionNode(v))
Supersedes(v) == {Edge(VersionNode(v), "SUPERSEDES", VersionNode(w)) : w \in Previous(v)}
DerivedFrom(v) ==
  IF ParentOf[v] = NoVersion THEN {}
  ELSE {Edge(VersionNode(v), "DERIVED_FROM", VersionNode(ParentOf[v]))}

LinkVersionEdges(v) ==
  [neo EXCEPT !.edges = @ \cup Matched({HasVersion(v)} \cup Supersedes(v))]
LinkDerived(v) == [neo EXCEPT !.edges = @ \cup Matched(DerivedFrom(v))]

(* run_auto_link has made all it has to for v, whatever users deleted since. *)
LinkedFully(v) ==
  /\ {ObjectNode(ObjectOf[v]), VersionNode(v)} \subseteq neo.nodes
  /\ HasVersion(v) \in Made
  /\ \A p \in PartsOf[v] : Uses(v, p) \in Made

-----------------------------------------------------------------------------
(* Links made by hand.  A relationship has an id of the database or of the  *)
(* process whose memory holds it: <<where, edge>>.                          *)

Link(a, type, b) == Edge(ObjectNode(a), type, ObjectNode(b))
ObjectLinks == {Link(a, t, b) : a, b \in Objects, t \in LinkTypes}

(* create_link and create_derived_from_link: with the database up an edge   *)
(* between two nodes it has, with it down a dictionary entry, whatever the  *)
(* database has.  In between is a ValueError("link_failed") that nothing    *)
(* catches.  Two entries of a process for one edge are one entry here.      *)
LinkFails(l) == neo.up /\ Matched({l}) = {}

(* Mutant: link_failed is swallowed like the database's errors. *)
MakeLinkOrNot(p, l) ==
  /\ IF neo.up
     THEN neo' = [neo EXCEPT !.edges = @ \cup Matched({l})] /\ UNCHANGED links
     ELSE links' = [links EXCEPT ![p] = @ \cup {l}] /\ UNCHANGED neo
  /\ Remake

MakeLink(p, l) ==
  /\ \/ /\ neo.up /\ Matched({l}) # {}
        /\ neo' = [neo EXCEPT !.edges = @ \cup {l}]
        /\ UNCHANGED links
     \/ /\ ~neo.up
        /\ links' = [links EXCEPT ![p] = @ \cup {l}]
        /\ UNCHANGED neo
  /\ Remake

CreateLink(p, l) ==
  /\ MakeLink(p, l)
  /\ told' = told \cup {<<IF neo.up THEN Database ELSE p, l>>}
  /\ UNCHANGED restarted

(* The database first, then the memory of this process; anything else is a  *)
(* 404 and changes nothing.  An id of the database may be that of any edge, *)
(* the auto-linker's own included: delete_relationship asks only whose its  *)
(* start node is, and ids can be read with POST /v1/graph/query.            *)
DeleteLink(p, relationship) ==
  LET where == relationship[1]
      l == relationship[2]
  IN /\ \/ /\ where = Database /\ neo.up /\ l \in neo.edges
           /\ neo' = [neo EXCEPT !.edges = @ \ {l}]
           /\ unlinked' = unlinked \cup {l}
           /\ UNCHANGED links
        \/ /\ where = p /\ l \in links[p]
           /\ links' = [links EXCEPT ![p] = @ \ {l}]
           /\ UNCHANGED <<neo, unlinked>>
     /\ told' = told \ {relationship}
     /\ UNCHANGED restarted

(* _edges_for: a KeyError as soon as the process's memory holds a           *)
(* DERIVED_FROM entry, which has no from_object_id.                         *)
ListingFails(p) == \E l \in links[p] : l.type = "DERIVED_FROM"

(* Listings show only the process's own memory.                             *)
Listing(p) == IF ListingFails(p) THEN {} ELSE links[p]

(* The ids a user can have: of any edge, and of an entry that was answered  *)
(* or listed.                                                               *)
Deletable(p) ==
  {<<Database, l>> : l \in neo.edges} \cup {<<p, l>> : l \in Listing(p)} \cup told

(* A deployment or a crash: the dictionary is gone.                         *)
RestartProcess(p) ==
  /\ links[p] # {} /\ p \notin restarted
  /\ links' = [links EXCEPT ![p] = {}]
  /\ restarted' = restarted \cup {p}
  /\ UNCHANGED <<neo, unlinked, told>>

DatabaseStops ==
  /\ neo.up /\ neo' = [neo EXCEPT !.up = FALSE]
  /\ UNCHANGED <<links, unlinked, told, restarted>>
DatabaseStarts ==
  /\ ~neo.up /\ neo' = [neo EXCEPT !.up = TRUE]
  /\ UNCHANGED <<links, unlinked, told, restarted>>

-----------------------------------------------------------------------------
(* Reading. *)

EdgesOut(p, o) == {l \in Listing(p) : l.from = ObjectNode(o)}
EdgesIn(p, o)  == {l \in Listing(p) : l.to = ObjectNode(o)}

(* get_dependencies: from the object's versions along USES and CONTAINS.    *)
VersionsOf(o) ==
  {v \in Versions : Edge(ObjectNode(o), "HAS_VERSION", VersionNode(v)) \in neo.edges}
Dependencies(o) ==
  IF ~neo.up THEN {}
  ELSE {p \in Parts : \E v \in VersionsOf(o) : Uses(v, p) \in neo.edges}

(* get_lineage: the object's versions, and what SUPERSEDES edges lead to,   *)
(* one after the other.                                                     *)
Superseded(v) ==
  {w \in Versions : Edge(VersionNode(v), "SUPERSEDES", VersionNode(w)) \in neo.edges}
Lineage(o) ==
  LET older[n \in 0..Cardinality(Versions)] ==
        IF n = 0 THEN VersionsOf(o) ELSE UNION {Superseded(v) : v \in older[n - 1]}
  IN IF ~neo.up THEN {}
     ELSE VersionsOf(o) \cup UNION {older[n] : n \in 1..Cardinality(Versions)}

=============================================================================
