--------------------------- MODULE ArtifactStages ---------------------------
(***************************************************************************)
(* What the upload, parse and link services promise together about a       *)
(* version's artifacts: they come into being one after the other - the     *)
(* committed row, the parsed output, the subgraph, the search document -   *)
(* and none of the services takes one back; a subgraph some edges of which *)
(* a user has deleted since counts as made.  Rows of one request are       *)
(* committed together.                                                     *)
(***************************************************************************)
EXTENDS Naturals

CONSTANT Versions
VARIABLE stage  \* how many of its artifacts a version has

Init == stage = [v \in Versions |-> 0]

Upload ==
  /\ stage' \in [Versions -> 0..4]
  /\ \A v \in Versions : stage'[v] # stage[v] => stage[v] = 0 /\ stage'[v] = 1

Advance(v) ==
  /\ stage[v] \in 1..3
  /\ stage' = [stage EXCEPT ![v] = @ + 1]

Next == Upload \/ \E v \in Versions : Advance(v)

Spec == Init /\ [][Next]_stage

=============================================================================
