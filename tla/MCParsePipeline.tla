-------------------------- MODULE MCParsePipeline --------------------------
(* Instances of ParsePipeline for TLC: two versions of one object, the      *)
(* second derived from the first, and one of another; two name one part.    *)
EXTENDS ParsePipeline

CONSTANTS o1, o2, v1, v2, w1, p1

MCObjectOf == [v \in Versions |-> IF v = w1 THEN o2 ELSE o1]
MCNumberOf == [v \in Versions |-> IF v = v2 THEN 2 ELSE 1]
MCParentOf == [v \in Versions |-> IF v = v2 THEN v1 ELSE NoVersion]
MCPartsOf  == [v \in Versions |-> IF v = w1 THEN {} ELSE {p1}]

Budget(r, f, t, l) == [requests |-> r, faults |-> f, redrives |-> t, links |-> l]

(* Racing tasks of versions that succeed each other; users who link and     *)
(* unlink between two runs of a task; faults, up to the last retry; links   *)
(* while the database is away, and restarts.                                *)
MCBudgets ==
  { Budget(2, 0, 2, 0), Budget(1, 0, 2, 1), Budget(1, 2, 1, 0), Budget(1, 1, 1, 1),
    Budget(1, 3, 0, 2) }

(* Nothing fails and nobody sends a task by hand. *)
MCUploadsOnly == { Budget(2, 0, 0, 0) }

=============================================================================
