---------------------------- MODULE MCSceneGraph ----------------------------
(* An instance of SceneGraph for TLC: batches that cross each other, one    *)
(* that names a row twice, one that needs an identity, and upserts of one   *)
(* row that agree in one column and differ in the other.                    *)
EXTENDS SceneGraph, TLC

CONSTANTS n1, n2, e1, i1, d1, none, t1, t2

Cols(i, t) == "refers" :> i @@ "rest" :> t

MCBatches == {
  <<Row(n1, Cols(none, t1)), Row(n2, Cols(none, t1))>>,
  <<Row(n2, Cols(none, t2)), Row(n1, Cols(none, t1))>>,
  <<Row(n2, Cols(i1, t1)), Row(n2, Cols(none, t1))>>,
  <<Row(e1, Cols(none, t1))>>, <<Row(e1, Cols(t2, t1))>>, <<Row(e1, Cols(none, t2))>>,
  <<Row(i1, Cols(none, t1))>>, <<Row(d1, Cols(none, t1))>> }

MCRank == [k \in Keys |-> CASE k = n1 -> 1 [] k = n2 -> 2 [] k = e1 -> 3
                            [] k = i1 -> 4 [] OTHER -> 5]

=============================================================================
