-------------------------- MODULE MCHosVersionControl --------------------------
(***************************************************************************)
(* Small deployments for TLC.  Racing requests: two clients, two branches  *)
(* of one project, trees that agree, overlap and disagree on one path or   *)
(* on both.  One request at a time: one client, a branch of a second       *)
(* project too, and more history.                                          *)
(***************************************************************************)
EXTENDS HosVersionControl, TLC

CONSTANTS main, side, other, p1, p2, x, y, bad, prj1, prj2

MCProject == {prj1, prj2}
MCProjectOf == [b \in Branch |-> IF b = other THEN prj2 ELSE prj1]
MCPath == {p1, p2}
MCValue == {x, y}

\* Disagreeing on both paths, and with a path only one of them has (the second
\* snapshot sent with it does not validate).
MCPayload == {p1 :> x @@ p2 :> x, p1 :> y @@ p2 :> y, p1 :> x @@ p2 :> bad}
TwoPayloads == {p1 :> x @@ p2 :> x, p1 :> y @@ p2 :> y}

\* The first commit, a commit named twice, and one that may not exist or be
\* another project's.
MCExplicit == {<<1>>, <<1, 1>>, <<2>>}
OneExplicit == {<<1>>}

\* One side, values of the client's own that validate and do not, and nonsense.
MCOffered == {"ours", "theirs", "invalid", x, bad}
RacingOffered == {"ours", "theirs", bad}

\* Clients differ only in name.
ClientSymmetry == Permutations(Client)
================================================================================
