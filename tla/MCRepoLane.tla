----------------------------- MODULE MCRepoLane -----------------------------
(***************************************************************************)
(* An instance of RepoLane for TLC.  Three acquisitions are the fewest that  *)
(* give a lane a holder and a queue with an order.                         *)
(***************************************************************************)
EXTENDS RepoLane

CONSTANTS c1, c2, c3, r1

(* All contend for r1. *)
OneRepo == [c \in Client |-> r1]

=============================================================================
