------------------------------ MODULE MCJobPool ------------------------------
(***************************************************************************)
(* Instances of JobPool for TLC.  a and b belong to one session, which     *)
(* waits for a's number before it submits b; c comes from somebody else.   *)
(***************************************************************************)
EXTENDS JobPool

CONSTANTS a, b, c, r1, r2

AllInOne == [j \in Job |-> r1]
BAfterA  == [j \in Job |-> IF j = b THEN a ELSE NoJob]

(* zcommit of a path, and plain commands. *)
OneCommit == [j \in Job |-> IF j = a THEN <<"add", "commit">> ELSE <<"exec">>]
==============================================================================
