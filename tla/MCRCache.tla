------------------------------ MODULE MCRCache ------------------------------
(***************************************************************************)
(* Instances of RCache for TLC: two keys, a journal that is folded in at   *)
(* the second record, and three commands of which one imports.             *)
(***************************************************************************)
EXTENDS RCache

CONSTANTS p1, p2, p3, k1, k2, a1, a2

AnswerOf == [k \in Key |-> IF k = k1 THEN a1 ELSE a2]

(* p1 records k1 and p2 both; p3 comes for k1, or imports it. *)
Wanted == [p \in Process |-> IF p = p2 THEN Key ELSE {k1}]

=============================================================================
