--------------------------- MODULE MCJobDelivery ---------------------------
(***************************************************************************)
(* An instance of JobDelivery for TLC: a shell runs c1 and then c2, and    *)
(* another git process waits for c3.                                       *)
(***************************************************************************)
EXTENDS JobDelivery

CONSTANTS c1, c2, c3

Shell == [c \in Command |-> IF c = c2 THEN {c1} ELSE {}]

=============================================================================
