------------------------------- MODULE Lines -------------------------------
(***************************************************************************)
(* The waiting lines of the daemon's lanes: sequences of distinct waiters. *)
(***************************************************************************)
EXTENDS Naturals, Sequences

(* VecDeque::retain(|q| q != c): ids are unique, so at most one goes. *)
Retain(q, c) ==
    IF \E k \in DOMAIN q : q[k] = c
    THEN LET at == CHOOSE k \in DOMAIN q : q[k] = c
         IN [k \in 1 .. (Len(q) - 1) |-> IF k < at THEN q[k] ELSE q[k + 1]]
    ELSE q

=============================================================================
