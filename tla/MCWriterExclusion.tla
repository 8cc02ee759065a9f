------------------------- MODULE MCWriterExclusion -------------------------
(***************************************************************************)
(* Instances of WriterExclusion for TLC.  p, q and k are git commands; h   *)
(* is a hook of p, g one of h and e one of q; l is started by p when it    *)
(* has finished; j is a job's child and d an autonomy thread of the        *)
(* daemon.  Each is its own process, d is the daemon's.                    *)
(***************************************************************************)
EXTENDS WriterExclusion

CONSTANTS p, q, k, h, g, e, j, d, l, P, Q, K, H, G, E, J, L, r1, r2

Pids == [a \in Actor |->
    CASE a = p -> P [] a = q -> Q [] a = h -> H [] a = e -> E
      [] a = k -> K [] a = g -> G [] a = j -> J [] a = l -> L [] a = d -> Server]

Parents == [a \in Actor |->
    CASE a \in {h, l} -> <<P>> [] a = g -> <<H, P>> [] a = e -> <<Q>> [] a = j -> <<Server>> [] OTHER -> <<>>]

Starter == [a \in Actor |->
    CASE a \in {h, l} -> p [] a = g -> h [] a = e -> q [] OTHER -> NoActor]

(* All write r1. *)
OneRepo == [a \in Actor |-> r1]

(* p writes r1 and its hook r2, q writes r2 and its hook r1; h's own hook   *)
(* writes r1 again, and k too.                                              *)
Crossed == [a \in Actor |-> IF a \in {h, q} THEN r2 ELSE r1]

=============================================================================
