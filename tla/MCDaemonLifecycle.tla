------------------------- MODULE MCDaemonLifecycle -------------------------
(***************************************************************************)
(* Instances of DaemonLifecycle for TLC: every choice of three commands,   *)
(* named in one order only.                                                *)
(***************************************************************************)
EXTENDS DaemonLifecycle

CONSTANTS a1, a2, a3

Rank(k) == CASE k = "auto" -> 1 [] k = "stop" -> 2 [] k = "start" -> 3 [] k = "restart" -> 4

AnyThree ==
    {f \in [Actor -> {"stop", "start", "restart", "auto"}] :
        Rank(f[a1]) <= Rank(f[a2]) /\ Rank(f[a2]) <= Rank(f[a3])}

=============================================================================
