----------------------- MODULE DaemonLifecycleProofs -----------------------
(***************************************************************************)
(* One daemon, and stops that stick, for any number of commands.           *)
(***************************************************************************)
EXTENDS DaemonLifecycle, TLAPS

(* A command spawns at most one daemon, as its last step; and only a        *)
(* restart goes through restart's steps.                                    *)
SpawnsLast == \A a \in Actor : at[a] # "done" => srv[a] = "none"

OwnSteps == \A a \in Actor : at[a] \in {"unlink", "spawn"} => kind[a] = "restart"

Inv == TypeOK /\ SpawnsLast /\ OwnSteps

LEMMA InitInv == Init => Inv
<1> SUFFICES ASSUME Init PROVE Inv
    OBVIOUS
<1> USE LifecycleAssumption
<1>1. PICK past \in {"none", "up", "gone"} :
        /\ srv = [d \in Daemon |-> IF d = Old THEN past ELSE "none"]
        /\ flocked = IF past = "up" THEN Old ELSE None
        /\ sock = IF past = "none" THEN None ELSE Old
        /\ pidfile = IF past = "none" THEN None ELSE Old
    BY DEF Init
<1>2. TypeOK
    BY <1>1 DEF Init, TypeOK, Daemon, Inside
<1>3. SpawnsLast /\ OwnSteps
    BY <1>1 DEF Init, SpawnsLast, OwnSteps, Daemon
<1> QED BY <1>2, <1>3 DEF Inv

(* What a daemon process does: its place in the flock follows from where    *)
(* it was and where it is.                                                  *)
LEMMA DaemonStep ==
    ASSUME Inv, NEW d \in Daemon, NEW to, UNCHANGED clientVars,
           srv[d] # "none",
           srv' = [srv EXCEPT ![d] = to],
           to \in {"gated", "marked", "clear", "bound", "up", "leaving", "gone", "killed"},
           stopping' \subseteq stopping,
           flocked' = IF to \in Inside THEN d ELSE Released(d),
           to \in Inside => flocked \in {None, d},
           sock' \in {sock, None, d}, pidfile' \in {pidfile, None, d},
           disabled' \in BOOLEAN
    PROVE  Inv'
<1> USE LifecycleAssumption
<1>1. /\ srv' \in [Daemon -> {"none", "spawned", "gated", "marked", "clear", "bound", "up",
                              "leaving", "gone", "killed"}]
      /\ flocked' \in Daemon \cup {None}
    BY DEF Inv, TypeOK, Released
<1>2. \A e \in Daemon : flocked' = e <=> srv'[e] \in Inside'
  <2> SUFFICES ASSUME NEW e \in Daemon PROVE flocked' = e <=> srv'[e] \in Inside
      BY DEF Inside
  <2>1. flocked = e <=> srv[e] \in Inside
      BY DEF Inv, TypeOK
  <2>2. flocked = d <=> srv[d] \in Inside
      BY DEF Inv, TypeOK
  <2>3. CASE e = d
      BY <2>2, <2>3 DEF Inv, TypeOK, Released
  <2>4. CASE e # d
    <3>1. srv'[e] = srv[e]
        BY <2>4 DEF Inv, TypeOK
    <3>2. CASE to \in Inside
        BY <2>1, <2>4, <3>1, <3>2
    <3>3. CASE to \notin Inside
        BY <2>1, <2>4, <3>1, <3>3 DEF Released
    <3> QED BY <3>2, <3>3
  <2> QED BY <2>3, <2>4
<1>3. TypeOK'
    BY <1>1, <1>2 DEF Inv, TypeOK, clientVars
<1>4. SpawnsLast' /\ OwnSteps'
    BY DEF Inv, TypeOK, SpawnsLast, OwnSteps, clientVars, Daemon
<1> QED BY <1>3, <1>4 DEF Inv

(* What a command does: it may spawn its daemon, and then it is done.       *)
LEMMA CommandStep ==
    ASSUME Inv, NEW a \in Actor, NEW to, at[a] # "done",
           kind' = kind, at' = [at EXCEPT ![a] = to],
           to \in {"connect", "query", "answer", "pid", "unlink", "spawn", "done"},
           to \in {"unlink", "spawn"} => kind[a] = "restart",
           asked' \in [Actor -> Daemon \cup {None}],
           \/ UNCHANGED srv
           \/ Spawn(a) /\ to = "done",
           stopping' \subseteq Daemon, flocked' = flocked,
           sock' \in {sock, None}, pidfile' \in {pidfile, None}, disabled' \in BOOLEAN
    PROVE  Inv'
<1> USE LifecycleAssumption
<1>0. a \in Daemon /\ srv[a] = "none"
    BY DEF Inv, SpawnsLast, Daemon
<1>1. srv' \in [Daemon -> {"none", "spawned", "gated", "marked", "clear", "bound", "up",
                           "leaving", "gone", "killed"}]
    BY DEF Inv, TypeOK, Spawn
<1>2. \A e \in Daemon : srv'[e] \in Inside <=> srv[e] \in Inside
    BY <1>0 DEF Inv, TypeOK, Spawn, Inside
<1>3. TypeOK'
    BY <1>1, <1>2 DEF Inv, TypeOK, Inside
<1>4. SpawnsLast'
    BY <1>0 DEF Inv, TypeOK, SpawnsLast, Spawn, Daemon
<1>5. OwnSteps'
    BY DEF Inv, TypeOK, OwnSteps
<1> QED BY <1>3, <1>4, <1>5 DEF Inv

LEMMA CommandKeeps == ASSUME Inv, NEW a \in Actor, Command(a) PROVE Inv'
<1> USE LifecycleAssumption DEF Goto, fileVars
<1>0. /\ asked \in [Actor -> Daemon \cup {None}] /\ stopping \subseteq Daemon
      /\ disabled \in BOOLEAN /\ sock \in Daemon \cup {None}
    BY DEF Inv, TypeOK
<1>1. CASE AutoMarker(a)
    BY CommandStep, <1>0, <1>1 DEF AutoMarker
<1>2. CASE AutoConnect(a)
    BY CommandStep, <1>0, <1>2 DEF AutoConnect
<1>3. CASE StartCmd(a)
    BY CommandStep, <1>0, <1>3 DEF StartCmd
<1>4. CASE StopMark(a)
    BY CommandStep, <1>0, <1>4 DEF StopMark
<1>5. CASE RestartUnmark(a)
    BY CommandStep, <1>0, <1>5 DEF RestartUnmark
<1>6. CASE SendStop(a)
  <2>1. asked' \in [Actor -> Daemon \cup {None}] /\ stopping' \subseteq Daemon
      BY <1>0, <1>6, ZenonT(60) DEF SendStop, Connects
  <2> QED BY CommandStep, <2>1, <1>0, <1>6 DEF SendStop
<1>7. CASE StopUnlink(a)
    BY CommandStep, <1>0, <1>7 DEF StopUnlink
<1>8. CASE StopUnlinkPid(a)
    BY CommandStep, <1>0, <1>8 DEF StopUnlinkPid
<1>9. CASE RestartCheck(a)
    BY CommandStep, <1>0, <1>9 DEF RestartCheck
<1>10. CASE RestartUnlink(a)
    BY CommandStep, <1>0, <1>10 DEF RestartUnlink, Inv, OwnSteps
<1>11. CASE RestartSpawn(a)
    BY CommandStep, <1>0, <1>11 DEF RestartSpawn
<1> QED BY <1>1, <1>2, <1>3, <1>4, <1>5, <1>6, <1>7, <1>8, <1>9, <1>10, <1>11 DEF Command

LEMMA DaemonKeeps ==
    ASSUME Inv, NEW d \in Daemon, Serve(d) \/ Watchdog(d) \/ Kill(d) PROVE Inv'
<1> USE LifecycleAssumption
<1>0. /\ srv[d] \in Inside <=> flocked = d
      /\ disabled \in BOOLEAN
      /\ srv[d] = "spawned" => Released(d) = flocked
    BY DEF Inv, TypeOK, Inside, Released
<1> USE <1>0 DEF Become, fileVars, Inside
<1>1. CASE TakeFlock(d)
    BY <1>1, DaemonStep DEF TakeFlock
<1>2. CASE LosesFlock(d)
    BY <1>2, DaemonStep DEF LosesFlock
<1>3. CASE EnableAutostart(d)
    BY <1>3, DaemonStep DEF EnableAutostart
<1>4. CASE UnlinkStale(d)
    BY <1>4, DaemonStep DEF UnlinkStale
<1>5. CASE Bind(d)
    BY <1>5, DaemonStep DEF Bind
<1>6. CASE WritePid(d)
    BY <1>6, DaemonStep DEF WritePid
<1>7. CASE ObeyStop(d)
    BY <1>7, DaemonStep DEF ObeyStop
<1>8. CASE Exit(d)
    BY <1>8, DaemonStep DEF Exit
<1>9. CASE Watchdog(d)
    BY <1>9, DaemonStep DEF Watchdog
<1>10. CASE Kill(d)
    BY <1>10, DaemonStep DEF Kill
<1> QED BY <1>1, <1>2, <1>3, <1>4, <1>5, <1>6, <1>7, <1>8, <1>9, <1>10 DEF Serve

LEMMA Inductive == Inv /\ [Next]_vars => Inv'
<1> SUFFICES ASSUME Inv, [Next]_vars PROVE Inv'
    OBVIOUS
<1>1. CASE UNCHANGED vars
    BY <1>1 DEF vars, clientVars, fileVars, Inv, TypeOK, SpawnsLast, OwnSteps, Inside
<1>2. ASSUME NEW a \in Actor, Command(a) PROVE Inv'
    BY <1>2, CommandKeeps
<1>3. ASSUME NEW d \in Daemon, Serve(d) \/ Watchdog(d) \/ Kill(d) PROVE Inv'
    BY <1>3, DaemonKeeps
<1> QED BY <1>1, <1>2, <1>3 DEF Next

(* Types are kept, and the flock is held exactly by the daemon between its  *)
(* taking it and its end.                                                   *)
THEOREM TypeCorrect == Spec => []TypeOK
<1>1. Inv => TypeOK
    BY DEF Inv
<1> QED BY InitInv, Inductive, <1>1, PTL DEF Spec

(* "The one hard guarantee that there is exactly ONE live daemon": no one   *)
(* who is about to take the socket, or has it, has company, whatever        *)
(* commands race and however late anyone answers.                           *)
THEOREM One == Spec => []OneDaemon
<1>1. TypeOK => OneDaemon
  <2> SUFFICES ASSUME TypeOK, NEW d \in Daemon, NEW e \in Daemon,
                      srv[d] \in Inside, srv[e] \in Inside
               PROVE  d = e
      BY DEF OneDaemon, Inside
  <2>1. flocked = d /\ flocked = e
      BY DEF TypeOK
  <2> QED BY <2>1
<1> QED BY TypeCorrect, <1>1, PTL

(* A stop is kept by everything that begins after it: no step of anyone     *)
(* brings the marker down or a daemon up, for any number of autostarts.     *)
THEOREM Sticks == Spec => StopSticks
<1>1. Inv /\ [Next]_vars => [Off => Off']_vars
  <2> SUFFICES ASSUME Inv, Next, Off PROVE Off'
      OBVIOUS
  <2> USE LifecycleAssumption DEF Off
  <2>1. ASSUME NEW a \in Actor, Command(a) PROVE Off'
    <3>1. /\ at \in [Actor -> {"begin", "connect", "query", "answer", "pid", "unlink",
                               "spawn", "done"}]
          /\ kind[a] \in {"stop", "start", "restart", "auto"}
          /\ at[a] \in {"unlink", "spawn"} => kind[a] = "restart"
        BY DEF Inv, TypeOK, OwnSteps
    <3>2. /\ at[a] # "connect"
          /\ kind[a] \in {"start", "restart"} => at[a] = "done"
          /\ disabled
        OBVIOUS
    <3>3. PICK to \in {"query", "answer", "pid", "done"} :
            at' = [at EXCEPT ![a] = to] /\ UNCHANGED <<kind, srv>> /\ kind[a] \in {"stop", "auto"}
        BY <2>1, <3>1, <3>2
        DEF Command, Goto, fileVars, AutoMarker, AutoConnect, StartCmd, StopMark, RestartUnmark,
            SendStop, StopUnlink, StopUnlinkPid, RestartCheck, RestartUnlink, RestartSpawn
    <3>4. disabled'
        BY <2>1, <3>1, <3>2
        DEF Command, Goto, fileVars, AutoMarker, AutoConnect, StartCmd, StopMark, RestartUnmark,
            SendStop, StopUnlink, StopUnlinkPid, RestartCheck, RestartUnlink, RestartSpawn
    <3> QED BY <3>1, <3>3, <3>4
  <2>2. ASSUME NEW d \in Daemon, Serve(d) \/ Watchdog(d) \/ Kill(d) PROVE Off'
    <3>1. srv \in [Daemon -> {"none", "spawned", "gated", "marked", "clear", "bound", "up",
                              "leaving", "gone", "killed"}]
          /\ srv[d] \notin {"spawned", "gated"}
        BY DEF Inv, TypeOK
    <3>2. PICK to : srv' = [srv EXCEPT ![d] = to] /\ to \notin {"spawned", "gated"}
        BY <2>2, <3>1
        DEF Serve, Become, TakeFlock, LosesFlock, EnableAutostart, UnlinkStale, Bind, WritePid,
            ObeyStop, Exit, Watchdog, Kill
    <3>3. UNCHANGED <<kind, at, disabled>>
        BY <2>2, <3>1
        DEF Serve, Become, TakeFlock, LosesFlock, EnableAutostart, UnlinkStale, Bind, WritePid,
            ObeyStop, Exit, Watchdog, Kill, clientVars, fileVars
    <3> QED BY <3>1, <3>2, <3>3
  <2> QED BY <2>1, <2>2 DEF Next
<1> QED BY InitInv, Inductive, <1>1, PTL DEF Spec, StopSticks

=============================================================================
