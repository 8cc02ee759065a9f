-------------------------- MODULE DaemonLifecycle --------------------------
(***************************************************************************)
(* How the one daemon of a machine comes up and goes down: `zdaemon        *)
(* start`, `stop`, `restart`, the autostart of every other command, and    *)
(* the watchdog by which a daemon that has lost its socket ends itself.    *)
(* They meet in four files: the socket, the pid file, the marker that      *)
(* disables autostart, and the singleton flock.                            *)
(*                                                                         *)
(* An actor is one such command.  A daemon bears the name of the actor     *)
(* that spawned it (each spawns at most one); Old is the daemon of before. *)
(* A connection to a socket that is bound but not served yet waits in the  *)
(* backlog, so a bound daemon counts as answering; a slow one may answer   *)
(* later than the two seconds of a ping or the five of a STOP, never later *)
(* than the watchdog.  The start lock is left out: it is taken only by     *)
(* starters that have the flock already.                                   *)
(***************************************************************************)
EXTENDS Naturals

CONSTANTS Actor,     (* commands                                            *)
          Kinds,     (* what they may be, each a function from Actor        *)
          Old,       (* the daemon that was there before, or its remains    *)
          None,      (* no file, no daemon                                  *)
          Slow       (* daemons that may answer too late                    *)

Daemon == Actor \cup {Old}

ASSUME LifecycleAssumption ==
    /\ Old \notin Actor
    /\ None \notin Daemon
    /\ Kinds \subseteq [Actor -> {"stop", "start", "restart", "auto"}]
    /\ Slow \subseteq Daemon

VARIABLES
    kind,       (* what each actor does                                     *)
    at,         (* where its command is                                     *)
    asked,      (* the daemon its STOP was sent to                          *)
    srv,        (* where the daemon process it spawned is                   *)
    stopping,   (* daemons with a STOP to read                              *)
    flocked,    (* who has zvcsd.lock                                       *)
    sock,       (* who bound the socket file that is there                  *)
    pidfile,    (* whose pid the pid file has                               *)
    disabled    (* zdaemon.disabled exists                                  *)

clientVars == <<kind, at, asked>>
fileVars   == <<sock, pidfile, disabled>>
vars == <<clientVars, srv, stopping, flocked, fileVars>>

Bound(d) == srv[d] \in {"bound", "up"}

(* connect succeeds: some process still listens on the file. *)
Connects == sock # None /\ srv[sock] \in {"bound", "up", "leaving"}

(* STATUS will be answered: the worker takes one command after the other,   *)
(* and behind a STOP there is only the end of the connection.               *)
Answers == sock # None /\ Bound(sock) /\ sock \notin stopping

(* What a ping may report of that. *)
Ping(live) ==
    \/ live = TRUE /\ Answers
    \/ live = FALSE /\ (Answers => sock \in Slow)

-----------------------------------------------------------------------------

Init ==
    /\ kind \in Kinds
    /\ at = [a \in Actor |-> "begin"]
    /\ asked = [a \in Actor |-> None]
    /\ stopping = {}
    /\ \E past \in {"none", "up", "gone"} :
         LET was == IF past = "none" THEN None ELSE Old IN
         /\ srv = [d \in Daemon |-> IF d = Old THEN past ELSE "none"]
         /\ flocked = IF past = "up" THEN Old ELSE None
         /\ sock = was
         /\ pidfile = was
    /\ disabled \in BOOLEAN

Goto(a, from, to) ==
    /\ at[a] = from
    /\ at' = [at EXCEPT ![a] = to]

Spawn(a) == srv' = [srv EXCEPT ![a] = "spawned"]

-----------------------------------------------------------------------------
(* The commands. *)

(* An autostart that looks at the socket only. *)
AutoMarkerIgnored(a) ==
    /\ kind[a] = "auto"
    /\ Goto(a, "begin", "connect")
    /\ UNCHANGED <<kind, asked, srv, stopping, flocked, fileVars>>

(* ensure_if_configured, for a repository that wants a daemon. *)
AutoMarker(a) ==
    /\ kind[a] = "auto"
    /\ Goto(a, "begin", IF disabled THEN "done" ELSE "connect")
    /\ UNCHANGED <<kind, asked, srv, stopping, flocked, fileVars>>

AutoConnect(a) ==
    /\ Goto(a, "connect", "done")
    /\ IF Connects THEN UNCHANGED srv ELSE Spawn(a)
    /\ UNCHANGED <<kind, asked, stopping, flocked, fileVars>>

(* start_detached: socket_is_live waits long enough for a slow daemon. *)
StartCmd(a) ==
    /\ kind[a] = "start"
    /\ Goto(a, "begin", "done")
    /\ IF Answers THEN UNCHANGED srv ELSE Spawn(a)
    /\ UNCHANGED <<kind, asked, stopping, flocked, fileVars>>

StopMark(a) ==
    /\ kind[a] = "stop"
    /\ Goto(a, "begin", "query")
    /\ disabled' = TRUE
    /\ UNCHANGED <<kind, asked, srv, stopping, flocked, sock, pidfile>>

RestartUnmark(a) ==
    /\ kind[a] = "restart"
    /\ Goto(a, "begin", "query")
    /\ disabled' = FALSE
    /\ UNCHANGED <<kind, asked, srv, stopping, flocked, sock, pidfile>>

(* query(STOP): to whoever listens; restart pings first. *)
SendStop(a) ==
    /\ Goto(a, "query", "answer")
    /\ \/ /\ Connects
          /\ kind[a] = "restart" => Ping(TRUE)
          /\ asked' = [asked EXCEPT ![a] = sock]
          /\ stopping' = stopping \cup {sock}
       \/ /\ IF kind[a] = "restart" THEN Ping(FALSE) ELSE ~Connects
          /\ UNCHANGED <<asked, stopping>>
    /\ UNCHANGED <<kind, srv, flocked, fileVars>>

(* The daemon replied, closed the connection, or was too slow. *)
Answered(a) == asked[a] \notin {d \in Daemon \ Slow : Bound(d)}

StopUnlink(a) ==
    /\ kind[a] = "stop"
    /\ Answered(a)
    /\ Goto(a, "answer", "pid")
    /\ sock' = None
    /\ UNCHANGED <<kind, asked, srv, stopping, flocked, pidfile, disabled>>

StopUnlinkPid(a) ==
    /\ Goto(a, "pid", "done")
    /\ pidfile' = None
    /\ UNCHANGED <<kind, asked, srv, stopping, flocked, sock, disabled>>

(* restart waits for the socket to go, two seconds at most, and pings again; *)
(* "daemon still running" ends it.                                          *)
RestartCheck(a) ==
    /\ kind[a] = "restart"
    /\ Answered(a)
    /\ sock \notin {d \in Daemon : srv[d] = "leaving"}
    /\ \/ Ping(TRUE) /\ Goto(a, "answer", "done")
       \/ Ping(FALSE) /\ Goto(a, "answer", "unlink")
    /\ UNCHANGED <<kind, asked, srv, stopping, flocked, fileVars>>

RestartUnlink(a) ==
    /\ Goto(a, "unlink", "spawn")
    /\ sock' = None
    /\ UNCHANGED <<kind, asked, srv, stopping, flocked, pidfile, disabled>>

RestartSpawn(a) ==
    /\ Goto(a, "spawn", "done")
    /\ Spawn(a)
    /\ UNCHANGED <<kind, asked, stopping, flocked, fileVars>>

-----------------------------------------------------------------------------
(* The daemon process: start, then Cmd::Stop or the watchdog. *)

Become(d, from, to) ==
    /\ srv[d] = from
    /\ srv' = [srv EXCEPT ![d] = to]

(* The socket's answer taken for the lock. *)
TakeFlockBySocket(d) ==
    /\ ~Answers
    /\ Become(d, "spawned", "gated")
    /\ flocked' = d
    /\ UNCHANGED <<clientVars, stopping, fileVars>>

TakeFlock(d) ==
    /\ flocked = None
    /\ Become(d, "spawned", "gated")
    /\ flocked' = d
    /\ UNCHANGED <<clientVars, stopping, fileVars>>

(* A starter that gives up as soon as the flock is taken. *)
LosesFlockAtOnce(d) ==
    /\ flocked # None
    /\ Become(d, "spawned", "gone")
    /\ UNCHANGED <<clientVars, stopping, flocked, fileVars>>

(* acquire_singleton_lock polls while the holder does not answer: it may be *)
(* leaving, or about to be ended by its watchdog.                           *)
LosesFlock(d) ==
    /\ flocked # None
    /\ Answers
    /\ Become(d, "spawned", "gone")
    /\ UNCHANGED <<clientVars, stopping, flocked, fileVars>>

EnableAutostart(d) ==
    /\ Become(d, "gated", "marked")
    /\ disabled' = FALSE
    /\ UNCHANGED <<clientVars, stopping, flocked, sock, pidfile>>

(* A socket file that nobody answers on is unlinked. *)
UnlinkStale(d) ==
    /\ Become(d, "marked", "clear")
    /\ sock' = None
    /\ UNCHANGED <<clientVars, stopping, flocked, pidfile, disabled>>

Bind(d) ==
    /\ sock = None
    /\ Become(d, "clear", "bound")
    /\ sock' = d
    /\ UNCHANGED <<clientVars, stopping, flocked, pidfile, disabled>>

WritePid(d) ==
    /\ Become(d, "bound", "up")
    /\ pidfile' = d
    /\ UNCHANGED <<clientVars, stopping, flocked, sock, disabled>>

(* Cmd::Stop: reply, unlink the socket; then the pid file, and exit. *)
ObeyStop(d) ==
    /\ d \in stopping
    /\ Become(d, "up", "leaving")
    /\ stopping' = stopping \ {d}
    /\ sock' = None
    /\ UNCHANGED <<clientVars, flocked, pidfile, disabled>>

(* An exit that leaves the socket's name in the lock's place. *)
ReleasedToSocket(d) == IF flocked = d THEN sock ELSE flocked

Released(d) == IF flocked = d THEN None ELSE flocked

Exit(d) ==
    /\ Become(d, "leaving", "gone")
    /\ flocked' = Released(d)
    /\ pidfile' = None
    /\ UNCHANGED <<clientVars, stopping, sock, disabled>>

(* A watchdog that trusts the pid file. *)
AbandonedByPid == pidfile = None

(* What the watchdog looks at, every two seconds: that the files are there, *)
(* not whose they are.                                                      *)
Abandoned == sock = None \/ pidfile = None

Watchdog(d) ==
    /\ Abandoned
    /\ Become(d, "up", "gone")
    /\ flocked' = Released(d)
    /\ UNCHANGED <<clientVars, stopping, fileVars>>

(* kill -9: the kernel drops the flock, the files stay. *)
Kill(d) ==
    /\ d = Old
    /\ srv[d] \in {"up", "leaving"}
    /\ srv' = [srv EXCEPT ![d] = "killed"]
    /\ flocked' = Released(d)
    /\ UNCHANGED <<clientVars, stopping, fileVars>>

-----------------------------------------------------------------------------

Command(a) ==
    \/ AutoMarker(a) \/ AutoConnect(a) \/ StartCmd(a)
    \/ StopMark(a) \/ RestartUnmark(a) \/ SendStop(a)
    \/ StopUnlink(a) \/ StopUnlinkPid(a)
    \/ RestartCheck(a) \/ RestartUnlink(a) \/ RestartSpawn(a)

Serve(d) ==
    \/ TakeFlock(d) \/ LosesFlock(d) \/ EnableAutostart(d) \/ UnlinkStale(d)
    \/ Bind(d) \/ WritePid(d) \/ ObeyStop(d) \/ Exit(d)

Next ==
    \/ \E a \in Actor : Command(a)
    \/ \E d \in Daemon : Serve(d) \/ Watchdog(d) \/ Kill(d)

Spec == Init /\ [][Next]_vars

(* An actor is a command that is run, at some time; daemons run.            *)
Fairness ==
    /\ \A a \in Actor : WF_vars(Command(a))
    /\ \A d \in Daemon : WF_vars(Serve(d)) /\ WF_vars(Watchdog(d))

FairSpec == Spec /\ Fairness

-----------------------------------------------------------------------------
(* Properties. *)

(* Between taking the flock and the end of the process. *)
Inside == {"gated", "marked", "clear", "bound", "up", "leaving"}

(* The types; and the flock is held exactly by the daemon that is inside:   *)
(* it lives on a descriptor, and is never handed on or left behind.         *)
TypeOK ==
    /\ kind \in Kinds
    /\ at \in [Actor -> {"begin", "connect", "query", "answer", "pid", "unlink",
                         "spawn", "done"}]
    /\ asked \in [Actor -> Daemon \cup {None}]
    /\ srv \in [Daemon -> {"none", "spawned", "gated", "marked", "clear", "bound", "up",
                           "leaving", "gone", "killed"}]
    /\ stopping \subseteq Daemon
    /\ flocked \in Daemon \cup {None}
    /\ sock \in Daemon \cup {None}
    /\ pidfile \in Daemon \cup {None}
    /\ disabled \in BOOLEAN
    /\ \A d \in Daemon : flocked = d <=> srv[d] \in Inside

(* "The one hard guarantee that there is exactly ONE live daemon"           *)
(* (zdaemon.rs:338): whoever is about to unlink or has bound the socket is  *)
(* alone, so nobody's live socket is ever unlinked by a starter.            *)
OneDaemon ==
    \A d, e \in Daemon :
        (srv[d] \in {"marked", "clear", "bound", "up"} /\ srv[e] \in {"bound", "up", "leaving"})
            => d = e

(* A daemon that nobody can reach, its socket taken away by a stop or a     *)
(* restart that was meant for another, does not stay.                       *)
HeadlessEnds == \A d \in Daemon : (srv[d] = "up" /\ sock # d) ~> srv[d] \in {"gone", "killed"}

(* A start or restart that begins when every stop is over leaves a daemon   *)
(* that stays, whatever autostarts, restarts and starts race it, and      *)
(* whatever state the last daemon was left in: two of them never end each   *)
(* other's daemon for good.  Two exceptions: the old daemon is killed, or a *)
(* stop has just taken the files of a daemon that it did not ask, which     *)
(* still answers and will be ended by its watchdog.                         *)
StopsOver == \A a \in Actor : kind[a] = "stop" => at[a] = "done"

Up == \E d \in Daemon : srv[d] = "up" /\ sock = d /\ pidfile = d

Doomed == \E d \in Daemon : srv[d] = "up" /\ (sock # d \/ pidfile # d)

BroughtUp ==
    \A a \in Actor :
        (StopsOver /\ ~Doomed /\ kind[a] \in {"start", "restart"} /\ at[a] = "begin") ~>
            [](Up \/ srv[Old] = "killed")

(* "Disable autostart BEFORE stopping, so a `git` command racing in during  *)
(* the stop cannot respawn the daemon" (zdaemon.rs:944): once the marker is *)
(* there, and nobody is left who had looked before, or was told to start,   *)
(* no autostart brings the daemon back.                                     *)
Off ==
    /\ disabled
    /\ \A a \in Actor :
         /\ at[a] # "connect"
         /\ kind[a] \in {"start", "restart"} => at[a] = "done"
    /\ \A d \in Daemon : srv[d] \notin {"spawned", "gated"}

StopSticks == [][Off => Off']_vars

=============================================================================
