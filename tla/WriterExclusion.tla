-------------------------- MODULE WriterExclusion --------------------------
(***************************************************************************)
(* Who may write a repository: every road RepoLock::acquire can take.      *)
(*                                                                         *)
(* A writer asks the daemon, if one answers: HOLDER first, because a git   *)
(* child of the git process that holds the lane must not wait for it, then *)
(* ACQUIRE.  If no daemon answers, or the connection dies, it takes the    *)
(* lane FILE: an flock the kernel drops with the process, and in the file  *)
(* the holder's pid, so that a waiter can recognise an ancestor.  A waiter *)
(* that sees one holder past the budget is refused.  A writer inside an    *)
(* ancestor's critical section gets a guard that holds nothing.            *)
(*                                                                         *)
(* The daemon's lane is the line of LaneSpec, which RepoLane implements;   *)
(* here the daemon may also come up, stop, and come up again under running *)
(* writers.  An actor is one thread of one process taking one lane once: a *)
(* git command, a hook it runs and waits for, a command it starts after    *)
(* its critical section, a child of the job pool, or an autonomy thread of *)
(* the daemon process (zbump, reconcile).  Pids are not reused.            *)
(***************************************************************************)
EXTENDS Naturals, Sequences, Lines

CONSTANTS Actor, Repo, Proc,
          NoActor, NoProc,
          RepoOf,       (* the repository an actor writes                   *)
          ProcOf,       (* the process it is a thread of                    *)
          Chain,        (* zppid::ancestry: the pids above it, parent first *)
          Spawner,      (* who starts it; NoActor for one that just comes   *)
          Hooks,        (* started inside Spawner's section and waited for  *)
          Server,       (* the pid of the daemon that is up at the start    *)
          DaemonAtStart,
          Killable,     (* the actors whose process may be killed           *)
          Unlucky,      (* whose connection may fail although the daemon is up *)
          MaxChanges    (* bound on starts and stops of the daemon          *)

ASSUME WriterAssumption ==
    /\ NoActor \notin Actor
    /\ NoProc \notin Proc
    /\ RepoOf \in [Actor -> Repo]
    /\ ProcOf \in [Actor -> Proc]
    /\ Server \in Proc
    /\ Chain \in [Actor -> Seq(Proc)]
    /\ Spawner \in [Actor -> Actor \cup {NoActor}]
    /\ Hooks \subseteq {a \in Actor : Spawner[a] # NoActor}
    /\ DaemonAtStart \in BOOLEAN
    /\ Killable \subseteq {a \in Actor : ProcOf[a] # Server}
    /\ Unlucky \subseteq Actor
    /\ MaxChanges \in Nat

(* The actors whose process is above a's. *)
Above(a) == {b \in Actor : \E k \in DOMAIN Chain[a] : Chain[a][k] = ProcOf[b]}

(* Where the code does exclude: the daemon stays as it was at the start and *)
(* no connection to it fails, a process locks once, whoever has an actor    *)
(* above it is a hook of the one next above, and a process with hooks is    *)
(* not killed.                                                              *)
OneMechanism ==
    /\ MaxChanges = 0
    /\ Unlucky = {}
    /\ \A a, b \in Actor : ProcOf[a] = ProcOf[b] => a = b
    /\ \A a \in Actor : Spawner[a] # NoActor => a \in Hooks
    /\ \A a \in Actor :
          IF Spawner[a] = NoActor THEN Above(a) = {}
          ELSE Above(a) = {Spawner[a]} \cup Above(Spawner[a])
    /\ \A a \in Actor : \A b \in Above(a) :
          \E h \in Hooks : Spawner[h] = b /\ h \in {a} \cup Above(a)
    /\ \A h \in Hooks : Spawner[h] \notin Killable

VARIABLES
    pc,         (* where the actor is                                       *)
    guard,      (* what its RepoLock holds: none, daemon, file, noop        *)
    line,       (* the daemon's lane: holder, then queue                    *)
    flock,      (* the actor whose descriptor has the lane file's flock     *)
    label,      (* the pid in the lane file                                 *)
    seen,       (* take_lane: the pid the running deadline is for           *)
    daemon,     (* up or down                                               *)
    dead,       (* processes that were killed                               *)
    changes     (* starts and stops of the daemon so far                    *)

fileVars   == <<flock, label, seen>>
daemonVars == <<line, daemon, changes>>
vars == <<pc, guard, line, flock, label, seen, daemon, dead, changes>>

Ended     == {"over", "denied", "killed"}
Connected == {"connected", "probed", "waiting"}
Polling   == {"opened", "blocked"}
PC == {"off", "idle", "cut", "locked", "cleared", "writing", "parked"}
        \cup Connected \cup Polling \cup Ended

Init ==
    /\ pc = [a \in Actor |-> IF Spawner[a] = NoActor THEN "idle" ELSE "off"]
    /\ guard = [a \in Actor |-> "none"]
    /\ line = [r \in Repo |-> <<>>]
    /\ flock = [r \in Repo |-> NoActor]
    /\ label = [r \in Repo |-> NoProc]
    /\ seen = [a \in Actor |-> NoProc]
    /\ daemon = IF DaemonAtStart THEN "up" ELSE "down"
    /\ dead = {}
    /\ changes = 0

Move(a, from, to) ==
    /\ pc[a] = from
    /\ pc' = [pc EXCEPT ![a] = to]

(* The critical section begins, with this kind of guard. *)
Enter(a, from, g) ==
    /\ Move(a, from, "writing")
    /\ guard' = [guard EXCEPT ![a] = g]

(* Nobody is an ancestor: no reentrancy across processes. *)
IsAncestorNever(a, p) == FALSE

(* Any live process will do. *)
IsAncestorIfAlive(a, p) == p \in Proc \ (dead \cup {ProcOf[a]})

(* zppid::is_ancestor.  The walk ends where the chain of parents is broken: *)
(* the children of a dead process have a new parent.                        *)
IsAncestor(a, p) ==
    \E k \in DOMAIN Chain[a] :
        /\ Chain[a][k] = p
        /\ \A i \in 1 .. k : Chain[a][i] \notin dead

-----------------------------------------------------------------------------
(* The life of a writer outside its lock. *)

(* A hook is started by a writer that then waits for it, anything else by a *)
(* command that has finished its critical section and lives on.             *)
Spawn(a) ==
    LET s == Spawner[a] IN
    /\ s # NoActor
    /\ pc[a] = "off"
    /\ \/ /\ a \in Hooks
          /\ pc[s] = "writing"
          /\ pc' = [pc EXCEPT ![a] = "idle", ![s] = "parked"]
       \/ /\ a \notin Hooks
          /\ pc[s] = "over"
          /\ pc' = [pc EXCEPT ![a] = "idle"]
    /\ UNCHANGED <<guard, fileVars, daemonVars, dead>>

(* The hook has exited. *)
Resume(a) ==
    /\ \A h \in Hooks : Spawner[h] = a => pc[h] \in Ended \cup {"off"}
    /\ Move(a, "parked", "writing")
    /\ UNCHANGED <<guard, fileVars, daemonVars, dead>>

(* The lane file's descriptors of these actors are closed. *)
Unlocked(S) == [r \in Repo |-> IF flock[r] \in S THEN NoActor ELSE flock[r]]

(* Drop for RepoLock: RELEASE on the socket, or the descriptor is closed.   *)
Finish(a) ==
    /\ Move(a, "writing", "over")
    /\ guard' = [guard EXCEPT ![a] = "none"]
    /\ flock' = Unlocked({a})
    /\ UNCHANGED <<label, seen, daemonVars, dead>>

(* The threads of a process that have not ended yet. *)
Threads(p) == {b \in Actor : ProcOf[b] = p /\ pc[b] \notin Ended \cup {"off"}}

(* SIGKILL: every thread of the process is gone, its children are not. *)
Kill(a) ==
    LET T == Threads(ProcOf[a]) IN
    /\ a \in Killable
    /\ pc[a] \notin Ended \cup {"off"}
    /\ pc' = [b \in Actor |-> IF b \in T THEN "killed" ELSE pc[b]]
    /\ guard' = [b \in Actor |-> IF b \in T THEN "none" ELSE guard[b]]
    /\ flock' = Unlocked(T)
    /\ dead' = dead \cup {ProcOf[a]}
    /\ UNCHANGED <<label, seen, daemonVars>>

-----------------------------------------------------------------------------
(* acquire, with a daemon. *)

Connect(a) ==
    /\ Move(a, "idle", IF daemon = "up" THEN "connected" ELSE "opened")
    /\ UNCHANGED <<guard, fileVars, daemonVars, dead>>

(* lane_owner: HOLDER, and what the answer means to this process. *)
HeldByAncestor(a) ==
    /\ line[RepoOf[a]] # <<>>
    /\ IsAncestor(a, ProcOf[Head(line[RepoOf[a]])])

Probe(a) ==
    /\ \/ /\ HeldByAncestor(a)
          /\ Enter(a, "connected", "noop")
       \/ /\ ~HeldByAncestor(a)
          /\ Move(a, "connected", "probed")
          /\ UNCHANGED guard
    /\ UNCHANGED <<fileVars, daemonVars, dead>>

Acquire(a) ==
    /\ Move(a, "probed", "waiting")
    /\ line' = [line EXCEPT ![RepoOf[a]] = Append(@, a)]
    /\ UNCHANGED <<guard, fileVars, daemon, changes, dead>>

(* Anywhere in the line. *)
InLine(a) == \E k \in DOMAIN line[RepoOf[a]] : line[RepoOf[a]][k] = a

AtHead(a) == line[RepoOf[a]] # <<>> /\ Head(line[RepoOf[a]]) = a

Granted(a) ==
    /\ AtHead(a)
    /\ Enter(a, "waiting", "daemon")
    /\ UNCHANGED <<fileVars, daemonVars, dead>>

(* The daemon sees a RELEASE or the EOF of a connection. *)
Forget(a) ==
    /\ pc[a] \in Ended
    /\ InLine(a)
    /\ line' = [line EXCEPT ![RepoOf[a]] = Retain(@, a)]
    /\ UNCHANGED <<pc, guard, fileVars, daemon, changes, dead>>

(* The connection fails and the daemon does not: no descriptor is left or   *)
(* the backlog is full at connect or try_clone, a write fails, or the read  *)
(* ends because the daemon's thread for this connection gave up (which      *)
(* takes its request out of the line).  On to the lane file beside the      *)
(* daemon.  A GRANTED already in the socket is still read.                  *)
LoseConnection(a) ==
    /\ a \in Unlucky
    /\ daemon = "up"
    /\ pc[a] \in Connected \cup {"idle"}
    /\ pc[a] = "waiting" => ~AtHead(a)
    /\ pc' = [pc EXCEPT ![a] = "opened"]
    /\ line' = [line EXCEPT ![RepoOf[a]] = Retain(@, a)]
    /\ UNCHANGED <<guard, fileVars, daemon, changes, dead>>

(* The dead connection is not noticed: the read never returns. *)
FallbackNever(a) == FALSE

(* The daemon's connections are gone with it: on to the lane file. *)
Fallback(a) ==
    /\ Move(a, "cut", "opened")
    /\ UNCHANGED <<guard, fileVars, daemonVars, dead>>

-----------------------------------------------------------------------------
(* take_lane: the lane file. *)

TakeLane(a) ==
    /\ flock[RepoOf[a]] = NoActor
    /\ Move(a, "opened", "locked")
    /\ flock' = [flock EXCEPT ![RepoOf[a]] = a]
    /\ UNCHANGED <<guard, label, seen, daemonVars, dead>>

(* EWOULDBLOCK *)
WouldBlock(a) ==
    /\ flock[RepoOf[a]] # NoActor
    /\ Move(a, "opened", "blocked")
    /\ UNCHANGED <<guard, fileVars, daemonVars, dead>>

(* The budget is over and the writer goes ahead all the same. *)
DenyProceeds(a) == Enter(a, "blocked", "noop")

(* Every poll starts the deadline anew. *)
DenyNever(a) == Move(a, "blocked", "opened") /\ UNCHANGED guard

(* The budget is over: deny_and_exit, nothing is written. *)
Deny(a) == Move(a, "blocked", "denied") /\ UNCHANGED guard

(* The pid in the file: an ancestor, a holder not seen before (the deadline *)
(* starts anew), or the same one again, or none yet.                        *)
ReadLabel(a) ==
    LET pid == label[RepoOf[a]] IN
    /\ \/ /\ IsAncestor(a, pid)
          /\ Enter(a, "blocked", "noop")
          /\ UNCHANGED seen
       \/ /\ ~IsAncestor(a, pid)
          /\ pid \notin {NoProc, seen[a]}
          /\ seen' = [seen EXCEPT ![a] = pid]
          /\ Move(a, "blocked", "opened")
          /\ UNCHANGED guard
       \/ /\ pid \in {NoProc, seen[a]}
          /\ ~IsAncestor(a, pid)
          /\ \/ Move(a, "blocked", "opened") /\ UNCHANGED guard
             \/ Deny(a)
          /\ UNCHANGED seen
    /\ UNCHANGED <<flock, label, daemonVars, dead>>

(* Truncated after the write instead of before it. *)
NobodysPid(a) == NoProc

HoldersPid(a) == ProcOf[a]

(* LaneFile::publish: set_len(0), then the pid. *)
Truncate(a) ==
    /\ Move(a, "locked", "cleared")
    /\ label' = [label EXCEPT ![RepoOf[a]] = NoProc]
    /\ UNCHANGED <<guard, flock, seen, daemonVars, dead>>

Publish(a) ==
    /\ Enter(a, "cleared", "file")
    /\ label' = [label EXCEPT ![RepoOf[a]] = HoldersPid(a)]
    /\ UNCHANGED <<flock, seen, daemonVars, dead>>

-----------------------------------------------------------------------------
(* The daemon. *)

(* STOP, a crash or SIGKILL.  Its lanes and its own threads are gone; of    *)
(* those that waited at a head some have GRANTED in their socket already.   *)
DaemonDown ==
    LET T == Threads(Server) IN
    /\ daemon = "up"
    /\ changes < MaxChanges
    /\ \E G \in SUBSET {a \in Actor : pc[a] = "waiting" /\ AtHead(a) /\ a \notin T} :
        /\ pc' = [a \in Actor |->
                IF a \in T THEN "killed"
                ELSE IF a \in G THEN "writing"
                ELSE IF pc[a] \in Connected THEN "cut" ELSE pc[a]]
        /\ guard' = [a \in Actor |->
                IF a \in T THEN "none" ELSE IF a \in G THEN "daemon" ELSE guard[a]]
    /\ flock' = Unlocked(T)
    /\ line' = [r \in Repo |-> <<>>]
    /\ daemon' = "down"
    /\ dead' = dead \cup {Server}
    /\ changes' = changes + 1
    /\ UNCHANGED <<label, seen>>

(* A daemon of another pid, with no lanes. *)
DaemonUp ==
    /\ daemon = "down"
    /\ changes < MaxChanges
    /\ daemon' = "up"
    /\ changes' = changes + 1
    /\ UNCHANGED <<pc, guard, fileVars, line, dead>>

-----------------------------------------------------------------------------

Lock(a) ==
    \/ Connect(a) \/ Probe(a) \/ Acquire(a) \/ Granted(a) \/ Fallback(a)
    \/ TakeLane(a) \/ WouldBlock(a) \/ ReadLabel(a) \/ Truncate(a) \/ Publish(a)

Work(a) == Resume(a) \/ Finish(a)

Next ==
    \/ \E a \in Actor :
          Spawn(a) \/ Lock(a) \/ Work(a) \/ Kill(a) \/ LoseConnection(a) \/ Forget(a)
    \/ DaemonDown \/ DaemonUp

Spec == Init /\ [][Next]_vars

(* A process runs, a critical section ends once its hooks have, and the     *)
(* daemon serves its connections.  The deadline for one holder passes: who  *)
(* finds the same holder at every poll does not poll for ever.  Nobody has  *)
(* to be started or killed, and no connection has to fail.                  *)
DeadlinePasses(a) == ReadLabel(a) /\ pc'[a] = "denied"

Fairness == \A a \in Actor :
    /\ WF_vars(Lock(a))
    /\ WF_vars(Work(a))
    /\ WF_vars(Forget(a))
    /\ SF_vars(DeadlinePasses(a))

FairSpec == Spec /\ Fairness

-----------------------------------------------------------------------------
(* Properties. *)

(* Every variable keeps the shape the code's types give it. *)
TypeOK ==
    /\ pc \in [Actor -> PC]
    /\ guard \in [Actor -> {"none", "daemon", "file", "noop"}]
    /\ line \in [Repo -> Seq(Actor)]
    /\ flock \in [Repo -> Actor \cup {NoActor}]
    /\ label \in [Repo -> Proc \cup {NoProc}]
    /\ seen \in [Actor -> Proc \cup {NoProc}]
    /\ daemon \in {"up", "down"}
    /\ dead \in SUBSET Proc
    /\ changes \in 0 .. MaxChanges

(* "Invariant: <=1 in-flight index writer per repo" (DESIGN.md): two actors *)
(* never write one repository at the same time.  A writer that waits for    *)
(* its hook does not write meanwhile.  The code keeps this only under       *)
(* OneMechanism: a writer that fell back to the lane file, because a daemon *)
(* was not up yet or its own connection failed, and one that the daemon     *)
(* granted its lane do not see each other.                                  *)
AtMostOneWriter ==
    \A a, b \in Actor :
        pc[a] = "writing" /\ pc[b] = "writing" /\ RepoOf[a] = RepoOf[b] => a = b

(* "the ancestor is blocked waiting on this child, so it cannot release"    *)
(* (zppid.rs, is_ancestor): whoever writes with a guard that holds nothing  *)
(* does so inside the critical section of an ancestor that holds the lane   *)
(* and is waiting.                                                          *)
NoOpIsCovered ==
    \A a \in Actor :
        guard[a] = "noop" =>
            \E b \in Actor :
                /\ pc[b] = "parked"
                /\ guard[b] \in {"daemon", "file"}
                /\ RepoOf[b] = RepoOf[a]
                /\ IsAncestor(a, ProcOf[b])

(* "An ancestor holds it: we run INSIDE its critical section" (lock.rs,     *)
(* fallback): a writer is never refused the lane file that its own parent   *)
(* holds while it waits for it, whatever became of the daemon in between.   *)
NeverRefusedByAncestor ==
    [][\A a, b \in Actor :
        /\ pc[a] = "blocked" /\ pc'[a] = "denied"
        /\ flock[RepoOf[a]] = b /\ pc[b] = "parked"
        => ~IsAncestor(a, ProcOf[b])]_vars

(* Every writer gets to write and comes to an end, or is refused, or dies:  *)
(* no hook waits for the command that waits for it ("waiting would          *)
(* deadlock", lock.rs, LaneOutcome), and none is stranded by a daemon that  *)
(* goes away.                                                               *)
EveryoneEnds == \A a \in Actor : pc[a] # "off" ~> pc[a] \in Ended

=============================================================================
