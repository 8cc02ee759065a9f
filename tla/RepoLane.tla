------------------------------ MODULE RepoLane ------------------------------
(***************************************************************************)
(* The per-repository lane of the zvcs daemon, end to end: the client half *)
(* (RepoLock::acquire, try_acquire, Drop), the socket, the daemon's        *)
(* per-connection threads (handle_conn, conn_loop) and the single worker   *)
(* thread that owns every lane (worker_loop).                              *)
(*                                                                         *)
(* An element of Client is one acquisition.  The code gives each its own   *)
(* id `<pid>-<seq>` and its own connection, so an id is used once; a       *)
(* process that locks twice is two elements.  Three kinds of thread meet   *)
(* here with nothing but queues between them: the client writes lines into *)
(* wire[c], c's connection thread turns them into commands on the one mpsc *)
(* channel, and the worker answers into inbox[c].  A client may be killed  *)
(* between any two of those steps, and the daemon may exit.                *)
(*                                                                         *)
(* A lane with holder NoClient and an empty queue stands for "the HashMap  *)
(* has no entry".  One life of the daemon is modelled.  The HOLDER probe   *)
(* that precedes a request changes nothing here and is modelled in         *)
(* WriterExclusion, with the restarts of the daemon and the lane file.     *)
(***************************************************************************)
EXTENDS Naturals, Sequences, Lines

CONSTANTS Client,     (* acquisitions                                       *)
          Repo,       (* repositories (lane keys)                           *)
          RepoOf,     (* the repository an acquisition asks for             *)
          NoClient,   (* "no holder"                                        *)
          Endless     (* those whose critical section need never end        *)

ASSUME LaneAssumption ==
    /\ RepoOf \in [Client -> Repo]
    /\ NoClient \notin Client
    /\ Endless \subseteq Client

VARIABLES
    phase,      (* where the client side of the acquisition is              *)
    wire,       (* lines written by the client, not read by the daemon yet  *)
    inbox,      (* replies written by the daemon, not read by the client    *)
    conn,       (* the connection thread: none, open, ended                 *)
    held,       (* the acquisitions in their connection thread's `held`     *)
    chan,       (* the mpsc channel to the worker                           *)
    holder,     (* Lane.holder, per repository                              *)
    queue,      (* Lane.queue, per repository                               *)
    pending,    (* the repositories with jobpool::repo_has_pending          *)
    daemon      (* the daemon process: up or down                           *)

clientVars == <<phase, inbox>>
connVars   == <<wire, conn, held>>
laneVars   == <<holder, queue>>
vars == <<phase, wire, inbox, conn, held, chan, holder, queue, pending, daemon>>

Phase == {"idle", "waiting", "trying", "held", "closed", "fallback"}
Line  == {"ACQUIRE", "TRYACQUIRE", "RELEASE"}
Reply == {"GRANTED", "BUSY"}
Cmd   == [op : Line, id : Client]

Alive(c) == phase[c] \in {"waiting", "trying", "held"}

-----------------------------------------------------------------------------
(* The client. *)

Init ==
    /\ phase = [c \in Client |-> "idle"]
    /\ wire = [c \in Client |-> <<>>]
    /\ inbox = [c \in Client |-> <<>>]
    /\ conn = [c \in Client |-> "none"]
    /\ held = {}
    /\ chan = <<>>
    /\ holder = [r \in Repo |-> NoClient]
    /\ queue = [r \in Repo |-> <<>>]
    /\ pending = {}
    /\ daemon = "up"

(* Connect and send the request; the listener spawns a thread for it. *)
Request(c, verb, next) ==
    /\ phase[c] = "idle"
    /\ daemon = "up"
    /\ phase' = [phase EXCEPT ![c] = next]
    /\ wire' = [wire EXCEPT ![c] = Append(@, verb)]
    /\ conn' = [conn EXCEPT ![c] = "open"]
    /\ UNCHANGED <<inbox, held, chan, laneVars, pending, daemon>>

Acquire(c)    == Request(c, "ACQUIRE", "waiting")
TryAcquire(c) == Request(c, "TRYACQUIRE", "trying")

(* No socket to connect to: on to the lane file. *)
ConnectFails(c) ==
    /\ phase[c] = "idle"
    /\ daemon = "down"
    /\ phase' = [phase EXCEPT ![c] = "fallback"]
    /\ UNCHANGED <<inbox, connVars, chan, laneVars, pending, daemon>>

(* The blocked read_line returns GRANTED: the guard exists from here on. *)
ReadGranted(c) ==
    /\ phase[c] \in {"waiting", "trying"}
    /\ inbox[c] # <<>>
    /\ Head(inbox[c]) = "GRANTED"
    /\ phase' = [phase EXCEPT ![c] = "held"]
    /\ inbox' = [inbox EXCEPT ![c] = Tail(@)]
    /\ UNCHANGED <<connVars, chan, laneVars, pending, daemon>>

(* TryLock::Busy: try_acquire returns and its stream is dropped. *)
ReadBusy(c) ==
    /\ phase[c] = "trying"
    /\ inbox[c] # <<>>
    /\ Head(inbox[c]) = "BUSY"
    /\ phase' = [phase EXCEPT ![c] = "closed"]
    /\ inbox' = [inbox EXCEPT ![c] = Tail(@)]
    /\ UNCHANGED <<connVars, chan, laneVars, pending, daemon>>

(* read_line returns EOF without an answer: on to the lane file. *)
ReadEof(c) ==
    /\ phase[c] \in {"waiting", "trying"}
    /\ daemon = "down"
    /\ inbox[c] = <<>>
    /\ phase' = [phase EXCEPT ![c] = "fallback"]
    /\ UNCHANGED <<inbox, connVars, chan, laneVars, pending, daemon>>

(* Drop for RepoLock: write RELEASE, then the stream closes.  With the      *)
(* daemon gone the write fails and is ignored.                              *)
DropGuard(c) ==
    /\ phase[c] = "held"
    /\ phase' = [phase EXCEPT ![c] = "closed"]
    /\ wire' = [wire EXCEPT ![c] = IF daemon = "up" THEN Append(@, "RELEASE") ELSE @]
    /\ UNCHANGED <<inbox, conn, held, chan, laneVars, pending, daemon>>

(* SIGKILL, panic=abort, power of the user: the kernel closes the socket. *)
Kill(c) ==
    /\ Alive(c)
    /\ phase' = [phase EXCEPT ![c] = "closed"]
    /\ UNCHANGED <<inbox, connVars, chan, laneVars, pending, daemon>>

-----------------------------------------------------------------------------
(* The daemon's connection threads. *)

(* Only the holder's connection releases; a waiter's says nothing. *)
WithReleaseOfHolder(c) ==
    IF c \in held /\ holder[RepoOf[c]] = c
    THEN Append(chan, [op |-> "RELEASE", id |-> c]) ELSE chan

(* The channel with the release of what connection c holds. *)
WithRelease(c) ==
    IF c \in held THEN Append(chan, [op |-> "RELEASE", id |-> c]) ELSE chan

(* ACQUIRE / TRYACQUIRE: remembered as held before the worker hears of it. *)
ConnRequest(c) ==
    /\ conn[c] = "open"
    /\ wire[c] # <<>>
    /\ Head(wire[c]) \in {"ACQUIRE", "TRYACQUIRE"}
    /\ wire' = [wire EXCEPT ![c] = Tail(@)]
    /\ held' = held \cup {c}
    /\ chan' = Append(chan, [op |-> Head(wire[c]), id |-> c])
    /\ UNCHANGED <<clientVars, conn, laneVars, pending, daemon>>

(* RELEASE: gives back what this connection holds, nothing if it is empty. *)
ConnRelease(c) ==
    /\ conn[c] = "open"
    /\ wire[c] # <<>>
    /\ Head(wire[c]) = "RELEASE"
    /\ wire' = [wire EXCEPT ![c] = Tail(@)]
    /\ held' = held \ {c}
    /\ chan' = WithRelease(c)
    /\ UNCHANGED <<clientVars, conn, laneVars, pending, daemon>>

(* EOF is taken for a goodbye: the thread ends and `held` is just dropped. *)
ConnEofForgets(c) ==
    /\ conn[c] = "open"
    /\ wire[c] = <<>>
    /\ phase[c] = "closed"
    /\ conn' = [conn EXCEPT ![c] = "ended"]
    /\ held' = held \ {c}
    /\ UNCHANGED <<clientVars, wire, chan, laneVars, pending, daemon>>

(* EOF: handle_conn releases everything still in `held`, the thread ends. *)
ConnEof(c) ==
    /\ conn[c] = "open"
    /\ wire[c] = <<>>
    /\ phase[c] = "closed"
    /\ conn' = [conn EXCEPT ![c] = "ended"]
    /\ held' = held \ {c}
    /\ chan' = WithRelease(c)
    /\ UNCHANGED <<clientVars, wire, laneVars, pending, daemon>>

-----------------------------------------------------------------------------
(* The daemon's worker. *)

(* The next command is op for c; it leaves the channel. *)
Receive(op, c) ==
    /\ daemon = "up"
    /\ chan # <<>>
    /\ Head(chan) = [op |-> op, id |-> c]
    /\ chan' = Tail(chan)

(* reply(): the line reaches the client's socket buffer; a dead client's    *)
(* reply goes nowhere, and the error is ignored.                            *)
Send(c, reply) ==
    inbox' = IF Alive(c) THEN [inbox EXCEPT ![c] = Append(@, reply)] ELSE inbox

(* "Nobody is waiting" is taken for "nobody has it". *)
FreeIfNoQueue(r) == queue[r] = <<>>

(* lane.holder.is_none() *)
Free(r) == holder[r] = NoClient

(* lane.holder == Some(id) *)
Owns(r, c) == holder[r] = c

(* push_front instead of push_back. *)
EnqueueFront(r, c) == <<c>> \o queue[r]

Enqueue(r, c) == Append(queue[r], c)

WorkerAcquire(c) ==
    LET r == RepoOf[c] IN
    /\ Receive("ACQUIRE", c)
    /\ \/ /\ Free(r)
          /\ Send(c, "GRANTED")
          /\ holder' = [holder EXCEPT ![r] = c]
          /\ UNCHANGED queue
       \/ /\ ~Free(r)
          /\ queue' = [queue EXCEPT ![r] = Enqueue(r, c)]
          /\ UNCHANGED <<inbox, holder>>
    /\ UNCHANGED <<phase, connVars, pending, daemon>>

WorkerTryAcquire(c) ==
    LET r == RepoOf[c] IN
    /\ Receive("TRYACQUIRE", c)
    /\ \/ /\ Free(r)
          /\ r \notin pending
          /\ Send(c, "GRANTED")
          /\ holder' = [holder EXCEPT ![r] = c]
       \/ /\ ~Free(r) \/ r \in pending
          /\ Send(c, "BUSY")
          /\ UNCHANGED holder
    /\ UNCHANGED <<phase, connVars, queue, pending, daemon>>

(* The holder's release hands the lane to the head of the queue; anybody    *)
(* else's only takes it out of the queue.                                   *)
WorkerRelease(c) ==
    LET r == RepoOf[c] IN
    /\ Receive("RELEASE", c)
    /\ \/ /\ Owns(r, c)
          /\ queue[r] # <<>>
          /\ Send(Head(queue[r]), "GRANTED")
          /\ holder' = [holder EXCEPT ![r] = Head(queue[r])]
          /\ queue' = [queue EXCEPT ![r] = Tail(@)]
       \/ /\ Owns(r, c)
          /\ queue[r] = <<>>
          /\ holder' = [holder EXCEPT ![r] = NoClient]
          /\ UNCHANGED <<inbox, queue>>
       \/ /\ ~Owns(r, c)
          /\ queue' = [queue EXCEPT ![r] = Retain(@, c)]
          /\ UNCHANGED <<inbox, holder>>
    /\ UNCHANGED <<phase, connVars, pending, daemon>>

Worker == \E c \in Client : WorkerAcquire(c) \/ WorkerTryAcquire(c) \/ WorkerRelease(c)

(* The job pool, as this module sees it: a repository's queue of jobs       *)
(* becomes non-empty, or drains.                                            *)
JobsChange(r) ==
    /\ daemon = "up"
    /\ pending' \in {pending \cup {r}, pending \ {r}}
    /\ UNCHANGED <<clientVars, connVars, chan, laneVars, daemon>>

(* The process exits (STOP, the watchdog that misses the socket or the pid  *)
(* file, a signal): every thread and every lane is gone, and the kernel     *)
(* closes the daemon's end of every connection.                             *)
DaemonExit ==
    /\ daemon = "up"
    /\ daemon' = "down"
    /\ wire' = [c \in Client |-> <<>>]
    /\ conn' = [c \in Client |-> IF conn[c] = "open" THEN "ended" ELSE conn[c]]
    /\ held' = {}
    /\ chan' = <<>>
    /\ holder' = [r \in Repo |-> NoClient]
    /\ queue' = [r \in Repo |-> <<>>]
    /\ pending' = {}
    /\ UNCHANGED clientVars

-----------------------------------------------------------------------------

ClientNext(c) ==
    \/ Acquire(c) \/ TryAcquire(c) \/ ConnectFails(c)
    \/ ReadGranted(c) \/ ReadBusy(c) \/ ReadEof(c)
    \/ DropGuard(c) \/ Kill(c)

ConnNext(c) == ConnRequest(c) \/ ConnRelease(c) \/ ConnEof(c)

Next ==
    \/ \E c \in Client : ClientNext(c) \/ ConnNext(c)
    \/ Worker
    \/ \E r \in Repo : JobsChange(r)
    \/ DaemonExit

Spec == Init /\ [][Next]_vars

(* The daemon's threads run until the daemon exits, a client reads an       *)
(* answer that has arrived, and a critical section is a git command that    *)
(* ends: it drops its guard or dies.  An Endless one may hang inside.       *)
(* Nobody has to ask, to be killed while waiting, or to stop the daemon.    *)
CriticalSectionEnds(c) == phase[c] = "held" /\ (DropGuard(c) \/ Kill(c))

Fairness ==
    /\ WF_vars(Worker)
    /\ \A c \in Client : WF_vars(ConnNext(c))
    /\ \A c \in Client : WF_vars(ReadGranted(c) \/ ReadBusy(c) \/ ReadEof(c))
    /\ \A c \in Client \ Endless : WF_vars(CriticalSectionEnds(c))

FairSpec == Spec /\ Fairness

-----------------------------------------------------------------------------
(* Properties. *)

(* Every variable keeps the shape the code's types give it. *)
TypeOK ==
    /\ phase \in [Client -> Phase]
    /\ wire \in [Client -> Seq(Line)]
    /\ inbox \in [Client -> Seq(Reply)]
    /\ conn \in [Client -> {"none", "open", "ended"}]
    /\ held \in SUBSET Client
    /\ chan \in Seq(Cmd)
    /\ holder \in [Repo -> Client \cup {NoClient}]
    /\ queue \in [Repo -> Seq(Client)]
    /\ pending \in SUBSET Repo
    /\ daemon \in {"up", "down"}

(* c has the lane as far as it can know: it holds a guard, or the daemon's  *)
(* GRANTED is already in its socket.                                        *)
Granted(c) ==
    \/ phase[c] = "held"
    \/ phase[c] \in {"waiting", "trying"} /\ \E k \in DOMAIN inbox[c] : inbox[c][k] = "GRANTED"

(* "sole writer the daemon has granted for the repo" (lock.rs, RepoLock):   *)
(* at no moment do two live acquisitions of one repository both have it,    *)
(* also not while one is releasing, dying, or outliving the daemon.         *)
ExclusiveGrant ==
    \A c, d \in Client :
        RepoOf[c] = RepoOf[d] /\ Granted(c) /\ Granted(d) => c = d

(* c's release is certain: its connection thread still lists it as held, or *)
(* has already put the release on the channel.                              *)
ReleaseComing(c) ==
    c \in held \/ \E k \in DOMAIN chan : chan[k] = [op |-> "RELEASE", id |-> c]

(* "a crashed holder can never wedge its repo" (zdaemon.rs, handle_conn):   *)
(* whoever occupies a lane, as holder or in its queue, dead or alive, is    *)
(* somebody whose release the daemon will still see.                        *)
NoWedge ==
    \A r \in Repo :
        /\ holder[r] # NoClient => ReleaseComing(holder[r])
        /\ \A k \in DOMAIN queue[r] : ReleaseComing(queue[r][k])

(* The worker's lane and the clients agree: a live client that was granted  *)
(* the lane is its holder for as long as the daemon lives, and nobody is    *)
(* queued behind a free lane.                                               *)
LaneMatchesClients ==
    daemon = "up" =>
          /\ \A c \in Client : Granted(c) => holder[RepoOf[c]] = c
          /\ \A r \in Repo : holder[r] = NoClient => queue[r] = <<>>

(* The line of a repository, its holder in front, and who is inside. *)
LaneLine == [r \in Repo |-> IF holder[r] = NoClient THEN <<>> ELSE <<holder[r]>> \o queue[r]]
Inside   == {c \in Client : Granted(c)}

(* The lane serves its line first come, first served, and lets in only its  *)
(* head: the protocol implements LaneSpec.                                  *)
Abstract == INSTANCE LaneSpec WITH line <- LaneLine, inside <- Inside, open <- (daemon = "up")

ImplementsLaneSpec == Abstract!LaneSpecification

(* A blocked acquire comes to an end: the lane, the lane file, or death.    *)
(* A holder that crashed or never sent RELEASE does not hold it up, and     *)
(* "unrelated repos run fully in parallel" (zdaemon.rs): a holder that      *)
(* never finishes in another repository does not either.                    *)
Unhindered == {c \in Client : \A d \in Endless : RepoOf[d] # RepoOf[c]}

WaitEnds ==
    \A c \in Unhindered : phase[c] \in {"waiting", "trying"} ~> phase[c] \notin {"waiting", "trying"}

=============================================================================
